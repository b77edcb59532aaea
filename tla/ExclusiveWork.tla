---------------------------- MODULE ExclusiveWork ----------------------------
(***************************************************************************)
(* What the step ledger promises to those who work for it, without         *)
(* records, leases, plans or obligations: a worker that takes a piece of   *)
(* work is its only holder and engages it; pieces of work that exclude     *)
(* each other are never engaged together; a result is the work of the      *)
(* holder of the moment; and once the work is called off nothing is taken, *)
(* delivered or withdrawn any more.  StepLedger implements it (Work!Spec). *)
(***************************************************************************)
CONSTANTS
  Pieces,      \* pieces of work
  Retractable, \* pieces whose result may be withdrawn
  Workers,     \* those who take work, a new one for each taking
  Nobody,
  Excludes     \* the pairs of pieces that may not be engaged together

VARIABLES
  holder,  \* the worker whose writes count, or Nobody
  engaged, \* pieces somebody acts on, or may still act on
  result,  \* the worker whose result stands, or Nobody
  open     \* FALSE once the work is called off

vars == <<holder, engaged, result, open>>

Init ==
  /\ holder = [p \in Pieces |-> Nobody]
  /\ engaged = {}
  /\ result = [p \in Pieces |-> Nobody]
  /\ open = TRUE

(* The one way to engage a piece of work, for one worker at a time.        *)
Take(p, w) ==
  /\ open /\ p \notin engaged /\ holder[p] = Nobody
  /\ \A q \in engaged : <<p, q>> \notin Excludes
  /\ holder' = [holder EXCEPT ![p] = w]
  /\ engaged' = engaged \cup {p}
  /\ UNCHANGED <<result, open>>

(* The holder's result is accepted and the holder is free.  A piece that   *)
(* now waits for a person stays engaged.                                   *)
Deliver(p) ==
  /\ open /\ holder[p] # Nobody
  /\ result' = [result EXCEPT ![p] = holder[p]]
  /\ holder' = [holder EXCEPT ![p] = Nobody]
  /\ engaged' \in {engaged, engaged \ {p}}
  /\ UNCHANGED open

(* The holder returns the piece without a result.                          *)
HandBack(p) ==
  /\ open /\ holder[p] # Nobody
  /\ holder' = [holder EXCEPT ![p] = Nobody]
  /\ engaged' = engaged \ {p}
  /\ UNCHANGED <<result, open>>

(* Holders are not heard of any more.  Their pieces stay engaged: they may *)
(* still act on them.                                                      *)
Lapse(lapsed) ==
  /\ open
  /\ holder' = [p \in Pieces |-> IF p \in lapsed THEN Nobody ELSE holder[p]]
  /\ UNCHANGED <<engaged, result, open>>

(* Pieces nobody holds are no longer engaged.                              *)
Free(freed) ==
  /\ open /\ \A p \in freed : holder[p] = Nobody
  /\ engaged' = engaged \ freed
  /\ UNCHANGED <<holder, result, open>>

(* A piece nobody holds is set going again, and with it pieces that        *)
(* reported on it: their results are withdrawn, their holders are cut off. *)
Withdraw(p, withdrawn) ==
  /\ open /\ holder[p] = Nobody
  /\ holder' = [q \in Pieces |-> IF q \in withdrawn THEN Nobody ELSE holder[q]]
  /\ result' = [q \in Pieces |-> IF q \in withdrawn THEN Nobody ELSE result[q]]
  /\ engaged' = engaged \ (withdrawn \cup {p})
  /\ UNCHANGED open

(* The work is called off: results stay, nothing else does.                *)
CallOff ==
  /\ open
  /\ open' = FALSE
  /\ holder' = [p \in Pieces |-> Nobody]
  /\ engaged' = {}
  /\ UNCHANGED result

Next ==
  \/ \E p \in Pieces : (\E w \in Workers : Take(p, w)) \/ Deliver(p) \/ HandBack(p)
  \/ \E lapsed \in SUBSET Pieces : Lapse(lapsed)
  \/ \E freed \in SUBSET Pieces : Free(freed)
  \/ \E p \in Pieces, withdrawn \in SUBSET Retractable : Withdraw(p, withdrawn)
  \/ CallOff

Spec == Init /\ [][Next]_vars
=============================================================================
