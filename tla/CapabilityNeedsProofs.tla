------------------------ MODULE CapabilityNeedsProofs ------------------------
(* Proofs about CapabilityNeeds for any number of mandates, agents and     *)
(* claims, any lease and any number of crashes.                            *)
EXTENDS CapabilityNeeds, TLAPS

USE NeedsAssumption

-----------------------------------------------------------------------------
(* The inductive invariant                                                 *)

(* A mandate is in the store once its request has begun.                   *)
PublishedByAsker == \A n \in Needs : asker[n] = "idle" <=> status[n] = "absent"

Inv ==
  /\ TypeOK
  /\ PublishedByAsker
  /\ LockFences
  /\ RequestersLeaveNothing

LEMMA InitInv == Init => Inv
<1> SUFFICES ASSUME Init PROVE Inv
  OBVIOUS
<1>1. /\ status \in [Needs -> Statuses]
      /\ ttl \in [Needs -> 0 .. LeaseTicks]
      /\ crashes \in 0 .. MaxCrashes
  BY DEF Init, Statuses
<1>2. /\ claim \in [Needs -> Claims \cup {NoClaim}]
      /\ lock \in [Needs -> Claims \cup {NoClaim}]
      /\ listed \in BOOLEAN /\ cancelled \in BOOLEAN
      /\ asker \in [Needs -> {"idle", "asking", "late", "result", "error", "gone"}]
      /\ job \in [Claims -> Needs \cup {NoNeed}]
      /\ sweep \in [Agents -> {"none", "look", "remove"}]
  BY DEF Init
<1>3. visit \in [Agents -> [Needs -> {"rest", "checked", "open"}]]
  BY DEF Init
<1>4. TypeOK
  BY <1>1, <1>2, <1>3 DEF TypeOK
<1>5. PublishedByAsker /\ LockFences /\ RequestersLeaveNothing
  BY DEF Init, PublishedByAsker, LockFences, RequestersLeaveNothing
<1>6. QED
  BY <1>4, <1>5 DEF Inv

-----------------------------------------------------------------------------
(* Types                                                                   *)

LEMMA EndType ==
  ASSUME TypeOK, NEW n \in Needs, NEW as \in Ended, End(n, as)
  PROVE  /\ status' \in [Needs -> Statuses]
         /\ claim' \in [Needs -> Claims \cup {NoClaim}]
         /\ lock' \in [Needs -> Claims \cup {NoClaim}]
         /\ ttl' \in [Needs -> 0 .. LeaseTicks]
<1>1. status' \in [Needs -> Statuses]
  BY DEF TypeOK, End, Statuses
<1>2. ttl' \in [Needs -> 0 .. LeaseTicks]
  BY DEF TypeOK, End
<1>3. QED
  BY <1>1, <1>2 DEF TypeOK, End

LEMMA VisitType ==
  ASSUME TypeOK, NEW a \in Agents, NEW n \in Needs,
         NEW p \in {"rest", "checked", "open"},
         visit' = [visit EXCEPT ![a][n] = p]
  PROVE  visit' \in [Agents -> [Needs -> {"rest", "checked", "open"}]]
BY DEF TypeOK

LEMMA NextType == TypeOK /\ [Next]_vars => TypeOK'
<1> SUFFICES ASSUME TypeOK, [Next]_vars PROVE TypeOK'
  OBVIOUS
<1>1. ASSUME NEW n \in Needs, Publish(n) PROVE TypeOK'
  <2>1. status' \in [Needs -> Statuses]
    BY <1>1 DEF Publish, TypeOK, Statuses
  <2>2. QED
    BY <1>1, <2>1 DEF Publish, TypeOK
<1>2. ASSUME NEW n \in Needs, Poll(n) \/ TimeOut(n) \/ Abandon(n) PROVE TypeOK'
  BY <1>2 DEF Poll, TimeOut, Abandon, store, mandates, TypeOK
<1>3. ASSUME NEW n \in Needs, GiveUp(n) PROVE TypeOK'
  <2>1. /\ asker' = [asker EXCEPT ![n] = "error"]
        /\ UNCHANGED <<listed, cancelled, visit, job, crashes>>
    BY <1>3 DEF GiveUp
  <2>2. CASE End(n, "failed") /\ sweep' = [sweep EXCEPT ![Requester[n]] = "look"]
    <3>1. "failed" \in Ended
      BY DEF Ended
    <3>2. QED
      BY <2>1, <2>2, <3>1, EndType DEF TypeOK
  <2>3. CASE UNCHANGED <<mandates, sweep>>
    BY <2>1, <2>3 DEF TypeOK, mandates
  <2>4. QED
    BY <1>3, <2>2, <2>3 DEF GiveUp
<1>4. ASSUME NEW a \in Agents, NEW n \in Needs, Scan(a, n) \/ PassBy(a, n)
      PROVE  TypeOK'
  <2>1. visit' \in [Agents -> [Needs -> {"rest", "checked", "open"}]]
    BY <1>4, VisitType DEF Scan, PassBy
  <2>2. QED
    BY <1>4, <2>1 DEF Scan, PassBy, store, mandates, TypeOK
<1>5. ASSUME NEW a \in Agents, NEW n \in Needs, Look(a, n) PROVE TypeOK'
  <2>1. visit' \in [Agents -> [Needs -> {"rest", "checked", "open"}]]
    BY <1>5 DEF Look, TypeOK
  <2>2. status' \in [Needs -> Statuses] /\ claim' \in [Needs -> Claims \cup {NoClaim}]
    BY <1>5 DEF Look, TypeOK, Statuses
  <2>3. QED
    BY <1>5, <2>1, <2>2 DEF Look, TypeOK
<1>6. ASSUME NEW c \in Claims, NEW n \in Needs, Claim(c, n) PROVE TypeOK'
  <2>1. /\ visit' \in [Agents -> [Needs -> {"rest", "checked", "open"}]]
        /\ status' \in [Needs -> Statuses]
    BY <1>6 DEF Claim, TypeOK, Statuses
  <2>2. QED
    BY <1>6, <2>1 DEF Claim, TypeOK
<1>7. ASSUME NEW c \in Claims, Renew(c) PROVE TypeOK'
  BY <1>7 DEF Renew, TypeOK
<1>8. ASSUME NEW c \in Claims, Fulfil(c) PROVE TypeOK'
  <2>1. /\ job[c] \in Needs /\ job' = [job EXCEPT ![c] = NoNeed]
        /\ UNCHANGED <<listed, cancelled, asker, visit, crashes>>
    BY <1>8 DEF Fulfil
  <2>2. ASSUME NEW as \in Ended, End(job[c], as),
               sweep' = [sweep EXCEPT ![AgentOf[c]] = "look"]
        PROVE  TypeOK'
    BY <2>1, <2>2, EndType DEF TypeOK
  <2>3. CASE UNCHANGED <<mandates, sweep>>
    BY <2>1, <2>3 DEF TypeOK, mandates
  <2>4. QED
    BY <1>8, <2>2, <2>3 DEF Fulfil, Ended
<1>9. ASSUME NEW a \in Agents, SweepLook(a) \/ SweepRemove(a) PROVE TypeOK'
  BY <1>9 DEF SweepLook, SweepRemove, store, mandates, TypeOK
<1>10. ASSUME NEW a \in Agents, Crash(a) PROVE TypeOK'
  <2>1. /\ asker' \in
             [Needs -> {"idle", "asking", "late", "result", "error", "gone"}]
        /\ job' \in [Claims -> Needs \cup {NoNeed}]
        /\ sweep' \in [Agents -> {"none", "look", "remove"}]
    BY <1>10 DEF Crash, TypeOK
  <2>2. visit' \in [Agents -> [Needs -> {"rest", "checked", "open"}]]
    BY <1>10 DEF Crash, TypeOK
  <2>3. crashes' \in 0 .. MaxCrashes
    BY <1>10 DEF Crash, TypeOK
  <2>4. QED
    BY <1>10, <2>1, <2>2, <2>3 DEF Crash, store, mandates, TypeOK
<1>11. CASE Tick
  <2>1. ttl' \in [Needs -> 0 .. LeaseTicks]
    <3>1. \A n \in Needs : ttl[n] \in 0 .. LeaseTicks
      BY DEF TypeOK
    <3>2. \A i \in 0 .. LeaseTicks : i # 0 => i - 1 \in 0 .. LeaseTicks
      OBVIOUS
    <3>3. QED
      BY <1>11, <3>1, <3>2 DEF Tick
  <2>2. lock' \in [Needs -> Claims \cup {NoClaim}]
    BY <1>11 DEF Tick, TypeOK
  <2>3. QED
    BY <1>11, <2>1, <2>2 DEF Tick, TypeOK
<1>12. CASE Cancel
  <2>1. status' \in [Needs -> Statuses]
    BY <1>12 DEF Cancel, TypeOK, Statuses, Ended
  <2>2. ttl' \in [Needs -> 0 .. LeaseTicks]
    BY <1>12 DEF Cancel
  <2>3. QED
    BY <1>12, <2>1, <2>2 DEF Cancel, TypeOK
<1>13. CASE UNCHANGED vars
  BY <1>13 DEF vars, store, mandates, TypeOK
<1>14. QED
  BY <1>1, <1>2, <1>3, <1>4, <1>5, <1>6, <1>7, <1>8, <1>9, <1>10, <1>11, <1>12,
     <1>13 DEF Next

-----------------------------------------------------------------------------
(* What a step may do to one mandate                                       *)

(* Every change of a mandate's status, with what its claim, lock and       *)
(* requester do in the same step.                                          *)
Moves(n) ==
  \/ /\ asker[n] = "idle" /\ asker'[n] = "asking" /\ status'[n] = "open"
     /\ lock'[n] = lock[n]
  \/ /\ Active(n) /\ status'[n] \in Ended /\ lock'[n] = NoClaim
     /\ asker'[n] = asker[n] \/ asker'[n] = "error"
  \/ /\ Expired(n) /\ status'[n] = "open" /\ lock'[n] = NoClaim
     /\ asker'[n] = asker[n]
  \/ /\ status[n] = "open" /\ status'[n] = "claimed" /\ lock'[n] = claim'[n]
     /\ asker'[n] = asker[n]
  \/ /\ status'[n] = status[n] /\ claim'[n] = claim[n]
     /\ lock'[n] \in {lock[n], NoClaim}
     /\ \/ asker'[n] = asker[n]
        \/ asker[n] # "idle" /\ asker'[n] \in {"late", "gone"}
        \/ /\ asker[n] # "idle" /\ asker'[n] \in {"result", "error"}
           /\ ~ Active(n)
           /\ asker'[n] = "result" => status[n] = "fulfilled"

LEMMA NextMoves == TypeOK /\ [Next]_vars => \A n \in Needs : Moves(n)
<1> SUFFICES ASSUME TypeOK, [Next]_vars, NEW n \in Needs PROVE Moves(n)
  OBVIOUS
<1>1. ASSUME NEW k \in Needs, Publish(k) PROVE Moves(n)
  BY <1>1 DEF Publish, TypeOK, Moves
<1>2. ASSUME NEW k \in Needs, Poll(k) PROVE Moves(n)
  BY <1>2 DEF Poll, store, mandates, TypeOK, Moves, Active, Ended
<1>3. ASSUME NEW k \in Needs, TimeOut(k) \/ Abandon(k) PROVE Moves(n)
  BY <1>3 DEF TimeOut, Abandon, store, mandates, TypeOK, Moves
<1>4. ASSUME NEW k \in Needs, GiveUp(k) PROVE Moves(n)
  BY <1>4 DEF GiveUp, CanFail, End, mandates, TypeOK, Moves, Active, Ended
<1>5. ASSUME NEW a \in Agents, NEW k \in Needs, Scan(a, k) \/ PassBy(a, k)
      PROVE  Moves(n)
  BY <1>5 DEF Scan, PassBy, store, mandates, Moves
<1>6. ASSUME NEW a \in Agents, NEW k \in Needs, Look(a, k) PROVE Moves(n)
  BY <1>6 DEF Look, Expired, TypeOK, Moves
<1>7. ASSUME NEW c \in Claims, NEW k \in Needs, Claim(c, k) PROVE Moves(n)
  BY <1>7 DEF Claim, Claimable, TypeOK, Moves
<1>8. ASSUME NEW c \in Claims, Renew(c) PROVE Moves(n)
  BY <1>8 DEF Renew, Moves
<1>9. ASSUME NEW c \in Claims, Fulfil(c) PROVE Moves(n)
  BY <1>9 DEF Fulfil, Holds, End, mandates, TypeOK, Moves, Active, Ended
<1>10. ASSUME NEW a \in Agents, SweepLook(a) \/ SweepRemove(a) PROVE Moves(n)
  BY <1>10 DEF SweepLook, SweepRemove, store, mandates, Moves
<1>11. ASSUME NEW a \in Agents, Crash(a) PROVE Moves(n)
  BY <1>11 DEF Crash, store, mandates, Moves, TypeOK
<1>12. CASE Tick
  BY <1>12 DEF Tick, Moves, TypeOK
<1>13. CASE Cancel
  BY <1>13 DEF Cancel, Cancellable, Moves, TypeOK, Active, Ended
<1>14. CASE UNCHANGED vars
  BY <1>14 DEF vars, store, mandates, Moves
<1>15. QED
  BY <1>1, <1>2, <1>3, <1>4, <1>5, <1>6, <1>7, <1>8, <1>9, <1>10, <1>11, <1>12,
     <1>13, <1>14 DEF Next

LEMMA NextInv == Inv /\ [Next]_vars => Inv'
<1> SUFFICES ASSUME Inv, [Next]_vars PROVE Inv'
  OBVIOUS
<1>1. TypeOK' /\ \A n \in Needs : Moves(n) /\ status[n] \in Statuses
  BY NextType, NextMoves DEF Inv, TypeOK
<1>2. PublishedByAsker'
  BY <1>1 DEF Inv, PublishedByAsker, Moves, Active, Expired, Ended
<1>3. LockFences'
  BY <1>1 DEF Inv, PublishedByAsker, LockFences, Moves, Active
<1>4. RequestersLeaveNothing'
  BY <1>1 DEF Inv, RequestersLeaveNothing, PublishedByAsker, LockFences, Moves,
     Active, Expired, Ended, Statuses
<1>5. QED
  BY <1>1, <1>2, <1>3, <1>4 DEF Inv

LEMMA InvHolds == Spec => []Inv
BY InitInv, NextInv, PTL DEF Spec

-----------------------------------------------------------------------------
(* Theorems                                                                *)

(* Records, locks and requests keep their types.                           *)
THEOREM NeedsTypeCorrect == Spec => []TypeOK
<1>1. Inv => TypeOK
  BY DEF Inv
<1>2. QED
  BY <1>1, InvHolds, PTL

(* The lock of a mandate (claim_capability_need, redis_store.py) exists    *)
(* only while the mandate is claimed by its holder.                        *)
THEOREM LocksFence == Spec => []LockFences
<1>1. Inv => LockFences
  BY DEF Inv
<1>2. QED
  BY <1>1, InvHolds, PTL

(* When request_capability (peer_client.py) returns, the mandate has ended *)
(* and nobody holds it; a result is returned only of a fulfilled one.      *)
THEOREM NothingLeftBehind == Spec => []RequestersLeaveNothing
<1>1. Inv => RequestersLeaveNothing
  BY DEF Inv
<1>2. QED
  BY <1>1, InvHolds, PTL

(* A fulfilled, failed or cancelled mandate stays so.                      *)
THEOREM EndsForGood == Spec => EndedStays
<1>1. ASSUME Inv, [Next]_vars
      PROVE  [\A n \in Needs : status[n] \in Ended => status'[n] = status[n]]_vars
  <2>1. \A n \in Needs : Moves(n)
    BY <1>1, NextMoves DEF Inv
  <2>2. QED
    BY <1>1, <2>1 DEF Inv, PublishedByAsker, Moves, Active, Expired, Ended
<1>2. QED
  BY <1>1, InvHolds, PTL DEF Spec, EndedStays

(* Whoever lost its claim of a mandate (a paused peer, in particular)      *)
(* changes nothing when its work ends (fulfill_capability_need).           *)
THEOREM LateAnswersAreDropped == Spec => OnlyTheClaimantAnswers
<1>1. ASSUME Inv, [Next]_vars, NEW c \in Claims, NEW n \in Needs,
             job[c] = n, job'[c] # n, lock[n] # c
      PROVE  status'[n] = status[n]
  <2>1. job \in [Claims -> Needs \cup {NoNeed}]
    BY <1>1 DEF Inv, TypeOK
  <2>2. ASSUME NEW d \in Claims, Fulfil(d) PROVE status'[n] = status[n]
    <3>1. d = c
      BY <1>1, <2>1, <2>2 DEF Fulfil
    <3>2. QED
      BY <1>1, <2>2, <3>1 DEF Fulfil, Holds, mandates
  <2>3. ASSUME NEW d \in Claims, NEW k \in Needs, Claim(d, k) PROVE FALSE
    BY <1>1, <2>1, <2>3 DEF Claim, Fresh
  <2>4. ASSUME NEW a \in Agents, Crash(a) PROVE status'[n] = status[n]
    BY <2>4 DEF Crash, store, mandates
  <2>5. ASSUME job' = job PROVE FALSE
    BY <1>1, <2>5
  <2>6. QED
    BY <1>1, <2>2, <2>3, <2>4, <2>5
    DEF Next, Publish, Poll, TimeOut, GiveUp, Abandon, Scan, Look, PassBy, Renew,
        SweepLook, SweepRemove, Tick, Cancel, vars
<1>2. Inv /\ [Next]_vars =>
        [\A c \in Claims : \A n \in Needs :
           job[c] = n /\ job'[c] # n /\ lock[n] # c => status'[n] = status[n]]_vars
  BY <1>1
<1>3. QED
  BY <1>2, InvHolds, PTL DEF Spec, OnlyTheClaimantAnswers
=============================================================================
