--------------------------- MODULE CapabilityNeeds ---------------------------
(***************************************************************************)
(* The capability mandates of one workflow: a requester that lacks a       *)
(* capability publishes a mandate and polls it (p2p/peer_client.py), the   *)
(* dispatchers of its peers find, claim and answer it (core/mesh.py), all  *)
(* through records in the store (storage/redis_store.py).  The store's     *)
(* transactions are steps; the removal from the index after a mandate ends *)
(* is a read and a write of its own.                                       *)
(***************************************************************************)
EXTENDS Naturals

CONSTANTS
  Needs,       \* mandates that may be published
  Agents,
  Claims,      \* claim ids: an agent and a uuid
  NoClaim,
  NoNeed,
  Requester,   \* the agent that publishes each mandate
  Able,        \* the agents that own each mandate's capability
  AgentOf,     \* the agent a claim id names
  LeaseTicks,  \* how long a claim lives without renewal
  MaxCrashes

(* request_capability publishes only what its own agent lacks and a peer   *)
(* owns.                                                                   *)
ASSUME NeedsAssumption ==
  /\ NoClaim \notin Claims /\ NoNeed \notin Needs
  /\ Requester \in [Needs -> Agents]
  /\ Able \in [Needs -> SUBSET Agents]
  /\ \A n \in Needs : Able[n] # {} /\ Requester[n] \notin Able[n]
  /\ AgentOf \in [Claims -> Agents]
  /\ LeaseTicks \in Nat \ {0}
  /\ MaxCrashes \in Nat

VARIABLES
  status,    \* capability_needs: the status of each mandate
  claim,     \* its claim_id, or NoClaim
  lock,      \* capability_need_lock: the claim id that holds it, or NoClaim
  ttl,       \* time left before Redis drops the lock
  listed,    \* the workflow is in jarviscore:workflows_with_capability_needs
  cancelled, \* the tombstone workflow_cancelled exists
  asker,     \* how far request_capability is with each mandate
  visit,     \* how far each dispatcher is with each mandate
  job,       \* the mandate each claim is answering, or NoNeed
  sweep,     \* what each agent's loop does to the index
  crashes

mandates == <<status, claim, lock, ttl>>
store == <<mandates, listed, cancelled>>
vars == <<store, asker, visit, job, sweep, crashes>>

Ended == {"fulfilled", "failed", "cancelled"}
Statuses == {"absent", "open", "claimed"} \cup Ended

TypeOK ==
  /\ status \in [Needs -> Statuses]
  /\ claim \in [Needs -> Claims \cup {NoClaim}]
  /\ lock \in [Needs -> Claims \cup {NoClaim}]
  /\ ttl \in [Needs -> 0 .. LeaseTicks]
  /\ listed \in BOOLEAN
  /\ cancelled \in BOOLEAN
  /\ asker \in [Needs -> {"idle", "asking", "late", "result", "error", "gone"}]
  /\ visit \in [Agents -> [Needs -> {"rest", "checked", "open"}]]
  /\ job \in [Claims -> Needs \cup {NoNeed}]
  /\ sweep \in [Agents -> {"none", "look", "remove"}]
  /\ crashes \in 0 .. MaxCrashes

Init ==
  /\ status = [n \in Needs |-> "absent"]
  /\ claim = [n \in Needs |-> NoClaim]
  /\ lock = [n \in Needs |-> NoClaim]
  /\ ttl = [n \in Needs |-> 0]
  /\ listed = FALSE
  /\ cancelled = FALSE
  /\ asker = [n \in Needs |-> "idle"]
  /\ visit = [a \in Agents |-> [n \in Needs |-> "rest"]]
  /\ job = [c \in Claims |-> NoNeed]
  /\ sweep = [a \in Agents |-> "none"]
  /\ crashes = 0

Active(n) == status[n] \in {"open", "claimed"}

(* The store's client blocks: while an agent's loop is between the calls   *)
(* of one operation it does nothing else.  Scans run in a thread.          *)
LoopFree(a) == sweep[a] = "none"

(* A mandate ends: in its record, and its claim with it.                   *)
End(n, as) ==
  /\ status' = [status EXCEPT ![n] = as]
  /\ claim' = [claim EXCEPT ![n] = NoClaim]
  /\ lock' = [lock EXCEPT ![n] = NoClaim]
  /\ ttl' = [ttl EXCEPT ![n] = 0]

-----------------------------------------------------------------------------
(* The requester                                                           *)

Publish(n) ==
  /\ asker[n] = "idle" /\ LoopFree(Requester[n])
  /\ status' = [status EXCEPT ![n] = "open"]
  /\ listed' = TRUE
  /\ asker' = [asker EXCEPT ![n] = "asking"]
  /\ UNCHANGED <<claim, lock, ttl, cancelled, visit, job, sweep, crashes>>

(* A poll finds that the mandate has ended.                                *)
Poll(n) ==
  /\ asker[n] = "asking" /\ LoopFree(Requester[n]) /\ status[n] \in Ended
  /\ asker' = [asker EXCEPT
                 ![n] = IF status[n] = "fulfilled" THEN "result" ELSE "error"]
  /\ UNCHANGED <<store, visit, job, sweep, crashes>>

(* The deadline passes in the sleep after a poll.                          *)
TimeOut(n) ==
  /\ asker[n] = "asking" /\ LoopFree(Requester[n])
  /\ asker' = [asker EXCEPT ![n] = "late"]
  /\ UNCHANGED <<store, visit, job, sweep, crashes>>

MutantCanFail(n) == status[n] = "open"
CanFail(n) == Active(n)

(* fail_capability_need; the requester is told of its timeout whatever     *)
(* that returns.                                                           *)
GiveUp(n) ==
  /\ asker[n] = "late" /\ LoopFree(Requester[n])
  /\ asker' = [asker EXCEPT ![n] = "error"]
  /\ \/ /\ CanFail(n)
        /\ End(n, "failed")
        /\ sweep' = [sweep EXCEPT ![Requester[n]] = "look"]
     \/ ~ CanFail(n) /\ UNCHANGED <<mandates, sweep>>
  /\ UNCHANGED <<listed, cancelled, visit, job, crashes>>

(* The requester's task is cancelled while it sleeps.                      *)
Abandon(n) ==
  /\ asker[n] = "asking" /\ LoopFree(Requester[n])
  /\ asker' = [asker EXCEPT ![n] = "gone"]
  /\ UNCHANGED <<store, visit, job, sweep, crashes>>

-----------------------------------------------------------------------------
(* The peers                                                               *)

(* A scan reads the index, then the tombstone.                             *)
Scan(a, n) ==
  /\ visit[a][n] = "rest"
  /\ listed /\ ~ cancelled
  /\ visit' = [visit EXCEPT ![a][n] = "checked"]
  /\ UNCHANGED <<store, asker, job, sweep, crashes>>

MutantExpired(n) == status[n] = "claimed"
Expired(n) == status[n] = "claimed" /\ lock[n] = NoClaim

(* Then the mandates: an expired claim is recovered, which reopens it.     *)
Look(a, n) ==
  /\ visit[a][n] = "checked"
  /\ visit' = [visit EXCEPT
       ![a][n] = IF status[n] = "open" \/ Expired(n) THEN "open" ELSE "rest"]
  /\ IF Expired(n)
     THEN /\ status' = [status EXCEPT ![n] = "open"]
          /\ claim' = [claim EXCEPT ![n] = NoClaim]
     ELSE UNCHANGED <<status, claim>>
  /\ UNCHANGED <<lock, ttl, listed, cancelled, asker, job, sweep, crashes>>

Claimable(a, n) ==
  /\ lock[n] = NoClaim /\ status[n] = "open"
  /\ a \in Able[n] /\ a # Requester[n]

(* A uuid nobody has seen.                                                 *)
Fresh(c) == job[c] = NoNeed /\ \A n \in Needs : c \notin {lock[n], claim[n]}

Claim(c, n) ==
  LET a == AgentOf[c] IN
  /\ visit[a][n] = "open" /\ LoopFree(a)
  /\ Claimable(a, n) /\ Fresh(c)
  /\ visit' = [visit EXCEPT ![a][n] = "rest"]
  /\ status' = [status EXCEPT ![n] = "claimed"]
  /\ claim' = [claim EXCEPT ![n] = c]
  /\ lock' = [lock EXCEPT ![n] = c]
  /\ ttl' = [ttl EXCEPT ![n] = LeaseTicks]
  /\ job' = [job EXCEPT ![c] = n]
  /\ UNCHANGED <<listed, cancelled, asker, sweep, crashes>>

(* The claim fails, or the pool has no member left for it.                 *)
PassBy(a, n) ==
  /\ visit[a][n] = "open" /\ LoopFree(a)
  /\ visit' = [visit EXCEPT ![a][n] = "rest"]
  /\ UNCHANGED <<store, asker, job, sweep, crashes>>

MutantHolds(c, n) == status[n] = "claimed"
Holds(c, n) == lock[n] = c /\ status[n] = "claimed" /\ claim[n] = c

Renew(c) ==
  /\ job[c] \in Needs /\ LoopFree(AgentOf[c])
  /\ ~ cancelled /\ Holds(c, job[c])
  /\ ttl' = [ttl EXCEPT ![job[c]] = LeaseTicks]
  /\ UNCHANGED <<status, claim, lock, listed, cancelled, asker, visit, job, sweep,
                 crashes>>

(* The peer's work ends, well or badly, and is recorded if its claim still *)
(* holds.  The tombstone is not looked at.                                 *)
Fulfil(c) ==
  LET a == AgentOf[c] n == job[c] IN
  /\ n \in Needs /\ LoopFree(a)
  /\ job' = [job EXCEPT ![c] = NoNeed]
  /\ \/ /\ Holds(c, n)
        /\ End(n, "fulfilled") \/ End(n, "failed")
        /\ sweep' = [sweep EXCEPT ![a] = "look"]
     \/ ~ Holds(c, n) /\ UNCHANGED <<mandates, sweep>>
  /\ UNCHANGED <<listed, cancelled, asker, visit, crashes>>

-----------------------------------------------------------------------------
(* The index, time, cancellation and crashes                               *)

(* Whoever ended a mandate looks whether others are active, ...            *)
SweepLook(a) ==
  /\ sweep[a] = "look"
  /\ sweep' = [sweep EXCEPT
       ![a] = IF \E n \in Needs : Active(n) THEN "none" ELSE "remove"]
  /\ UNCHANGED <<store, asker, visit, job, crashes>>

(* ... and if not takes the workflow off the index.                        *)
SweepRemove(a) ==
  /\ sweep[a] = "remove"
  /\ sweep' = [sweep EXCEPT ![a] = "none"]
  /\ listed' = FALSE
  /\ UNCHANGED <<mandates, cancelled, asker, visit, job, crashes>>

Tick ==
  /\ \E n \in Needs : ttl[n] > 0
  /\ ttl' = [n \in Needs |-> IF ttl[n] = 0 THEN 0 ELSE ttl[n] - 1]
  /\ lock' = [n \in Needs |-> IF ttl[n] <= 1 THEN NoClaim ELSE lock[n]]
  /\ UNCHANGED <<status, claim, listed, cancelled, asker, visit, job, sweep, crashes>>

Cancellable(n) == Active(n)

(* The mandates' part of cancel_workflow.                                  *)
Cancel ==
  /\ ~ cancelled
  /\ cancelled' = TRUE
  /\ listed' = FALSE
  /\ status' = [n \in Needs |-> IF Cancellable(n) THEN "cancelled" ELSE status[n]]
  /\ claim' = [n \in Needs |-> IF Cancellable(n) THEN NoClaim ELSE claim[n]]
  /\ lock' = [n \in Needs |-> NoClaim]
  /\ ttl' = [n \in Needs |-> 0]
  /\ UNCHANGED <<asker, visit, job, sweep, crashes>>

(* The process of an agent dies, with its requests, scans and work.        *)
Crash(a) ==
  /\ crashes < MaxCrashes
  /\ crashes' = crashes + 1
  /\ asker' = [n \in Needs |->
       IF Requester[n] = a /\ asker[n] \in {"asking", "late"} THEN "gone" ELSE asker[n]]
  /\ visit' = [visit EXCEPT ![a] = [n \in Needs |-> "rest"]]
  /\ job' = [c \in Claims |-> IF AgentOf[c] = a THEN NoNeed ELSE job[c]]
  /\ sweep' = [sweep EXCEPT ![a] = "none"]
  /\ UNCHANGED store

Next ==
  \/ \E n \in Needs :
       \/ Publish(n) \/ Poll(n) \/ TimeOut(n) \/ GiveUp(n) \/ Abandon(n)
       \/ \E a \in Agents : Scan(a, n) \/ Look(a, n) \/ PassBy(a, n)
       \/ \E c \in Claims : Claim(c, n)
  \/ \E c \in Claims : Renew(c) \/ Fulfil(c)
  \/ \E a \in Agents : SweepLook(a) \/ SweepRemove(a) \/ Crash(a)
  \/ Tick
  \/ Cancel

Spec == Init /\ [][Next]_vars

-----------------------------------------------------------------------------
(* Properties                                                              *)

(* While a claim's lock exists the mandate is claimed by it, so that the   *)
(* lock fences what the claimant writes: not when a claim runs out and     *)
(* another takes over, nor after a timeout or a cancellation.              *)
LockFences ==
  \A n \in Needs : lock[n] # NoClaim => status[n] = "claimed" /\ claim[n] = lock[n]

(* A peer that paused past its lease, or whose mandate was cancelled or    *)
(* timed out meanwhile, records nothing when it wakes.                     *)
OnlyTheClaimantAnswers ==
  [][\A c \in Claims : \A n \in Needs :
       job[c] = n /\ job'[c] # n /\ lock[n] # c => status'[n] = status[n]]_vars

(* A mandate that ended stays as it ended: neither a late answer, nor a    *)
(* recovery, nor a cancellation changes what its requester was told.       *)
EndedStays ==
  [][\A n \in Needs : status[n] \in Ended => status'[n] = status[n]]_vars

(* A requester that goes on leaves no work behind: what it was given is    *)
(* recorded, and a mandate it gave up is nobody's.                         *)
RequestersLeaveNothing ==
  \A n \in Needs :
    /\ asker[n] = "result" => status[n] = "fulfilled"
    /\ asker[n] = "error" => status[n] \in Ended /\ lock[n] = NoClaim
=============================================================================
