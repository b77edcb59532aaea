--------------------------- MODULE AgentPoolProofs ---------------------------
(* Proofs about AgentPool for any number of members, chains and nested     *)
(* leases: what counts the members, what hands them over.                  *)
EXTENDS AgentPool, FiniteSetTheorems, SequenceTheorems, TLAPS

USE PoolAssumption

-----------------------------------------------------------------------------
(* The inductive invariant                                                 *)

(* Chains and the dispatcher's chain whose new member is being set up.     *)
SettingUp == {t \in Chains : chain[t] \in {"growing", "dispatched"}}

Counting ==
  /\ IsFiniteSet(members)
  /\ IsFiniteSet(SettingUp)
  /\ growing = Cardinality(SettingUp)

(* Chains in the queue wait, once each.                                    *)
QueueWaits ==
  /\ \A i \in DOMAIN waiters : chain[waiters[i]] = "waiting"
  /\ \A i, j \in DOMAIN waiters : waiters[i] = waiters[j] => i = j

(* A resolved future is one that was not received yet.                     *)
GivenWhenResolved ==
  \A t \in Chains : chain[t] = "given" <=> given[t] # NoMember

Inv ==
  /\ TypeOK
  /\ Counting
  /\ QueueWaits
  /\ GivenWhenResolved
  /\ OneWorkPerMember
  /\ NoMemberIsLost
  /\ NobodyWaitsForIdle

DispatcherType ==
  /\ dispatcher \in {"scan", "warming", "acquiring", "retiring"}
  /\ retiring \subseteq Members

LEMMA InitInv == Init => Inv
<1> SUFFICES ASSUME Init PROVE Inv
  OBVIOUS
<1>1. waiters = << >> /\ waiters \in Seq(Chains)
  BY DEF Init
<1>2. TypeOK
  BY <1>1 DEF Init, TypeOK, ChainStates
<1>3. Counting
  <2>1. SettingUp = {}
    BY DEF Init, SettingUp
  <2>2. QED
    BY <2>1, FS_EmptySet, FS_Singleton DEF Init, Counting
<1>4. QueueWaits /\ NobodyWaitsForIdle
  BY <1>1 DEF QueueWaits, NobodyWaitsForIdle
<1>5. GivenWhenResolved /\ OneWorkPerMember
  BY DEF Init, GivenWhenResolved, OneWorkPerMember, Taken
<1>6. NoMemberIsLost
  BY DEF Init, NoMemberIsLost
<1>7. QED
  BY <1>2, <1>3, <1>4, <1>5, <1>6 DEF Inv

-----------------------------------------------------------------------------
(* Members being set up are counted                                        *)

(* A chain that begins to wait for its new member, or no longer does.      *)
LEMMA CountOneMore ==
  ASSUME Inv, NEW t \in Chains, t \notin SettingUp, growing' = growing + 1,
         members' = members, SettingUp' = SettingUp \cup {t}
  PROVE  Counting'
BY FS_AddElement DEF Inv, Counting

LEMMA CountOneLess ==
  ASSUME Inv, NEW t \in Chains, t \in SettingUp, growing' = growing - 1,
         IsFiniteSet(members'), SettingUp' = SettingUp \ {t}
  PROVE  Counting'
BY FS_RemoveElement DEF Inv, Counting

(* Whoever is given a member, or stops or starts to wait, sets none up.    *)
LEMMA CountTheSame ==
  ASSUME Inv, growing' = growing, IsFiniteSet(members'), SettingUp' = SettingUp
  PROVE  Counting'
BY DEF Inv, Counting

LEMMA FiniteMembers ==
  ASSUME Inv, NEW m
  PROVE  IsFiniteSet(members) /\ IsFiniteSet(members \cup {m})
         /\ IsFiniteSet(members \ {m})
BY FS_AddElement, FS_RemoveElement DEF Inv, Counting

-----------------------------------------------------------------------------
(* A member handed over                                                    *)

TakenBy(h, gifts, t) == h[t] \cup ({gifts[t]} \ {NoMember})

(* Every member that is not idle is at some chain.                         *)
LEMMA SomebodyHasIt ==
  TypeOK => (NoMemberIsLost <=>
               \A m \in members \ idle : \E t \in Chains : m \in Taken(t))
<1> SUFFICES ASSUME TypeOK
             PROVE  \A m \in members :
                      m \in InUse <=> \E t \in Chains : m \in Taken(t)
  BY DEF NoMemberIsLost
<1>1. \A m \in members : m # NoMember
  BY DEF TypeOK
<1>2. QED
  BY <1>1 DEF InUse, Taken

(* m is nobody's and not idle; h, chains and gifts, for held, chain and    *)
(* given, are in order.                                                    *)
Loose(m, h, chains, gifts) ==
  /\ m \in Members \ idle
  /\ h \in [Chains -> SUBSET Members]
  /\ chains \in [Chains -> ChainStates]
  /\ gifts \in [Chains -> Members \cup {NoMember}]
  /\ \A i \in DOMAIN waiters : chains[waiters[i]] = "waiting"
  /\ \A t \in Chains :
       /\ chains[t] = "given" <=> gifts[t] # NoMember
       /\ m \notin TakenBy(h, gifts, t)
       /\ TakenBy(h, gifts, t) \cap idle = {} /\ gifts[t] \notin h[t]
  /\ \A t, u \in Chains :
       t # u => TakenBy(h, gifts, t) \cap TakenBy(h, gifts, u) = {}

(* The outcome of a release: the member is idle, or the oldest waiter's.   *)
HandedOver(m, chains, gifts) ==
  \/ /\ waiters = << >> /\ waiters' = << >>
     /\ idle' = idle \cup {m} /\ chain' = chains /\ given' = gifts
  \/ /\ waiters # << >> /\ idle' = idle
     /\ \E u \in Chains :
          /\ chains[u] = "waiting" /\ gifts[u] = NoMember
          /\ chain' = [chains EXCEPT ![u] = "given"]
          /\ given' = [gifts EXCEPT ![u] = m]

LEMMA OfferHandsOver ==
  ASSUME Inv, NEW m, NEW h, NEW chains, NEW gifts,
         Loose(m, h, chains, gifts), Offer(m, chains, gifts)
  PROVE  /\ HandedOver(m, chains, gifts)
         /\ waiters' \in Seq(Chains)
         /\ QueueWaits'
<1>1. CASE waiters = << >>
  BY <1>1 DEF Offer, HandedOver, QueueWaits, Inv, TypeOK
<1>2. CASE waiters # << >>
  <2> DEFINE u == Head(waiters)
  <2>1. waiters \in Seq(Chains)
    BY DEF Inv, TypeOK
  <2>2. /\ u \in Chains /\ u = waiters[1] /\ 1 \in DOMAIN waiters
        /\ Tail(waiters) \in Seq(Chains)
        /\ Len(Tail(waiters)) = Len(waiters) - 1
        /\ \A i \in 1 .. Len(Tail(waiters)) : Tail(waiters)[i] = waiters[i + 1]
    BY <1>2, <2>1, HeadTailProperties
  <2>3. /\ waiters' = Tail(waiters) /\ idle' = idle
        /\ chain' = [chains EXCEPT ![u] = "given"]
        /\ given' = [gifts EXCEPT ![u] = m]
    BY <1>2 DEF Offer
  <2>4. chains[u] = "waiting" /\ gifts[u] = NoMember
    BY <2>2 DEF Loose
  <2>5. HandedOver(m, chains, gifts)
    BY <1>2, <2>2, <2>3, <2>4 DEF HandedOver
  <2>6. ASSUME NEW i \in DOMAIN waiters'
        PROVE  i + 1 \in DOMAIN waiters /\ waiters'[i] = waiters[i + 1] /\ i \in Nat
    BY <2>1, <2>2, <2>3
  <2>7. ASSUME NEW i \in DOMAIN waiters' PROVE chain'[waiters'[i]] = "waiting"
    <3>1. waiters[i + 1] # u
      BY <2>2, <2>6 DEF Inv, QueueWaits
    <3>2. chains[waiters[i + 1]] = "waiting"
      BY <2>6 DEF Loose
    <3>3. waiters[i + 1] \in Chains
      BY <2>1, <2>6
    <3>4. QED
      BY <2>3, <2>6, <3>1, <3>2, <3>3 DEF Loose
  <2>8. ASSUME NEW i \in DOMAIN waiters', NEW j \in DOMAIN waiters',
               waiters'[i] = waiters'[j]
        PROVE  i = j
    <3>1. i + 1 = j + 1
      BY <2>6, <2>8 DEF Inv, QueueWaits
    <3>2. i \in Nat /\ j \in Nat
      BY <2>6
    <3>3. QED
      BY <3>1, <3>2
  <2>9. QED
    BY <2>2, <2>3, <2>5, <2>7, <2>8 DEF QueueWaits
<1>3. QED
  BY <1>1, <1>2

(* A waiter that is given a member sets none up.                           *)
LEMMA OfferCounts ==
  ASSUME Inv, NEW m, NEW h, NEW chains, NEW gifts,
         Loose(m, h, chains, gifts),
         HandedOver(m, chains, gifts) \/ chain' = chains,
         {t \in Chains : chains[t] \in {"growing", "dispatched"}} = SettingUp,
         growing' = growing, IsFiniteSet(members')
  PROVE  Counting'
<1>1. SettingUp' = {t \in Chains : chains[t] \in {"growing", "dispatched"}}
  BY DEF SettingUp, HandedOver, Loose
<1>2. QED
  BY <1>1, CountTheSame

(* Handing over a loose member restores the invariant.                     *)
LEMMA OfferStep ==
  ASSUME Inv, NEW m, NEW h, NEW chains, NEW gifts,
         Loose(m, h, chains, gifts), Offer(m, chains, gifts),
         held' = h, members' \in SUBSET Members, m \in members', idle \subseteq members',
         \A k \in members' \ (idle \cup {m}) :
           \E t \in Chains : k \in TakenBy(h, gifts, t),
         {t \in Chains : chains[t] \in {"growing", "dispatched"}} = SettingUp,
         growing' = growing, IsFiniteSet(members'), DispatcherType'
  PROVE  Inv'
<1>h. HandedOver(m, chains, gifts)
  BY OfferHandsOver
<1>w. waiters' \in Seq(Chains) /\ QueueWaits'
  BY OfferHandsOver
<1>c. Counting'
  BY <1>h, OfferCounts
<1>1. /\ chain' \in [Chains -> ChainStates]
      /\ given' \in [Chains -> Members \cup {NoMember}]
      /\ \A t \in Chains : 
           given'[t] = gifts[t] \/ (gifts[t] = NoMember /\ given'[t] = m)
  BY <1>h DEF HandedOver, Loose, ChainStates
<1>2. /\ idle' \subseteq members'
      /\ \/ idle' = idle
         \/ idle' = idle \cup {m} /\ given' = gifts
  BY <1>h DEF HandedOver, Inv, TypeOK
<1>3. TypeOK'
  <2>1. growing' \in Nat
    BY <1>c, FS_CardinalityType DEF Counting
  <2>2. held' \in [Chains -> SUBSET Members]
    BY DEF Loose
  <2>3. QED
    BY <1>w, <1>1, <1>2, <2>1, <2>2 DEF TypeOK, DispatcherType
<1>4. GivenWhenResolved'
  BY <1>h DEF HandedOver, Loose, GivenWhenResolved
<1>5. \A t, u \in Chains :
        given'[t] # gifts[t] /\ given'[u] # gifts[u] => t = u
  BY <1>h DEF HandedOver, Loose
<1>6. \A t \in Chains :
        \/ Taken(t)' = TakenBy(h, gifts, t)
        \/ /\ Taken(t)' = TakenBy(h, gifts, t) \cup {m}
           /\ given'[t] # gifts[t]
  BY <1>1 DEF Taken, TakenBy, Loose
<1>7. OneWorkPerMember'
  <2>1. ASSUME NEW t \in Chains, NEW u \in Chains, t # u
        PROVE  Taken(t)' \cap Taken(u)' = {}
    BY <1>5, <1>6, <2>1 DEF Loose
  <2>2. ASSUME NEW t \in Chains
        PROVE  Taken(t)' \cap idle' = {} /\ given'[t] \notin held'[t]
    BY <1>1, <1>2, <1>6 DEF Loose, TakenBy
  <2>3. QED
    BY <2>1, <2>2 DEF OneWorkPerMember
<1>8. NoMemberIsLost'
  <2>1. ASSUME NEW k \in members' \ idle'
        PROVE  \E t \in Chains : k \in Taken(t)'
    <3>1. CASE k = m
      BY <1>h, <2>1, <3>1 DEF HandedOver, Loose, Taken
    <3>2. CASE k # m
      BY <1>2, <1>6, <2>1, <3>2
    <3>3. QED
      BY <3>1, <3>2
  <2>2. QED
    BY <2>1 DEF NoMemberIsLost, InUse, Taken
<1>9. NobodyWaitsForIdle'
  BY <1>h DEF HandedOver, Inv, NobodyWaitsForIdle
<1>10. QED
  BY <1>c, <1>w, <1>3, <1>4, <1>7, <1>8, <1>9 DEF Inv

(* The same for a member that may have been retired while it was at work.  *)
LEMMA GiveBackStep ==
  ASSUME Inv, NEW m, NEW h, NEW chains, NEW gifts,
         Loose(m, h, chains, gifts), GiveBack(m, chains, gifts),
         held' = h, members' = members, growing' = growing,
         \A k \in members \ (idle \cup {m}) :
           \E t \in Chains : k \in TakenBy(h, gifts, t),
         {t \in Chains : chains[t] \in {"growing", "dispatched"}} = SettingUp,
         DispatcherType'
  PROVE  Inv'
<1>1. IsFiniteSet(members)
  BY DEF Inv, Counting
<1>2. CASE m \in members
  <2>1. Offer(m, chains, gifts)
    BY <1>2 DEF GiveBack, Loose
  <2>2. idle \subseteq members /\ members \in SUBSET Members
    BY DEF Inv, TypeOK
  <2>3. QED
    BY <1>1, <1>2, <2>1, <2>2, OfferStep
<1>3. CASE m \notin members
  <2>1. /\ chain' = chains /\ given' = gifts
        /\ idle' = idle /\ waiters' = waiters
    BY <1>3 DEF GiveBack
  <2>2. Counting'
    BY <1>1, <2>1, OfferCounts
  <2>3. growing' \in Nat
    BY DEF Inv, TypeOK
  <2>4. TypeOK'
    BY <2>1, <2>3 DEF Inv, TypeOK, DispatcherType, Loose
  <2>5. QueueWaits' /\ GivenWhenResolved' /\ NobodyWaitsForIdle'
    BY <2>1 DEF Inv, QueueWaits, GivenWhenResolved, NobodyWaitsForIdle, Loose
  <2>6. OneWorkPerMember'
    BY <2>1 DEF OneWorkPerMember, Taken, TakenBy, Loose
  <2>7. NoMemberIsLost'
    BY <1>3, <2>1 DEF NoMemberIsLost, InUse, TakenBy
  <2>8. QED
    BY <2>2, <2>4, <2>5, <2>6, <2>7 DEF Inv
<1>4. QED
  BY <1>2, <1>3

-----------------------------------------------------------------------------
(* The actions                                                             *)

LEMMA TakeIdleStep ==
  ASSUME Inv, NEW t \in Chains, chain[t] = "running",
         NEW as \in {"running", "lost"}, TakeIdle(t, as), DispatcherType'
  PROVE  Inv'
<1>1. PICK m \in idle : /\ idle' = idle \ {m}
                        /\ held' = [held EXCEPT ![t] = @ \cup {m}]
  BY DEF TakeIdle
<1>2. /\ members' = members /\ growing' = growing /\ waiters' = waiters
      /\ chain' = [chain EXCEPT ![t] = as] /\ given' = given
  BY DEF TakeIdle
<1>3. m \in Members /\ m # NoMember
  BY DEF Inv, TypeOK
<1>4. TypeOK'
  BY <1>1, <1>2, <1>3 DEF Inv, TypeOK, DispatcherType, ChainStates
<1>5. Counting'
  <2>1. SettingUp' = SettingUp
    BY <1>2 DEF SettingUp, Inv, TypeOK
  <2>2. QED
    BY <1>2, <2>1, CountTheSame DEF Inv, Counting
<1>6. QueueWaits' /\ GivenWhenResolved' /\ NobodyWaitsForIdle'
  <2>1. chain[t] # "waiting" /\ chain'[t] = as /\ \A u \in Chains \ {t} : chain'[u] = chain[u]
    BY <1>2 DEF Inv, TypeOK
  <2>2. \A i \in DOMAIN waiters : waiters[i] \in Chains
    BY DEF Inv, TypeOK
  <2>3. QueueWaits'
    BY <1>2, <2>1, <2>2 DEF Inv, QueueWaits
  <2>4. GivenWhenResolved'
    BY <1>2, <2>1 DEF Inv, GivenWhenResolved
  <2>5. NobodyWaitsForIdle'
    BY <1>1, <1>2 DEF Inv, NobodyWaitsForIdle
  <2>6. QED
    BY <2>3, <2>4, <2>5
<1>7. \A u \in Chains : Taken(u)' = IF u = t THEN Taken(u) \cup {m} ELSE Taken(u)
  BY <1>1, <1>2 DEF Inv, TypeOK, Taken
<1>8. \A u \in Chains : m \notin Taken(u)
  BY DEF Inv, OneWorkPerMember
<1>9. OneWorkPerMember'
  <2>1. \A u \in Chains : given[u] # m
    BY <1>3, <1>8 DEF Taken
  <2>2. \A u \in Chains : given'[u] \notin held'[u]
    BY <1>1, <1>2, <2>1 DEF Inv, TypeOK, OneWorkPerMember
  <2>3. QED
    BY <1>1, <1>7, <1>8, <2>2 DEF Inv, OneWorkPerMember
<1>10. NoMemberIsLost'
  BY <1>1, <1>2 DEF Inv, TypeOK, NoMemberIsLost, InUse
<1>11. QED
  BY <1>4, <1>5, <1>6, <1>9, <1>10 DEF Inv

(* What no change of held, idle and given can disturb.                     *)
LEMMA SameHands ==
  ASSUME Inv, held' = held, idle' = idle, given' = given, members' = members
  PROVE  OneWorkPerMember' /\ NoMemberIsLost'
BY DEF Inv, OneWorkPerMember, NoMemberIsLost, InUse, Taken

LEMMA StartGrowingStep ==
  ASSUME Inv, NEW t \in Chains, NEW as \in {"growing", "dispatched"},
         chain[t] = "running", StartGrowing(t, as), DispatcherType'
  PROVE  Inv'
<1>1. /\ growing' = growing + 1 /\ chain' = [chain EXCEPT ![t] = as]
      /\ members' = members /\ idle' = idle /\ waiters' = waiters
      /\ held' = held /\ given' = given
  BY DEF StartGrowing
<1>2. TypeOK'
  <2>1. chain' \in [Chains -> ChainStates]
    BY <1>1 DEF Inv, TypeOK, ChainStates
  <2>2. growing' \in Nat
    BY <1>1 DEF Inv, TypeOK
  <2>3. QED
    BY <1>1, <2>1, <2>2 DEF Inv, TypeOK, DispatcherType
<1>3. Counting'
  <2>1. t \notin SettingUp /\ SettingUp' = SettingUp \cup {t}
    BY <1>1 DEF SettingUp, Inv, TypeOK
  <2>2. QED
    BY <1>1, <2>1, CountOneMore
<1>4. QueueWaits' /\ GivenWhenResolved' /\ NobodyWaitsForIdle'
  <2>1. QueueWaits'
    <3>1. \A i \in DOMAIN waiters : waiters[i] \in Chains /\ waiters[i] # t
      BY DEF Inv, TypeOK, QueueWaits
    <3>2. QED
      BY <1>1, <3>1 DEF Inv, TypeOK, QueueWaits
  <2>2. GivenWhenResolved' /\ NobodyWaitsForIdle'
    BY <1>1 DEF Inv, TypeOK, GivenWhenResolved, NobodyWaitsForIdle
  <2>3. QED
    BY <2>1, <2>2
<1>5. OneWorkPerMember' /\ NoMemberIsLost'
  BY <1>1, SameHands
<1>6. QED
  BY <1>2, <1>3, <1>4, <1>5 DEF Inv

LEMMA WaitStep ==
  ASSUME Inv, NEW t \in Chains, chain[t] = "running", Wait(t), DispatcherType'
  PROVE  Inv'
<1>1. /\ idle = {} /\ waiters' = Append(waiters, t)
      /\ chain' = [chain EXCEPT ![t] = "waiting"]
      /\ members' = members /\ idle' = idle /\ growing' = growing
      /\ held' = held /\ given' = given
  BY DEF Wait
<1>2. waiters \in Seq(Chains)
  BY DEF Inv, TypeOK
<1>3. /\ waiters' \in Seq(Chains) /\ Len(waiters') = Len(waiters) + 1
      /\ \A i \in 1 .. Len(waiters) : waiters'[i] = waiters[i]
      /\ waiters'[Len(waiters) + 1] = t
  BY <1>1, <1>2, AppendProperties
<1>4. TypeOK'
  BY <1>1, <1>3 DEF Inv, TypeOK, DispatcherType, ChainStates
<1>5. Counting'
  <2>1. SettingUp' = SettingUp
    BY <1>1 DEF SettingUp, Inv, TypeOK
  <2>2. QED
    BY <1>1, <2>1, CountTheSame DEF Inv, Counting
<1>6. QueueWaits'
  <2>1. \A i \in DOMAIN waiters' :
          \/ i \in DOMAIN waiters /\ waiters'[i] = waiters[i]
          \/ i = Len(waiters) + 1 /\ waiters'[i] = t
    BY <1>2, <1>3
  <2>2. \A i \in DOMAIN waiters : waiters[i] # t /\ waiters[i] \in Chains
    BY <1>2 DEF Inv, QueueWaits
  <2>3. \A i \in DOMAIN waiters : chain'[waiters[i]] = "waiting"
    BY <1>1, <2>2 DEF Inv, TypeOK, QueueWaits
  <2>4. chain'[t] = "waiting"
    BY <1>1 DEF Inv, TypeOK
  <2>5. QED
    BY <2>1, <2>2, <2>3, <2>4 DEF Inv, QueueWaits
<1>7. GivenWhenResolved' /\ NobodyWaitsForIdle'
  BY <1>1 DEF Inv, TypeOK, GivenWhenResolved, NobodyWaitsForIdle
<1>8. OneWorkPerMember' /\ NoMemberIsLost'
  BY <1>1, SameHands
<1>9. QED
  BY <1>4, <1>5, <1>6, <1>7, <1>8 DEF Inv

LEMMA GrownStep ==
  ASSUME Inv, NEW t \in Chains, Grown(t), DispatcherType'
  PROVE  Inv'
<1>0. PICK as \in {"running", "lost"} : chain' = [chain EXCEPT ![t] = as]
  BY DEF Grown, Begins
<1>1. /\ t \in SettingUp
      /\ growing' = growing - 1 /\ chain' = [chain EXCEPT ![t] = as]
      /\ idle' = idle /\ waiters' = waiters /\ given' = given
  BY <1>0 DEF Grown, SettingUp
<1>2. \/ members' = members /\ held' = held
      \/ \E m \in Fresh : /\ members' = members \cup {m}
                          /\ held' = [held EXCEPT ![t] = @ \cup {m}]
  BY DEF Grown
<1>3. Counting'
  <2>1. SettingUp' = SettingUp \ {t}
    BY <1>1 DEF SettingUp, Inv, TypeOK
  <2>2. IsFiniteSet(members')
    BY <1>2, FiniteMembers
  <2>3. QED
    BY <1>1, <2>1, <2>2, CountOneLess
<1>4. TypeOK'
  <2>1. growing' \in Nat
    BY <1>3, FS_CardinalityType DEF Counting
  <2>2. /\ members' \in SUBSET Members /\ members \subseteq members'
        /\ held' \in [Chains -> SUBSET Members]
    BY <1>2 DEF Inv, TypeOK, Fresh
  <2>3. QED
    BY <1>1, <2>1, <2>2 DEF Inv, TypeOK, DispatcherType, ChainStates
<1>5. QueueWaits' /\ GivenWhenResolved' /\ NobodyWaitsForIdle'
  <2>1. chain[t] # "waiting" /\ chain[t] # "given"
    BY <1>1 DEF SettingUp
  <2>2. QueueWaits'
    <3>1. \A u \in Chains \ {t} : chain'[u] = chain[u]
      BY <1>1 DEF Inv, TypeOK
    <3>2. \A i \in DOMAIN waiters : waiters[i] \in Chains \ {t}
      BY <2>1 DEF Inv, TypeOK, QueueWaits
    <3>3. QED
      BY <1>1, <3>1, <3>2 DEF Inv, QueueWaits
  <2>3. GivenWhenResolved' /\ NobodyWaitsForIdle'
    BY <1>1, <2>1 DEF Inv, TypeOK, GivenWhenResolved, NobodyWaitsForIdle
  <2>4. QED
    BY <2>2, <2>3
<1>6. OneWorkPerMember' /\ NoMemberIsLost'
  <2>1. CASE members' = members /\ held' = held
    BY <1>1, <2>1, SameHands
  <2>2. ASSUME NEW m \in Fresh, members' = members \cup {m},
               held' = [held EXCEPT ![t] = @ \cup {m}]
        PROVE  OneWorkPerMember' /\ NoMemberIsLost'
    <3>1. /\ m \in Members /\ m # NoMember /\ m \notin idle
          /\ \A u \in Chains : m \notin held[u] /\ given[u] # m
      BY DEF Fresh, InUse, Inv, TypeOK
    <3>2. \A u \in Chains :
            Taken(u)' = IF u = t THEN Taken(u) \cup {m} ELSE Taken(u)
      BY <1>1, <2>2 DEF Inv, TypeOK, Taken
    <3>3. \A u \in Chains : m \notin Taken(u)
      BY <3>1 DEF Taken
    <3>4. \A u \in Chains : given'[u] \notin held'[u]
      BY <1>1, <2>2, <3>1 DEF Inv, TypeOK, OneWorkPerMember
    <3>5. OneWorkPerMember'
      BY <1>1, <3>1, <3>2, <3>3, <3>4 DEF Inv, OneWorkPerMember
    <3>6. NoMemberIsLost'
      BY <1>1, <2>2 DEF Inv, TypeOK, NoMemberIsLost, InUse
    <3>7. QED
      BY <3>5, <3>6
  <2>3. QED
    BY <1>2, <2>1, <2>2
<1>7. QED
  BY <1>3, <1>4, <1>5, <1>6 DEF Inv

LEMMA ReleaseStep ==
  ASSUME Inv, NEW t \in Chains, Release(t)
  PROVE  Inv'
<1>1. PICK m \in held[t] : /\ held' = [held EXCEPT ![t] = @ \ {m}]
                           /\ GiveBack(m, chain, given)
  BY DEF Release
<1> DEFINE h == [held EXCEPT ![t] = @ \ {m}]
<1>2. /\ h \in [Chains -> SUBSET Members]
      /\ \A u \in Chains :
           /\ TakenBy(h, given, u) = IF u = t THEN Taken(u) \ {m} ELSE Taken(u)
           /\ given[u] \notin h[u]
  BY DEF Inv, TypeOK, OneWorkPerMember, Taken, TakenBy
<1>3. held' = h
  BY <1>1
<1> HIDE DEF h
<1>4. m \in Taken(t) /\ m \in Members
  BY DEF Taken, Inv, TypeOK
<1>5. m \notin idle /\ \A u \in Chains : u # t => m \notin Taken(u)
  BY <1>4 DEF Inv, OneWorkPerMember
<1>6. \A u \in Chains : /\ TakenBy(h, given, u) \subseteq Taken(u)
                        /\ m \notin TakenBy(h, given, u)
  BY <1>2, <1>5
<1>7. Loose(m, h, chain, given)
  <2>1. /\ \A u \in Chains : TakenBy(h, given, u) \cap idle = {}
        /\ \A u, v \in Chains :
             u # v => TakenBy(h, given, u) \cap TakenBy(h, given, v) = {}
    BY <1>6 DEF Inv, OneWorkPerMember
  <2>2. QED
    BY <1>2, <1>4, <1>5, <1>6, <2>1
    DEF Loose, Inv, TypeOK, QueueWaits, GivenWhenResolved
<1>8. ASSUME NEW k \in members \ (idle \cup {m})
      PROVE  \E u \in Chains : k \in TakenBy(h, given, u)
  <2>1. PICK u \in Chains : k \in Taken(u)
    BY SomebodyHasIt DEF Inv
  <2>2. QED
    BY <1>2, <1>8, <2>1
<1>9. {u \in Chains : chain[u] \in {"growing", "dispatched"}} = SettingUp
  BY DEF SettingUp
<1>10. members' = members /\ growing' = growing /\ DispatcherType'
  BY DEF Release, Inv, TypeOK, DispatcherType
<1>11. QED
  BY <1>1, <1>3, <1>7, <1>8, <1>9, <1>10, GiveBackStep

LEMMA CancelGivenStep ==
  ASSUME Inv, NEW t \in Chains, CancelGiven(t)
  PROVE  Inv'
<1> DEFINE m == given[t]
           chains == [chain EXCEPT ![t] = "running"]
           gifts == [given EXCEPT ![t] = NoMember]
<1>1. m \in Members
  BY DEF CancelGiven, Inv, TypeOK, GivenWhenResolved
<1>2. /\ chains \in [Chains -> ChainStates]
      /\ gifts \in [Chains -> Members \cup {NoMember}]
      /\ \A u \in Chains :
           /\ TakenBy(held, gifts, u) = IF u = t THEN Taken(u) \ {m} ELSE Taken(u)
           /\ gifts[u] \notin held[u]
           /\ chains[u] = "given" <=> gifts[u] # NoMember
  BY <1>1 DEF Inv, TypeOK, OneWorkPerMember, Taken, TakenBy, ChainStates,
     GivenWhenResolved
<1>3. \A i \in DOMAIN waiters : chains[waiters[i]] = "waiting"
  <2>1. \A i \in DOMAIN waiters : waiters[i] \in Chains /\ waiters[i] # t
    BY DEF Inv, TypeOK, QueueWaits, CancelGiven
  <2>2. QED
    BY <2>1 DEF Inv, TypeOK, QueueWaits
<1>4. {u \in Chains : chains[u] \in {"growing", "dispatched"}} = SettingUp
  BY DEF SettingUp, Inv, TypeOK, CancelGiven
<1>5. /\ members' = members /\ growing' = growing /\ DispatcherType'
      /\ held' = held /\ GiveBack(m, chains, gifts)
  BY DEF CancelGiven, Inv, TypeOK, DispatcherType
<1>6. m \in Taken(t)
  BY <1>1 DEF Taken
<1> HIDE DEF m, chains, gifts
<1>7. m \notin idle /\ \A u \in Chains : u # t => m \notin Taken(u)
  BY <1>6 DEF Inv, OneWorkPerMember
<1>8. \A u \in Chains : /\ TakenBy(held, gifts, u) \subseteq Taken(u)
                        /\ m \notin TakenBy(held, gifts, u)
  BY <1>2, <1>7
<1>9. Loose(m, held, chains, gifts)
  <2>1. /\ \A u \in Chains : TakenBy(held, gifts, u) \cap idle = {}
        /\ \A u, v \in Chains :
             u # v => TakenBy(held, gifts, u) \cap TakenBy(held, gifts, v) = {}
    BY <1>8 DEF Inv, OneWorkPerMember
  <2>2. QED
    BY <1>1, <1>2, <1>3, <1>7, <1>8, <2>1 DEF Loose, Inv, TypeOK
<1>10. ASSUME NEW k \in members \ (idle \cup {m})
       PROVE  \E u \in Chains : k \in TakenBy(held, gifts, u)
  <2>1. PICK u \in Chains : k \in Taken(u)
    BY SomebodyHasIt DEF Inv
  <2>2. QED
    BY <1>2, <1>10, <2>1
<1>11. QED
  BY <1>4, <1>5, <1>9, <1>10, GiveBackStep

LEMMA WarmedUpStep ==
  ASSUME Inv, WarmedUp
  PROVE  Inv'
<1>1. DispatcherType' /\ growing' = growing /\ held' = held
  BY DEF WarmedUp, Inv, TypeOK, DispatcherType
<1>2. ASSUME NEW m \in Fresh, members' = members \cup {m}, Offer(m, chain, given)
      PROVE  Inv'
  <2>1. /\ m \in Members /\ m # NoMember /\ m \notin idle
        /\ \A u \in Chains : m \notin held[u] /\ given[u] # m
    BY DEF Fresh, InUse, Inv, TypeOK
  <2>2. \A u \in Chains : TakenBy(held, given, u) = Taken(u)
    BY DEF Taken, TakenBy
  <2>3. Loose(m, held, chain, given)
    BY <2>1, <2>2 DEF Loose, Taken, Inv, TypeOK, QueueWaits,
       GivenWhenResolved, OneWorkPerMember
  <2>4. ASSUME NEW k \in members' \ (idle \cup {m})
        PROVE  \E u \in Chains : k \in TakenBy(held, given, u)
    BY <1>2, <2>2, <2>4, SomebodyHasIt DEF Inv
  <2>5. /\ members' \in SUBSET Members /\ m \in members' /\ idle \subseteq members'
        /\ IsFiniteSet(members')
    BY <1>2, <2>1, FiniteMembers DEF Inv, TypeOK
  <2>6. {u \in Chains : chain[u] \in {"growing", "dispatched"}} = SettingUp
    BY DEF SettingUp
  <2>7. QED
    BY <1>1, <1>2, <2>3, <2>4, <2>5, <2>6, OfferStep
<1>3. ASSUME UNCHANGED <<members, idle, waiters, chain, given>>
      PROVE  Inv'
  <2>1. TypeOK'
    BY <1>1, <1>3 DEF Inv, TypeOK, DispatcherType
  <2>2. Counting' /\ QueueWaits' /\ GivenWhenResolved' /\ NobodyWaitsForIdle'
    BY <1>1, <1>3
    DEF Inv, Counting, SettingUp, QueueWaits, GivenWhenResolved, NobodyWaitsForIdle
  <2>3. OneWorkPerMember' /\ NoMemberIsLost'
    BY <1>1, <1>3, SameHands
  <2>4. QED
    BY <2>1, <2>2, <2>3 DEF Inv
<1>4. QED
  BY <1>2, <1>3 DEF WarmedUp

LEMMA ReceiveStep ==
  ASSUME Inv, NEW t \in Chains, Receive(t)
  PROVE  Inv'
<1> DEFINE m == given[t]
<1>1. /\ chain[t] = "given" /\ chain' = [chain EXCEPT ![t] = "running"]
      /\ held' = [held EXCEPT ![t] = @ \cup {m}]
      /\ given' = [given EXCEPT ![t] = NoMember]
      /\ members' = members /\ idle' = idle /\ growing' = growing
      /\ waiters' = waiters /\ DispatcherType'
  BY DEF Receive, pool, Inv, TypeOK, DispatcherType
<1>2. m \in Members
  BY <1>1 DEF Inv, TypeOK, GivenWhenResolved
<1>3. TypeOK'
  <2>1. held' \in [Chains -> SUBSET Members] /\ chain' \in [Chains -> ChainStates]
    BY <1>1, <1>2 DEF Inv, TypeOK, ChainStates
  <2>2. QED
    BY <1>1, <2>1 DEF Inv, TypeOK, DispatcherType
<1>4. Counting'
  <2>1. SettingUp' = SettingUp
    BY <1>1 DEF SettingUp, Inv, TypeOK
  <2>2. QED
    BY <1>1, <2>1, CountTheSame DEF Inv, Counting
<1>5. QueueWaits' /\ GivenWhenResolved' /\ NobodyWaitsForIdle'
  <2>1. \A i \in DOMAIN waiters : waiters[i] \in Chains /\ waiters[i] # t
    BY <1>1 DEF Inv, TypeOK, QueueWaits
  <2>2. QueueWaits'
    BY <1>1, <2>1 DEF Inv, TypeOK, QueueWaits
  <2>3. GivenWhenResolved' /\ NobodyWaitsForIdle'
    BY <1>1 DEF Inv, TypeOK, GivenWhenResolved, NobodyWaitsForIdle
  <2>4. QED
    BY <2>2, <2>3
<1>6. \A u \in Chains : Taken(u)' = Taken(u) /\ given'[u] \notin held'[u]
  BY <1>1, <1>2 DEF Inv, TypeOK, Taken, OneWorkPerMember
<1>7. OneWorkPerMember'
  BY <1>1, <1>6 DEF Inv, OneWorkPerMember
<1>8. NoMemberIsLost'
  <2>1. \A k \in members' \ idle' : \E u \in Chains : k \in Taken(u)'
    BY <1>1, <1>6, SomebodyHasIt DEF Inv
  <2>2. QED
    BY <2>1 DEF NoMemberIsLost, InUse, Taken
<1>9. QED
  BY <1>3, <1>4, <1>5, <1>7, <1>8 DEF Inv

(* A queue without the entry at i.                                         *)
LEMMA WithoutEntry ==
  ASSUME NEW q \in Seq(Chains), NEW i \in DOMAIN q, NEW r,
         r = SubSeq(q, 1, i - 1) \o SubSeq(q, i + 1, Len(q))
  PROVE  /\ r \in Seq(Chains)
         /\ Len(r) = Len(q) - 1
         /\ \A j \in 1 .. Len(q) - 1 : r[j] = q[IF j < i THEN j ELSE j + 1]
<1> DEFINE before == SubSeq(q, 1, i - 1)
           after == SubSeq(q, i + 1, Len(q))
<1>1. i \in 1 .. Len(q) /\ Len(q) \in Nat
  OBVIOUS
<1>2. /\ before \in Seq(Chains) /\ Len(before) = i - 1
      /\ \A j \in 1 .. i - 1 : before[j] = q[j]
  <2>1. /\ before \in Seq(Chains)
        /\ Len(before) = IF 1 <= i - 1 THEN i - 1 - 1 + 1 ELSE 0
        /\ \A j \in 1 .. i - 1 - 1 + 1 : before[j] = q[1 + j - 1]
    <3>1. \A j \in 1 .. i - 1 : q[j] \in Chains
      BY <1>1
    <3>2. 1 \in Int /\ i - 1 \in Int
      BY <1>1
    <3>3. QED
      BY <3>1, <3>2, SubSeqProperties
  <2>2. QED
    BY <1>1, <2>1
<1>3. /\ after \in Seq(Chains) /\ Len(after) = Len(q) - i
      /\ \A j \in 1 .. Len(q) - i : after[j] = q[i + j]
  <2>1. /\ after \in Seq(Chains)
        /\ Len(after) = IF i + 1 <= Len(q) THEN Len(q) - (i + 1) + 1 ELSE 0
        /\ \A j \in 1 .. Len(q) - (i + 1) + 1 : after[j] = q[i + 1 + j - 1]
    <3>1. \A j \in i + 1 .. Len(q) : q[j] \in Chains
      BY <1>1
    <3>2. i + 1 \in Int /\ Len(q) \in Int
      BY <1>1
    <3>3. QED
      BY <3>1, <3>2, SubSeqProperties
  <2>2. QED
    BY <1>1, <2>1
<1> HIDE DEF before, after
<1>4. /\ r \in Seq(Chains) /\ Len(r) = Len(before) + Len(after)
      /\ \A j \in 1 .. Len(before) + Len(after) :
           r[j] = IF j <= Len(before) THEN before[j] ELSE after[j - Len(before)]
  BY <1>2, <1>3, ConcatProperties DEF before, after
<1>5. PICK n \in Nat : n = Len(q) /\ i \in 1 .. n
  BY <1>1
<1>6. Len(before) = i - 1 /\ Len(after) = n - i /\ i \in Nat /\ Len(r) = n - 1
  <2>1. Len(before) = i - 1 /\ Len(after) = n - i
    BY <1>2, <1>3, <1>5
  <2>2. Len(r) = (i - 1) + (n - i)
    BY <1>4, <2>1
  <2>3. i \in Nat /\ (i - 1) + (n - i) = n - 1
    BY <1>5
  <2>4. QED
    BY <2>1, <2>2, <2>3
<1>7. ASSUME NEW j \in 1 .. n - 1
      PROVE  r[j] = q[IF j < i THEN j ELSE j + 1]
  <2>1. j \in 1 .. (i - 1) + (n - i)
    BY <1>5
  <2>2. r[j] = IF j <= i - 1 THEN before[j] ELSE after[j - (i - 1)]
    BY <1>4, <1>6, <2>1
  <2>3. CASE j < i
    <3>1. j <= i - 1 /\ j \in 1 .. i - 1
      BY <1>5, <2>3
    <3>2. QED
      BY <1>2, <2>2, <2>3, <3>1
  <2>4. CASE ~ (j < i)
    <3>1. /\ ~ (j <= i - 1) /\ j - (i - 1) \in 1 .. n - i
          /\ i + (j - (i - 1)) = j + 1
      BY <1>5, <2>4
    <3>2. after[j - (i - 1)] = q[i + (j - (i - 1))]
      BY <1>3, <1>5, <3>1
    <3>3. QED
      BY <2>2, <2>4, <3>1, <3>2
  <2>5. QED
    BY <2>3, <2>4
<1>8. QED
  BY <1>4, <1>5, <1>6, <1>7

LEMMA CancelWaitingStep ==
  ASSUME Inv, NEW t \in Chains, CancelWaiting(t)
  PROVE  Inv'
<1>1. PICK i \in DOMAIN waiters :
        /\ waiters[i] = t
        /\ waiters' = SubSeq(waiters, 1, i - 1)
                        \o SubSeq(waiters, i + 1, Len(waiters))
  BY DEF CancelWaiting
<1>2. /\ chain[t] = "waiting" /\ chain' = [chain EXCEPT ![t] = "running"]
      /\ members' = members /\ idle' = idle /\ growing' = growing
      /\ held' = held /\ given' = given /\ DispatcherType'
  BY DEF CancelWaiting, Inv, TypeOK, DispatcherType
<1>3. waiters \in Seq(Chains)
  BY DEF Inv, TypeOK
<1>4. /\ waiters' \in Seq(Chains) /\ Len(waiters') = Len(waiters) - 1
      /\ \A j \in 1 .. Len(waiters) - 1 :
           waiters'[j] = waiters[IF j < i THEN j ELSE j + 1]
  BY <1>1, <1>3, WithoutEntry
<1>5. QueueWaits'
  <2> DEFINE from(j) == IF j < i THEN j ELSE j + 1
  <2>1. ASSUME NEW j \in DOMAIN waiters'
        PROVE  /\ j \in 1 .. Len(waiters) - 1 /\ from(j) \in DOMAIN waiters
               /\ from(j) # i /\ waiters'[j] = waiters[from(j)]
    BY <1>3, <1>4
  <2>2. ASSUME NEW j \in DOMAIN waiters'
        PROVE  chain'[waiters'[j]] = "waiting"
    <3>1. waiters[from(j)] # t
      BY <1>1, <2>1 DEF Inv, QueueWaits
    <3>2. chain[waiters[from(j)]] = "waiting" /\ waiters[from(j)] \in Chains
      BY <1>3, <2>1 DEF Inv, QueueWaits
    <3>3. QED
      BY <1>2, <2>1, <3>1, <3>2 DEF Inv, TypeOK
  <2>3. ASSUME NEW j \in DOMAIN waiters', NEW k \in DOMAIN waiters',
               waiters'[j] = waiters'[k]
        PROVE  j = k
    <3>1. from(j) = from(k)
      BY <2>1, <2>3 DEF Inv, QueueWaits
    <3>2. j \in 1 .. Len(waiters) - 1 /\ k \in 1 .. Len(waiters) - 1
      BY <2>1
    <3>3. QED
      BY <1>3, <3>1, <3>2
  <2>4. QED
    BY <2>2, <2>3 DEF QueueWaits
<1>6. TypeOK'
  BY <1>2, <1>4 DEF Inv, TypeOK, DispatcherType, ChainStates
<1>7. Counting'
  <2>1. SettingUp' = SettingUp
    BY <1>2 DEF SettingUp, Inv, TypeOK
  <2>2. QED
    BY <1>2, <2>1, CountTheSame DEF Inv, Counting
<1>8. GivenWhenResolved' /\ NobodyWaitsForIdle'
  <2>1. waiters # << >>
    BY <1>1
  <2>2. QED
    BY <1>2, <2>1 DEF Inv, TypeOK, GivenWhenResolved, NobodyWaitsForIdle
<1>9. OneWorkPerMember' /\ NoMemberIsLost'
  BY <1>2, SameHands
<1>10. QED
  BY <1>5, <1>6, <1>7, <1>8, <1>9 DEF Inv

LEMMA LeavesStep ==
  ASSUME Inv, NEW m, Leaves(m), DispatcherType'
  PROVE  Inv'
<1>1. /\ members' = members \ {m} /\ idle' = idle \ {m}
      /\ growing' = growing /\ waiters' = waiters /\ chain' = chain
      /\ held' = held /\ given' = given
  BY DEF Leaves
<1>2. TypeOK'
  BY <1>1 DEF Inv, TypeOK, DispatcherType
<1>3. Counting'
  BY <1>1, FiniteMembers, CountTheSame DEF SettingUp
<1>4. QueueWaits' /\ GivenWhenResolved' /\ NobodyWaitsForIdle'
  BY <1>1 DEF Inv, QueueWaits, GivenWhenResolved, NobodyWaitsForIdle
<1>5. OneWorkPerMember'
  BY <1>1 DEF Inv, OneWorkPerMember, Taken
<1>6. NoMemberIsLost'
  BY <1>1 DEF Inv, NoMemberIsLost, InUse
<1>7. QED
  BY <1>2, <1>3, <1>4, <1>5, <1>6 DEF Inv

LEMMA AcquireStep ==
  ASSUME Inv, NEW t \in Chains, Acquire(t)
  PROVE  Inv'
<1>1. chain[t] = "running" /\ DispatcherType'
  BY DEF Acquire, Inv, TypeOK, DispatcherType
<1>2. QED
  BY <1>1, TakeIdleStep, StartGrowingStep, WaitStep DEF Acquire

LEMMA DispatchStep ==
  ASSUME Inv, NEW t \in Chains, Dispatch(t)
  PROVE  Inv'
<1>1. chain[t] = "running" /\ DispatcherType'
  BY DEF Dispatch, Inv, TypeOK, DispatcherType
<1>2. QED
  BY <1>1, TakeIdleStep, StartGrowingStep DEF Dispatch, Begins

(* The dispatcher's own state says nothing about the pool.                 *)
LEMMA DispatcherStep ==
  ASSUME Inv, UNCHANGED <<pool, chain, held, given>>, DispatcherType'
  PROVE  Inv'
<1>1. TypeOK'
  BY DEF Inv, TypeOK, DispatcherType, pool
<1>2. Counting' /\ QueueWaits' /\ GivenWhenResolved' /\ NobodyWaitsForIdle'
  BY DEF Inv, Counting, SettingUp, QueueWaits, GivenWhenResolved,
     NobodyWaitsForIdle, pool
<1>3. OneWorkPerMember' /\ NoMemberIsLost'
  BY SameHands DEF pool
<1>4. QED
  BY <1>1, <1>2, <1>3 DEF Inv

LEMMA NextInv == Inv /\ [Next]_vars => Inv'
<1> SUFFICES ASSUME Inv, [Next]_vars PROVE Inv'
  OBVIOUS
<1>1. DispatcherType
  BY DEF Inv, TypeOK, DispatcherType
<1>2. ASSUME NEW t \in Chains, Acquire(t) PROVE Inv'
  BY <1>2, AcquireStep
<1>3. ASSUME NEW t \in Chains, Grown(t) PROVE Inv'
  BY <1>1, <1>3, GrownStep DEF Grown, DispatcherType
<1>4. ASSUME NEW t \in Chains, Release(t) PROVE Inv'
  BY <1>4, ReleaseStep
<1>5. ASSUME NEW t \in Chains, Receive(t) PROVE Inv'
  BY <1>5, ReceiveStep
<1>6. ASSUME NEW t \in Chains, CancelWaiting(t) PROVE Inv'
  BY <1>6, CancelWaitingStep
<1>7. ASSUME NEW t \in Chains, CancelGiven(t) PROVE Inv'
  BY <1>7, CancelGivenStep
<1>8. ASSUME NEW t \in Chains, Dispatch(t) PROVE Inv'
  BY <1>8, DispatchStep
<1>9. CASE WarmUp
  BY <1>1, <1>9, DispatcherStep DEF WarmUp, DispatcherType
<1>10. CASE WarmedUp
  BY <1>10, WarmedUpStep
<1>11. CASE PickRetiring
  <2>1. PICK R \in Retirable : \E m \in R : Leaves(m) /\ retiring' = R \ {m}
    BY <1>11 DEF PickRetiring
  <2>2. R \subseteq Members
    BY DEF Retirable, Inv, TypeOK
  <2>3. DispatcherType'
    BY <1>11, <2>1, <2>2 DEF PickRetiring, DispatcherType
  <2>4. QED
    BY <2>1, <2>3, LeavesStep
<1>12. CASE Retire
  <2>1. DispatcherType'
    BY <1>1, <1>12 DEF Retire, DispatcherType
  <2>2. QED
    BY <1>12, <2>1, LeavesStep DEF Retire
<1>13. CASE Retired
  BY <1>1, <1>13, DispatcherStep DEF Retired, DispatcherType
<1>14. CASE UNCHANGED vars
  BY <1>1, <1>14, DispatcherStep DEF vars, DispatcherType
<1>15. QED
  BY <1>2, <1>3, <1>4, <1>5, <1>6, <1>7, <1>8, <1>9, <1>10, <1>11, <1>12,
     <1>13, <1>14 DEF Next

LEMMA InvHolds == Spec => []Inv
<1>1. QED
  BY InitInv, NextInv, PTL DEF Spec

-----------------------------------------------------------------------------
(* The limit of a pool                                                     *)

(* Somebody is a member always, so fewer than max are set up at a time;    *)
(* and there is room for the one being warmed.                             *)
RoomToWarm ==
  dispatcher = "warming" =>
    /\ MinMembers >= 2
    /\ Cardinality(members) + growing + 1 <= MaxMembers + (MinMembers - 1)

LimitInv ==
  /\ Inv
  /\ Base \in members /\ Base \notin retiring
  /\ growing + 1 <= MaxMembers
  /\ WithinMax
  /\ RoomToWarm

LEMMA LimitInit == Init => LimitInv
<1> SUFFICES ASSUME Init PROVE LimitInv
  OBVIOUS
<1>1. Cardinality(members) = 1
  BY FS_Singleton DEF Init
<1>2. QED
  BY <1>1, InitInv DEF Init, LimitInv, WithinMax, RoomToWarm

(* The members only grow by those that were set up, and shrink.            *)
LEMMA LimitNext == LimitInv /\ [Next]_vars => LimitInv'
<1> SUFFICES ASSUME LimitInv, [Next]_vars PROVE LimitInv'
  OBVIOUS
<1> DEFINE Kept == /\ Base \in members' /\ Base \notin retiring'
                   /\ growing' + 1 <= MaxMembers
                   /\ WithinMax' /\ RoomToWarm'
<1>1. Inv /\ Inv'
  BY NextInv DEF LimitInv
<1> SUFFICES Kept
  BY <1>1 DEF LimitInv
<1>2. /\ IsFiniteSet(members) /\ Cardinality(members) \in Nat
      /\ growing \in Nat
      /\ Cardinality(members) + growing <= MaxMembers + (MinMembers - 1)
  BY <1>1, FS_CardinalityType DEF Inv, Counting, TypeOK, LimitInv, WithinMax
<1>3. Base \in members /\ Base \notin retiring /\ growing + 1 <= MaxMembers
  BY DEF LimitInv
<1>4. Cardinality(members) >= 1
  <2>1. Cardinality({Base}) = 1
    BY FS_Singleton
  <2>2. Cardinality({Base}) <= Cardinality(members)
    BY <1>2, <1>3, FS_Subset
  <2>3. QED
    BY <1>2, <2>1, <2>2
<1>0. RoomToWarm
  BY DEF LimitInv
<1>5. ASSUME UNCHANGED <<members, growing, retiring>>,
             dispatcher' = "warming" => dispatcher = "warming"
      PROVE  Kept
  BY <1>0, <1>2, <1>3, <1>5 DEF WithinMax, RoomToWarm
<1>6. ASSUME NEW t \in Chains, NEW as, StartGrowing(t, as), retiring' = retiring,
             dispatcher' = "warming" => dispatcher = "warming"
      PROVE  Kept
  <2>1. /\ growing' = growing + 1 /\ members' = members
        /\ Cardinality(members) + growing < MaxMembers
    BY <1>6 DEF StartGrowing, CanGrow
  <2>2. growing' + 1 <= MaxMembers
    BY <1>2, <1>4, <2>1, PoolAssumption
  <2>3. Cardinality(members') + growing' <= MaxMembers
    BY <1>2, <2>1, PoolAssumption
  <2>4. WithinMax'
    BY <1>2, <2>1, <2>3, PoolAssumption DEF WithinMax
  <2>5. RoomToWarm'
    BY <1>0, <1>2, <1>6, <2>1, <2>3, PoolAssumption DEF RoomToWarm
  <2>6. QED
    BY <1>3, <1>6, <2>1, <2>2, <2>4, <2>5
<1>7. ASSUME NEW m, Leaves(m), m # Base, Base \notin retiring',
             dispatcher' # "warming"
      PROVE  Kept
  <2>1. members' = members \ {m} /\ growing' = growing
    BY <1>7 DEF Leaves
  <2>2. /\ Cardinality(members') <= Cardinality(members)
        /\ Cardinality(members') \in Nat
    BY <1>2, <2>1, FS_Subset, FS_CardinalityType
  <2>3. QED
    BY <1>2, <1>3, <1>7, <2>1, <2>2, PoolAssumption DEF WithinMax, RoomToWarm
<1>8. ASSUME NEW t \in Chains, Acquire(t) PROVE Kept
  <2>1. retiring' = retiring /\ dispatcher' = dispatcher
    BY <1>8 DEF Acquire
  <2>2. CASE TakeIdle(t, "running") \/ Wait(t)
    BY <1>5, <2>1, <2>2 DEF TakeIdle, Wait
  <2>3. CASE StartGrowing(t, "growing")
    BY <1>6, <2>1, <2>3
  <2>4. QED
    BY <1>8, <2>2, <2>3 DEF Acquire
<1>9. ASSUME NEW t \in Chains, Dispatch(t) PROVE Kept
  <2>1. CASE (\E as \in Begins : TakeIdle(t, as)) /\ UNCHANGED dispatcher
    BY <1>5, <1>9, <2>1 DEF Dispatch, TakeIdle
  <2>2. CASE StartGrowing(t, "dispatched") /\ dispatcher' = "acquiring"
    BY <1>6, <1>9, <2>2 DEF Dispatch
  <2>3. QED
    BY <1>9, <2>1, <2>2 DEF Dispatch
<1>10. ASSUME NEW t \in Chains, Grown(t) PROVE Kept
  <2>1. /\ growing' = growing - 1 /\ retiring' = retiring
        /\ dispatcher' = "warming" => dispatcher = "warming"
    BY <1>10 DEF Grown
  <2>2. CASE members' = members
    BY <1>0, <1>2, <1>3, <2>1, <2>2, PoolAssumption DEF WithinMax, RoomToWarm
  <2>3. CASE \E m \in Fresh : members' = members \cup {m}
    <3>1. PICK m \in Fresh : members' = members \cup {m}
      BY <2>3
    <3>2. Cardinality(members') = Cardinality(members) + 1
      BY <1>2, <3>1, FS_AddElement DEF Fresh
    <3>3. QED
      BY <1>0, <1>2, <1>3, <2>1, <3>1, <3>2, PoolAssumption
         DEF WithinMax, RoomToWarm
  <2>4. QED
    BY <1>10, <2>2, <2>3 DEF Grown
<1>11. ASSUME NEW t \in Chains,
              Release(t) \/ Receive(t) \/ CancelWaiting(t) \/ CancelGiven(t)
       PROVE  Kept
  <2>1. UNCHANGED <<members, growing, retiring, dispatcher>>
    BY <1>11 DEF Release, Receive, CancelWaiting, CancelGiven, pool
  <2>2. QED
    BY <1>5, <2>1
<1>12. CASE WarmUp
  <2>1. /\ UNCHANGED <<members, growing, retiring>>
        /\ Cardinality(members) < MinMembers
    BY <1>12 DEF WarmUp, pool
  <2>2. /\ MinMembers >= 2
        /\ Cardinality(members) + growing + 1 <= MaxMembers + (MinMembers - 1)
    BY <1>2, <1>3, <1>4, <2>1, PoolAssumption
  <2>3. QED
    BY <1>2, <1>3, <2>1, <2>2 DEF WithinMax, RoomToWarm
<1>13. CASE WarmedUp
  <2>1. /\ growing' = growing /\ retiring' = retiring /\ dispatcher' = "scan"
        /\ Cardinality(members) + growing + 1 <= MaxMembers + (MinMembers - 1)
    BY <1>0, <1>13 DEF WarmedUp, RoomToWarm
  <2>2. CASE members' = members
    BY <1>2, <1>3, <2>1, <2>2 DEF WithinMax, RoomToWarm
  <2>3. CASE \E m \in Fresh : members' = members \cup {m}
    <3>1. PICK m \in Fresh : members' = members \cup {m}
      BY <2>3
    <3>2. Cardinality(members') = Cardinality(members) + 1
      BY <1>2, <3>1, FS_AddElement DEF Fresh
    <3>3. QED
      BY <1>2, <1>3, <2>1, <3>1, <3>2, PoolAssumption DEF WithinMax, RoomToWarm
  <2>4. QED
    BY <1>13, <2>2, <2>3 DEF WarmedUp
<1>14. CASE PickRetiring
  <2>1. PICK R \in Retirable :
          \E m \in R : Leaves(m) /\ retiring' = R \ {m}
    BY <1>14 DEF PickRetiring
  <2>2. Base \notin R
    BY DEF Retirable
  <2>3. dispatcher' # "warming"
    BY <1>14 DEF PickRetiring
  <2>4. QED
    BY <1>7, <2>1, <2>2, <2>3
<1>15. CASE Retire
  <2>1. PICK m \in retiring : Leaves(m) /\ retiring' = retiring \ {m}
    BY <1>15 DEF Retire
  <2>2. dispatcher' # "warming" /\ m # Base
    BY <1>3, <1>15 DEF Retire
  <2>3. QED
    BY <1>3, <1>7, <2>1, <2>2
<1>16. CASE Retired \/ UNCHANGED vars
  BY <1>5, <1>16 DEF Retired, vars, pool
<1>17. QED
  BY <1>8, <1>9, <1>10, <1>11, <1>12, <1>13, <1>14, <1>15, <1>16 DEF Next

-----------------------------------------------------------------------------
(* Theorems                                                                *)

(* Every variable has its type: in particular the members set up at any    *)
(* moment are never counted below zero, and only members are idle.         *)
THEOREM PoolTypeCorrect == Spec => []TypeOK
<1>1. Inv => TypeOK
  BY DEF Inv
<1>2. QED
  BY <1>1, InvHolds, PTL

(* No instance runs two pieces of work or is idle while it runs one, also  *)
(* when a waiter is cancelled as release (pool.py) serves it and when the  *)
(* dispatcher retires the instance under its work.                         *)
THEOREM OneWorkEach == Spec => []OneWorkPerMember
<1>1. Inv => OneWorkPerMember
  BY DEF Inv
<1>2. QED
  BY <1>1, InvHolds, PTL

(* Every member is idle, leased, or on its way to a waiter: acquire and    *)
(* release (pool.py) let none slip, whatever is cancelled or fails.        *)
THEOREM NoneIsLost == Spec => []NoMemberIsLost
<1>1. Inv => NoMemberIsLost
  BY DEF Inv
<1>2. QED
  BY <1>1, InvHolds, PTL

(* Nobody waits in acquire (pool.py) while a member is idle.               *)
THEOREM NoneWaitsForIdle == Spec => []NobodyWaitsForIdle
<1>1. Inv => NobodyWaitsForIdle
  BY DEF Inv
<1>2. QED
  BY <1>1, InvHolds, PTL

(* A pool never has more members than max and those it keeps warm beside   *)
(* the base, counting the ones being set up (can_grow, pool.py): exactly   *)
(* max when only the base is kept warm.                                    *)
THEOREM LimitHolds == Spec => []WithinMax
<1>1. Init => LimitInv
  BY LimitInit
<1>2. LimitInv /\ [Next]_vars => LimitInv'
  BY LimitNext
<1>3. LimitInv => WithinMax
  BY DEF LimitInv
<1>4. QED
  BY <1>1, <1>2, <1>3, PTL DEF Spec
=============================================================================
