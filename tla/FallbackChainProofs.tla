-------------------------- MODULE FallbackChainProofs --------------------------
(***************************************************************************)
(* Three theorems about the vision chain, for any number of requests and   *)
(* tiers, any limits and thresholds, any number of days, restarts and      *)
(* failed writes: its type, the bound on the overshoot of a daily quota,   *)
(* and that an answer in the cache file is final.                          *)
(***************************************************************************)
EXTENDS FallbackChain, FiniteSetTheorems, WellFoundedInduction, TLAPS

Counter == [Tiers -> Nat]
Cache   == [Requests -> Answers \cup {None}]

-----------------------------------------------------------------------------
(* Tiers and tasks.                                                        *)

LEMMA LeastExists ==
  ASSUME NEW S \in SUBSET Nat, S # {}
  PROVE  \E least \in S : \A u \in S : least <= u
<1>1. IsWellFoundedOn(OpToRel(<, Nat), Nat)
  BY NatLessThanWellFounded
<1>2. PICK least \in S : \A u \in S : ~(<<u, least>> \in OpToRel(<, Nat))
  BY <1>1, WFMin
<1>3. ASSUME NEW u \in S PROVE least <= u
  <2>1. u \in Nat /\ least \in Nat
    OBVIOUS
  <2>2. ~(<<u, least>> \in OpToRel(<, Nat))
    BY <1>2
  <2>3. ~(u < least)
    BY <2>1, <2>2 DEF OpToRel
  <2>4. QED
    BY <2>1, <2>3
<1>4. QED
  BY <1>2, <1>3

LEMMA FirstOfUsable ==
  ASSUME NEW t, NEW usage, UsableAfter(t, usage) # {}
  PROVE  /\ FirstOf(UsableAfter(t, usage)) \in Tiers
         /\ FirstOf(UsableAfter(t, usage)) > t
         /\ CanUse(FirstOf(UsableAfter(t, usage)), usage)
<1> DEFINE S == UsableAfter(t, usage)
<1>1. S \in SUBSET Nat
  BY ChainAssumption DEF UsableAfter, Tiers
<1>2. \E least \in S : \A u \in S : least <= u
  BY <1>1, LeastExists
<1>3. FirstOf(S) \in S
  BY <1>2 DEF FirstOf
<1>4. QED
  BY <1>3 DEF UsableAfter

(* What an action that moves one task does to all of them. *)
LEMMA MoveIsTask ==
  ASSUME task \in [Requests -> Task], NEW r \in Requests, NEW x \in Task,
         task' = [task EXCEPT ![r] = x]
  PROVE  /\ task' \in [Requests -> Task]
         /\ task'[r] = x
         /\ \A q \in Requests : q # r => task'[q] = task[q]
OBVIOUS

LEMMA AwaitIsTask == \A t \in Tiers : Await(t) \in Task
BY DEF Task

LEMMA DoneIsTask == \A a \in Answers \cup {None} : Done(a) \in Task
BY DEF Task

LEMMA Awaits ==
  ASSUME TypeOK, NEW r \in Requests, task[r].step = "await"
  PROVE  task[r].tier \in Tiers /\ task[r] = Await(task[r].tier)
<1>1. task[r] \in Task
  BY DEF TypeOK
<1>2. QED
  BY <1>1 DEF Task, Idle, Await, Done

LEMMA CountIsCounter ==
  ASSUME TypeOK, NEW t \in Tiers, NEW ok \in BOOLEAN, Count(t, ok)
  PROVE  /\ used' \in Counter /\ answered' \in Counter /\ saved' \in Counter
         /\ used'[t] = used[t] + 1 /\ answered'[t] = answered[t] + 1
         /\ \A u \in Tiers : u # t => used'[u] = used[u] /\ answered'[u] = answered[u]
<1>1. used \in Counter /\ answered \in Counter /\ saved \in Counter
  BY DEF TypeOK, Counter
<1>2. used' \in Counter /\ answered' \in Counter
  BY <1>1 DEF Count, Counter
<1>3. QED
  BY <1>1, <1>2 DEF Count, Counter

-----------------------------------------------------------------------------
(* The type.                                                               *)

LEMMA TypeInit == Init => TypeOK
<1> SUFFICES ASSUME Init PROVE TypeOK
  OBVIOUS
<1>1. {MaxDays, MaxRestarts, MaxFaults} \subseteq Nat
  BY ChainAssumption
<1>2. QED
  BY <1>1 DEF Init, TypeOK, Task

LEMMA TypeStep == TypeOK /\ [Next]_vars => TypeOK'
<1> SUFFICES ASSUME TypeOK, [Next]_vars PROVE TypeOK'
  OBVIOUS
<1>0. /\ task \in [Requests -> Task]
      /\ used \in Counter /\ saved \in Counter /\ answered \in Counter
      /\ index \in Cache /\ kept \in Cache
      /\ day \in 0 .. MaxDays /\ restarts \in 0 .. MaxRestarts /\ faults \in 0 .. MaxFaults
      /\ {MaxDays, MaxRestarts, MaxFaults} \subseteq Nat
  BY ChainAssumption DEF TypeOK, Counter, Cache
<1>1. SUFFICES /\ task' \in [Requests -> Task]
               /\ used' \in Counter /\ saved' \in Counter /\ answered' \in Counter
               /\ index' \in Cache /\ kept' \in Cache
               /\ day' \in 0 .. MaxDays /\ restarts' \in 0 .. MaxRestarts
               /\ faults' \in 0 .. MaxFaults
  BY DEF TypeOK, Counter, Cache
<1>2. [t \in Tiers |-> 0] \in Counter
  BY DEF Counter
<1>3. [r \in Requests |-> Idle] \in [Requests -> Task]
  BY DEF Task
<1>4. ASSUME NEW r \in Requests, Ask(r) PROVE TypeOK'
  <2>1. task' \in [Requests -> Task]
    <3>1. CASE task' = [task EXCEPT ![r] = Done(index[r])]
      <4>1. index[r] \in Answers \cup {None}
        BY <1>0 DEF Cache
      <4>2. QED
        BY <1>0, <3>1, <4>1, DoneIsTask, MoveIsTask
    <3>2. CASE UsableAfter(0, used) # {} /\ Call(r, FirstOf(UsableAfter(0, used)))
      BY <1>0, <3>2, FirstOfUsable, AwaitIsTask, MoveIsTask DEF Call
    <3>3. CASE task' = [task EXCEPT ![r] = Done(None)]
      BY <1>0, <3>3, DoneIsTask, MoveIsTask
    <3>4. QED
      BY <1>4, <3>1, <3>2, <3>3 DEF Ask
  <2>2. QED
    BY <1>0, <1>4, <2>1 DEF Ask, disk, bounds, TypeOK, Counter, Cache
<1>5. ASSUME NEW r \in Requests, NullResult(r) PROVE TypeOK'
  <2>1. task' \in [Requests -> Task]
    <3>1. CASE /\ UsableAfter(task[r].tier, used) # {}
               /\ Call(r, FirstOf(UsableAfter(task[r].tier, used)))
      BY <1>0, <3>1, FirstOfUsable, AwaitIsTask, MoveIsTask DEF Call
    <3>2. CASE task' = [task EXCEPT ![r] = Done(None)]
      BY <1>0, <3>2, DoneIsTask, MoveIsTask
    <3>3. QED
      BY <1>5, <3>1, <3>2 DEF NullResult
  <2>2. QED
    BY <1>0, <1>5, <2>1 DEF NullResult, disk, bounds, TypeOK, Counter, Cache
<1>6. ASSUME NEW quotaOk \in BOOLEAN, NEW cacheOk \in BOOLEAN, Writes(quotaOk, cacheOk)
      PROVE  faults' \in 0 .. MaxFaults
  BY <1>0, <1>6 DEF Writes
<1>7. ASSUME NEW r \in Requests, NEW a \in Answers, Escalate(r, a) PROVE TypeOK'
  <2>1. a.tier \in Tiers
    BY DEF Answers
  <2>2. PICK ok \in BOOLEAN : Writes(ok, TRUE) /\ Count(a.tier, ok)
    BY <1>7 DEF Escalate
  <2>3. task' \in [Requests -> Task]
    BY <1>0, <1>7, FirstOfUsable, AwaitIsTask, MoveIsTask DEF Escalate, Call
  <2>4. used' \in Counter /\ saved' \in Counter /\ answered' \in Counter
    BY <2>1, <2>2, CountIsCounter
  <2>5. faults' \in 0 .. MaxFaults
    BY <1>6, <2>2
  <2>6. QED
    BY <1>0, <1>7, <2>3, <2>4, <2>5 DEF Escalate, TypeOK, Counter, Cache
<1>8. ASSUME NEW r \in Requests, NEW a \in Answers, Answer(r, a) PROVE TypeOK'
  <2>1. a.tier \in Tiers
    BY DEF Answers
  <2>2. PICK quotaOk \in BOOLEAN, cacheOk \in BOOLEAN :
          /\ Writes(quotaOk, cacheOk) /\ Count(a.tier, quotaOk)
          /\ kept' = IF cacheOk THEN [kept EXCEPT ![r] = a] ELSE kept
    BY <1>8 DEF Answer
  <2>3. task' \in [Requests -> Task]
    BY <1>0, <1>8, DoneIsTask, MoveIsTask DEF Answer
  <2>4. used' \in Counter /\ saved' \in Counter /\ answered' \in Counter
    BY <2>1, <2>2, CountIsCounter
  <2>5. faults' \in 0 .. MaxFaults
    BY <1>6, <2>2
  <2>6. index' \in Cache /\ kept' \in Cache
    BY <1>0, <1>8, <2>2 DEF Answer, Cache
  <2>7. QED
    BY <1>0, <1>8, <2>3, <2>4, <2>5, <2>6 DEF Answer, TypeOK, Counter, Cache
<1>9. ASSUME NEW r \in Requests, NEW a \in Answers, TornSave(r, a) PROVE TypeOK'
  <2>1. answered' \in Counter
    BY <1>0, <1>9 DEF TornSave, Counter, Answers
  <2>2. QED
    BY <1>0, <1>2, <1>3, <1>9, <2>1 DEF TornSave, TypeOK, Counter, Cache
<1>10. ASSUME Restart PROVE TypeOK'
  BY <1>0, <1>3, <1>10 DEF Restart, disk, TypeOK, Counter, Cache
<1>11. ASSUME NewDay PROVE TypeOK'
  BY <1>0, <1>2, <1>11 DEF NewDay, TypeOK, Counter, Cache
<1>12. ASSUME UNCHANGED vars PROVE TypeOK'
  BY <1>0, <1>12 DEF vars, disk, bounds, TypeOK, Counter, Cache
<1>13. TypeOK'
  BY <1>4, <1>5, <1>7, <1>8, <1>9, <1>10, <1>11, <1>12 DEF Next, Respond
<1>14. QED
  BY <1>13 DEF TypeOK, Counter, Cache

(* Tasks wait for tiers there are, counters and caches hold what they      *)
(* should, over every sequence of answers, failures and restarts of the    *)
(* chain (fallback_chain.py, quota_tracker.py, cached.py).                 *)
THEOREM ChainTyped == Spec => []TypeOK
BY TypeInit, TypeStep, PTL DEF Spec

-----------------------------------------------------------------------------
(* The requests in flight.                                                 *)

LEMMA AwaitingCounted ==
  ASSUME NEW t \in Tiers
  PROVE  /\ IsFiniteSet(Awaiting(t)) /\ Cardinality(Awaiting(t)) \in Nat
         /\ Cardinality(Awaiting(t)) <= Cardinality(Requests)
         /\ Cardinality(Requests) \in Nat
<1>1. IsFiniteSet(Requests) /\ Awaiting(t) \in SUBSET Requests
  BY ChainAssumption DEF Awaiting
<1>2. QED
  BY <1>1, FS_Subset, FS_CardinalityType

LEMMA AwaitingCountedPrime ==
  ASSUME NEW t \in Tiers
  PROVE  /\ Cardinality(Awaiting(t)') \in Nat
         /\ Cardinality(Awaiting(t)') <= Cardinality(Requests)
<1>1. IsFiniteSet(Requests) /\ Awaiting(t)' \in SUBSET Requests
  BY ChainAssumption DEF Awaiting
<1>2. QED
  BY <1>1, FS_Subset, FS_CardinalityType

(* Only the task that moves joins or leaves a tier. *)
LEMMA OneMoves ==
  ASSUME NEW r \in Requests, \A q \in Requests : q # r => task'[q] = task[q],
         NEW t \in Tiers, task'[r] # Await(t)
  PROVE  Cardinality(Awaiting(t)') =
           Cardinality(Awaiting(t)) - (IF task[r] = Await(t) THEN 1 ELSE 0)
<1>1. Awaiting(t)' = Awaiting(t) \ {r}
  BY DEF Awaiting
<1>2. r \in Awaiting(t) <=> task[r] = Await(t)
  BY DEF Awaiting
<1>3. IsFiniteSet(Awaiting(t)) /\ Cardinality(Awaiting(t)) \in Nat
  BY AwaitingCounted
<1>4. Cardinality(Awaiting(t) \ {r}) =
        IF r \in Awaiting(t) THEN Cardinality(Awaiting(t)) - 1 ELSE Cardinality(Awaiting(t))
  BY <1>3, FS_RemoveElement
<1>5. QED
  BY <1>1, <1>2, <1>3, <1>4

-----------------------------------------------------------------------------
(* The quota.  While no write fails, memory, file and history agree, so    *)
(* that a task that joins a tier finds fewer answers than the limit.       *)

Room(t) == Limit[t] - 1 + Cardinality(Requests)
Counted == /\ used = answered /\ saved = answered
           /\ \A t \in Tiers : answered[t] + Cardinality(Awaiting(t)) <= Room(t)
QuotaInv == faults = 0 => Counted

LEMMA QuotaInit == Init => QuotaInv
<1> SUFFICES ASSUME Init PROVE Counted
  BY DEF QuotaInv
<1>1. ASSUME NEW t \in Tiers
      PROVE  answered[t] + Cardinality(Awaiting(t)) <= Room(t)
  <2>1. answered[t] = 0 /\ Limit[t] \in Nat \ {0}
    BY ChainAssumption DEF Init
  <2>2. QED
    BY <2>1, AwaitingCounted DEF Room
<1>2. QED
  BY <1>1 DEF Init, Counted

(* A task that moves to a tier below its limit, or to none, while its own  *)
(* tier counts at most the answer it brought.                              *)
LEMMA QuotaMove ==
  ASSUME TypeOK, Counted, used' = answered', saved' = answered', answered' \in Counter,
         NEW r \in Requests, \A q \in Requests : q # r => task'[q] = task[q],
         \A t \in Tiers : task'[r] = Await(t) => answered'[t] < Limit[t],
         \A t \in Tiers : \/ answered'[t] = answered[t]
                          \/ answered'[t] = answered[t] + 1 /\ task[r] = Await(t)
                             /\ task'[r] # Await(t)
  PROVE  Counted'
<1>1. ASSUME NEW t \in Tiers
      PROVE  answered'[t] + Cardinality(Awaiting(t)') <= Room(t)
  <2>1. /\ answered[t] \in Nat /\ answered'[t] \in Nat /\ Limit[t] \in Nat
        /\ answered[t] + Cardinality(Awaiting(t)) <= Room(t)
    BY ChainAssumption DEF TypeOK, Counted, Counter
  <2>2. CASE task'[r] = Await(t)
    BY <2>1, <2>2, AwaitingCountedPrime, AwaitingCounted DEF Room
  <2>3. CASE task'[r] # Await(t)
    <3>1. Cardinality(Awaiting(t)') =
            Cardinality(Awaiting(t)) - (IF task[r] = Await(t) THEN 1 ELSE 0)
      BY <2>3, OneMoves
    <3>2. QED
      BY <2>1, <2>3, <3>1, AwaitingCounted DEF Room
  <2>4. QED
    BY <2>2, <2>3
<1>2. QED
  BY <1>1 DEF Counted, Room

LEMMA QuotaStep == TypeOK /\ QuotaInv /\ [Next]_vars => QuotaInv'
<1> SUFFICES ASSUME TypeOK, QuotaInv, [Next]_vars, faults' = 0 PROVE Counted'
  BY DEF QuotaInv
<1>0. /\ task \in [Requests -> Task] /\ faults \in Nat
      /\ used \in Counter /\ saved \in Counter /\ answered \in Counter
      /\ \A a \in Answers : a.tier \in Tiers
  BY ChainAssumption DEF TypeOK, Counter, Answers
<1>1. ASSUME NEW r \in Requests, NEW t, Counted, UNCHANGED <<used, saved, answered>>,
             \/ UsableAfter(t, used) # {} /\ Call(r, FirstOf(UsableAfter(t, used)))
             \/ \E a \in Answers \cup {None} : task' = [task EXCEPT ![r] = Done(a)]
      PROVE  Counted'
  <2>1. \A q \in Requests : q # r => task'[q] = task[q]
    BY <1>0, <1>1 DEF Call
  <2>2. ASSUME NEW u \in Tiers, task'[r] = Await(u) PROVE answered'[u] < Limit[u]
    <3>1. CASE UsableAfter(t, used) # {} /\ Call(r, FirstOf(UsableAfter(t, used)))
      <4>1. task'[r] = Await(FirstOf(UsableAfter(t, used)))
        BY <1>0, <3>1 DEF Call
      <4>2. u = FirstOf(UsableAfter(t, used))
        BY <2>2, <4>1 DEF Await
      <4>3. QED
        BY <1>1, <3>1, <4>2, FirstOfUsable DEF CanUse, Counted
    <3>2. CASE \E a \in Answers \cup {None} : task' = [task EXCEPT ![r] = Done(a)]
      BY <1>0, <2>2, <3>2 DEF Await, Done
    <3>3. QED
      BY <1>1, <3>1, <3>2
  <2>3. QED
    BY <1>0, <1>1, <2>1, <2>2, QuotaMove DEF Counted
<1>2. ASSUME NEW r \in Requests, Ask(r) PROVE Counted'
  <2>1. Counted /\ UNCHANGED <<used, saved, answered>>
    BY <1>2 DEF Ask, disk, bounds, QuotaInv
  <2>2. index[r] \in Answers \cup {None}
    BY DEF TypeOK
  <2>3. QED
    BY <1>1, <1>2, <2>1, <2>2 DEF Ask
<1>3. ASSUME NEW r \in Requests, NullResult(r) PROVE Counted'
  <2>1. Counted /\ UNCHANGED <<used, saved, answered>>
    BY <1>3 DEF NullResult, disk, bounds, QuotaInv
  <2>2. QED
    BY <1>1, <1>3, <2>1 DEF NullResult
<1>4. ASSUME NEW t \in Tiers, NEW quotaOk \in BOOLEAN, NEW cacheOk \in BOOLEAN,
             Writes(quotaOk, cacheOk), Count(t, quotaOk)
      PROVE  /\ Counted /\ used' = answered' /\ saved' = answered' /\ answered' \in Counter
             /\ answered'[t] = answered[t] + 1
             /\ \A u \in Tiers : u # t => answered'[u] = answered[u]
  <2>1. faults = 0 /\ quotaOk
    BY <1>0, <1>4 DEF Writes
  <2>2. Counted
    BY <2>1 DEF QuotaInv
  <2>3. used' = answered' /\ saved' = answered'
    BY <1>4, <2>1, <2>2 DEF Count, Counted
  <2>4. QED
    BY <1>4, <2>2, <2>3, CountIsCounter
<1>5. ASSUME NEW r \in Requests, NEW a \in Answers, Escalate(r, a) PROVE Counted'
  <2>1. task[r] = Await(a.tier) /\ a.tier \in Tiers
    BY <1>0, <1>5, Awaits DEF Escalate
  <2>2. PICK ok \in BOOLEAN : Writes(ok, TRUE) /\ Count(a.tier, ok)
    BY <1>5 DEF Escalate
  <2>3. /\ Counted /\ used' = answered' /\ saved' = answered' /\ answered' \in Counter
        /\ answered'[a.tier] = answered[a.tier] + 1
        /\ \A u \in Tiers : u # a.tier => answered'[u] = answered[u]
    BY <1>4, <2>1, <2>2
  <2>4. PICK next : next = FirstOf(UsableAfter(a.tier, used'))
    OBVIOUS
  <2>5. next \in Tiers /\ next > a.tier /\ answered'[next] < Limit[next]
    BY <1>5, <2>3, <2>4, FirstOfUsable DEF Escalate, CanUse
  <2>6. task'[r] = Await(next) /\ \A q \in Requests : q # r => task'[q] = task[q]
    BY <1>0, <1>5, <2>4 DEF Escalate, Call
  <2>7. next # a.tier
    BY <2>1, <2>5, ChainAssumption DEF Tiers
  <2>8. \A t \in Tiers : Await(t) = Await(next) => t = next
    BY DEF Await
  <2>9. QED
    BY <2>1, <2>3, <2>5, <2>6, <2>7, <2>8, QuotaMove
<1>6. ASSUME NEW r \in Requests, NEW a \in Answers, Answer(r, a) PROVE Counted'
  <2>1. task[r] = Await(a.tier) /\ a.tier \in Tiers
    BY <1>0, <1>6, Awaits DEF Answer
  <2>2. PICK quotaOk \in BOOLEAN, cacheOk \in BOOLEAN :
          Writes(quotaOk, cacheOk) /\ Count(a.tier, quotaOk)
    BY <1>6 DEF Answer
  <2>3. /\ Counted /\ used' = answered' /\ saved' = answered' /\ answered' \in Counter
        /\ answered'[a.tier] = answered[a.tier] + 1
        /\ \A u \in Tiers : u # a.tier => answered'[u] = answered[u]
    BY <1>4, <2>1, <2>2
  <2>4. /\ \A q \in Requests : q # r => task'[q] = task[q]
        /\ \A t \in Tiers : task'[r] # Await(t)
    BY <1>0, <1>6 DEF Answer, Done, Await
  <2>5. QED
    BY <2>1, <2>3, <2>4, QuotaMove
<1>7. ASSUME NEW r \in Requests, NEW a \in Answers, TornSave(r, a) PROVE FALSE
  BY <1>0, <1>7 DEF TornSave
<1>8. ASSUME Restart PROVE Counted'
  <2>1. Counted /\ UNCHANGED <<saved, answered>> /\ used' = saved
    BY <1>8 DEF Restart, disk, QuotaInv
  <2>2. ASSUME NEW t \in Tiers
        PROVE  answered'[t] + Cardinality(Awaiting(t)') <= Room(t)
    <3>1. Awaiting(t)' = {}
      BY <1>8 DEF Awaiting, Restart, Idle, Await
    <3>2. /\ answered[t] \in Nat /\ Limit[t] \in Nat
          /\ answered[t] + Cardinality(Awaiting(t)) <= Room(t)
      BY <1>0, <2>1, ChainAssumption DEF Counted, Counter
    <3>3. QED
      BY <2>1, <3>1, <3>2, AwaitingCounted, FS_EmptySet DEF Room
  <2>3. QED
    BY <2>1, <2>2 DEF Counted, Room
<1>9. ASSUME NewDay PROVE Counted'
  <2>1. ASSUME NEW t \in Tiers
        PROVE  answered'[t] + Cardinality(Awaiting(t)') <= Room(t)
    <3>1. answered'[t] = 0 /\ Limit[t] \in Nat \ {0}
      BY <1>9, ChainAssumption DEF NewDay
    <3>2. QED
      BY <3>1, AwaitingCounted, AwaitingCountedPrime DEF Room
  <2>2. QED
    BY <1>9, <2>1 DEF NewDay, Counted, Room
<1>10. ASSUME UNCHANGED vars PROVE Counted'
  BY <1>10 DEF vars, disk, bounds, QuotaInv, Counted, Awaiting, Room
<1>11. QED
  BY <1>2, <1>3, <1>5, <1>6, <1>7, <1>8, <1>9, <1>10 DEF Next, Respond

(* However many requests are gathered and however their calls interleave,  *)
(* a tier answers at most its daily limit plus the requests in flight      *)
(* besides, until a write of the quota file fails                          *)
(* (fallback_chain.py:76-96, quota_tracker.py:53-73).                      *)
THEOREM Overshoot == Spec => []OvershootBounded
<1>1. Init => TypeOK /\ QuotaInv
  BY TypeInit, QuotaInit
<1>2. TypeOK /\ QuotaInv /\ [Next]_vars => (TypeOK /\ QuotaInv)'
  BY TypeStep, QuotaStep
<1>3. QuotaInv => OvershootBounded
  BY DEF QuotaInv, Counted, Room, OvershootBounded
<1>4. QED
  BY <1>1, <1>2, <1>3, PTL DEF Spec

-----------------------------------------------------------------------------
(* The cache.                                                              *)

CacheInv == \A r \in Requests : kept[r] # None =>
              index[r] = kept[r] /\ task[r] \in {Idle, Done(kept[r])}

LEMMA CacheInit == Init => CacheInv
BY DEF Init, CacheInv

(* A request whose answer is in the file is not asked of any tier, so no   *)
(* later answer can take its place.                                        *)
LEMMA CacheStep ==
  ASSUME TypeOK, CacheInv, [Next]_vars
  PROVE  /\ CacheInv'
         /\ \A r \in Requests : kept[r] # None =>
              /\ kept'[r] = kept[r]
              /\ task'[r].step = "done" => task'[r].answer = kept[r]
<1>0. /\ task \in [Requests -> Task] /\ index \in Cache /\ kept \in Cache
  BY DEF TypeOK, Cache
<1> DEFINE Final(r) == kept[r] # None =>
             kept'[r] = kept[r] /\ index'[r] = kept[r] /\ task'[r] \in {Idle, Done(kept[r])}
           New(r) == kept'[r] # None =>
             index'[r] = kept'[r] /\ task'[r] \in {Idle, Done(kept'[r])}
<1>1. SUFFICES \A r \in Requests : Final(r) /\ New(r)
  BY DEF CacheInv, Idle, Done
<1>2. \A r \in Requests : kept[r] # None => task[r].step # "await"
  BY DEF CacheInv, Idle, Done
<1>3. ASSUME NEW r \in Requests, NEW q \in Requests, Ask(q) PROVE Final(r) /\ New(r)
  <2>1. UNCHANGED <<index, kept>> /\ (r # q => task'[r] = task[r])
    BY <1>0, <1>3 DEF Ask, disk, Call
  <2>2. index[q] # None => task'[q] = Done(index[q])
    BY <1>0, <1>3 DEF Ask
  <2>3. QED
    BY <2>1, <2>2 DEF CacheInv
<1>4. ASSUME NEW r \in Requests, NEW q \in Requests, NullResult(q) PROVE Final(r) /\ New(r)
  <2>1. UNCHANGED <<index, kept>> /\ (r # q => task'[r] = task[r]) /\ kept[q] = None
    BY <1>0, <1>2, <1>4 DEF NullResult, disk, Call
  <2>2. QED
    BY <2>1 DEF CacheInv
<1>5. ASSUME NEW r \in Requests, NEW q \in Requests, NEW a \in Answers, Escalate(q, a)
      PROVE Final(r) /\ New(r)
  <2>1. UNCHANGED <<index, kept>> /\ (r # q => task'[r] = task[r]) /\ kept[q] = None
    BY <1>0, <1>2, <1>5 DEF Escalate, Call
  <2>2. QED
    BY <2>1 DEF CacheInv
<1>6. ASSUME NEW r \in Requests, NEW q \in Requests, NEW a \in Answers, Answer(q, a)
      PROVE Final(r) /\ New(r)
  <2>1. kept[q] = None
    BY <1>2, <1>6 DEF Answer
  <2>2. r # q => task'[r] = task[r] /\ index'[r] = index[r] /\ kept'[r] = kept[r]
    BY <1>0, <1>6 DEF Answer, Cache
  <2>3. task'[q] = Done(a) /\ index'[q] = a /\ kept'[q] \in {a, None}
    BY <1>0, <1>6, <2>1 DEF Answer, Cache
  <2>4. QED
    BY <2>1, <2>2, <2>3 DEF CacheInv
<1>7. ASSUME NEW r \in Requests, NEW q \in Requests, NEW a \in Answers, TornSave(q, a)
      PROVE Final(r) /\ New(r)
  BY <1>7 DEF TornSave
<1>8. ASSUME NEW r \in Requests, Restart PROVE Final(r) /\ New(r)
  BY <1>8 DEF Restart, disk
<1>9. ASSUME NEW r \in Requests, NewDay \/ UNCHANGED vars PROVE Final(r) /\ New(r)
  BY <1>9 DEF NewDay, vars, disk, CacheInv
<1>10. QED
  BY <1>3, <1>4, <1>5, <1>6, <1>7, <1>8, <1>9 DEF Next, Respond

(* An answer in the cache file is neither replaced nor contradicted by any  *)
(* later request, restart or day (cached.py:58-66).                        *)
THEOREM AnswersFinal == Spec => KeptIsFinal
<1>1. Init => TypeOK /\ CacheInv
  BY TypeInit, CacheInit
<1>2. TypeOK /\ CacheInv /\ [Next]_vars => (TypeOK /\ CacheInv)'
  BY TypeStep, CacheStep
<1>3. TypeOK /\ CacheInv /\ [Next]_vars =>
        [\A r \in Requests : kept[r] # None =>
           /\ kept'[r] = kept[r]
           /\ task'[r].step = "done" => task'[r].answer = kept[r]]_vars
  BY CacheStep
<1>4. QED
  BY <1>1, <1>2, <1>3, PTL DEF Spec, KeptIsFinal

=============================================================================
