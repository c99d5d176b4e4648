--------------------------- MODULE FallbackChain ----------------------------
(***************************************************************************)
(* The vision requests of track-b-data-engineering: CachedLLMProvider in   *)
(* front of FallbackChainProvider, whose tiers share a QuotaTracker.  The  *)
(* requests of one materialisation run as tasks of one event loop: a task  *)
(* runs from one await to the next without being interrupted, and the only *)
(* await is the call of a tier's provider.                                 *)
(*                                                                         *)
(* A response is the number of callouts it lists, from which every vision  *)
(* provider derives its confidence; None is a null result (no API key,     *)
(* unreachable, rate limited, an HTTP error).  Counters are those of the   *)
(* current day: the tracker keys them by date.                             *)
(***************************************************************************)
EXTENDS Integers, FiniteSets

CONSTANTS
  Requests,      \* images; the cache key is the image's SHA-256
  LastTier,      \* tiers are tried in the order 1 .. LastTier
  Limit,         \* tier -> daily_limit
  MinCallouts,   \* tier -> min_callouts
  Counts,        \* numbers of callouts a provider may list
  None,
  MaxDays, MaxRestarts, MaxFaults  \* bounds

Tiers == 1 .. LastTier

ASSUME ChainAssumption ==
  /\ LastTier \in Nat \ {0}
  /\ Limit \in [Tiers -> Nat \ {0}]
  /\ MinCallouts \in [Tiers -> Nat]
  /\ Counts \subseteq Nat
  /\ None \notin Counts \cup Tiers
  /\ IsFiniteSet(Requests)
  /\ {MaxDays, MaxRestarts, MaxFaults} \subseteq Nat

VARIABLES
  task,      \* each request: not asked, awaiting a tier, or answered
  used,      \* QuotaTracker._usage
  saved,     \* the quota file
  index,     \* CachedLLMProvider._index
  kept,      \* llm-cache.jsonl
  answered,  \* results each tier's provider has returned today
  day, restarts, faults

disk   == <<saved, kept>>
bounds == <<day, restarts, faults>>
vars   == <<task, used, disk, index, answered, bounds>>

Idle    == [step |-> "idle", tier |-> None, answer |-> None]
Await(t) == [step |-> "await", tier |-> t, answer |-> None]

(* An answer remembers the tier it came from (meta.provider). *)
Answers == [tier : Tiers, callouts : Counts]
Done(a) == [step |-> "done", tier |-> None, answer |-> a]

Init ==
  /\ task = [r \in Requests |-> Idle]
  /\ used = [t \in Tiers |-> 0] /\ saved = used
  /\ index = [r \in Requests |-> None] /\ kept = index
  /\ answered = used
  /\ day = 0 /\ restarts = 0 /\ faults = 0

-----------------------------------------------------------------------------
Confidence(n) == CASE n >= 5 -> 2 [] n \in 2 .. 4 -> 1 [] n < 2 -> 0

AcceptConfidence == 1     \* "medium", in every tier of the factory's chain

(* _is_acceptable *)
Acceptable(a) == /\ Confidence(a.callouts) >= AcceptConfidence
                 /\ a.callouts >= MinCallouts[a.tier]

(* can_use *)
CanUse(t, usage) == usage[t] < Limit[t]

(* Mutant: after the last tier the first one has another turn. *)
UsableAround(t, usage) == {u \in Tiers : u # t /\ CanUse(u, usage)}

(* The tiers the loop of enrich would still call after tier t. *)
UsableAfter(t, usage) == {u \in Tiers : u > t /\ CanUse(u, usage)}

FirstOf(S) == CHOOSE t \in S : \A u \in S : t <= u

Call(r, t) == task' = [task EXCEPT ![r] = Await(t)]

(***************************************************************************)
(* A request is asked: from the cache, else from the first tier that has   *)
(* quota left, else the chain answers null without calling anyone.         *)
(***************************************************************************)
Ask(r) ==
  /\ task[r] = Idle
  /\ LET usable == UsableAfter(0, used) IN
     \/ /\ index[r] # None
        /\ task' = [task EXCEPT ![r] = Done(index[r])]
     \/ /\ index[r] = None /\ usable # {}
        /\ Call(r, FirstOf(usable))
     \/ /\ index[r] = None /\ usable = {}
        /\ task' = [task EXCEPT ![r] = Done(None)]
  /\ UNCHANGED <<used, disk, index, answered, bounds>>

(* Writing either file may fail; both writers ignore it. *)
Writes(quotaOk, cacheOk) ==
  LET failed == (IF quotaOk THEN 0 ELSE 1) + (IF cacheOk THEN 0 ELSE 1)
  IN  faults + failed <= MaxFaults /\ faults' = faults + failed

(* The provider returned null: nothing is counted, and if no later tier has *)
(* quota left null is the answer, whatever an earlier tier had found.       *)
NullResult(r) ==
  /\ task[r].step = "await"
  /\ LET usable == UsableAfter(task[r].tier, used) IN
     \/ usable # {} /\ Call(r, FirstOf(usable))
     \/ usable = {} /\ task' = [task EXCEPT ![r] = Done(None)]
  /\ UNCHANGED <<used, disk, index, answered, bounds>>

(* Mutant: the counter is not written to the file. *)
CountUnsaved(t, ok) ==
  /\ used' = [used EXCEPT ![t] = @ + 1]
  /\ answered' = [answered EXCEPT ![t] = @ + 1]
  /\ UNCHANGED saved

(* increment, and _save, which writes the counters of all the tiers. *)
Count(t, ok) ==
  /\ used' = [used EXCEPT ![t] = @ + 1]
  /\ answered' = [answered EXCEPT ![t] = @ + 1]
  /\ saved' = IF ok THEN used' ELSE saved

(* A result under the tier's threshold, with a tier left to escalate to. *)
Escalate(r, a) ==
  /\ task[r].step = "await" /\ a.tier = task[r].tier
  /\ ~Acceptable(a)
  /\ \E ok \in BOOLEAN : Writes(ok, TRUE) /\ Count(a.tier, ok)
  /\ UsableAfter(a.tier, used') # {}
  /\ Call(r, FirstOf(UsableAfter(a.tier, used')))
  /\ UNCHANGED <<index, kept, day, restarts>>

(* The result is accepted, or there is no tier left and it is the last      *)
(* response: either way the decorator caches it, since it is not null.      *)
Answer(r, a) ==
  /\ task[r].step = "await" /\ a.tier = task[r].tier
  /\ \E quotaOk, cacheOk \in BOOLEAN :
       /\ Writes(quotaOk, cacheOk)
       /\ Count(a.tier, quotaOk)
       /\ kept' = IF cacheOk THEN [kept EXCEPT ![r] = a] ELSE kept
  /\ Acceptable(a) \/ UsableAfter(a.tier, used') = {}
  /\ task' = [task EXCEPT ![r] = Done(a)]
  /\ index' = [index EXCEPT ![r] = a]
  /\ UNCHANGED <<day, restarts>>

-----------------------------------------------------------------------------
(* Mutant: the cache file is not read at start. *)
RestartEmpty ==
  /\ restarts < MaxRestarts
  /\ restarts' = restarts + 1
  /\ task' = [r \in Requests |-> Idle]
  /\ used' = saved
  /\ index' = [r \in Requests |-> None]
  /\ UNCHANGED <<disk, answered, day, faults>>

(* The next materialisation, after this one ended or an exception of one    *)
(* task cancelled the others: factory.py builds the chain anew from disk.   *)
Restart ==
  /\ restarts < MaxRestarts
  /\ restarts' = restarts + 1
  /\ task' = [r \in Requests |-> Idle]
  /\ used' = saved
  /\ index' = kept
  /\ UNCHANGED <<disk, answered, day, faults>>

(* The process dies while _save rewrites the file: write_text truncates it  *)
(* first, and a file that does not parse counts as empty.                   *)
TornSave(r, a) ==
  /\ task[r].step = "await" /\ a.tier = task[r].tier
  /\ restarts < MaxRestarts /\ faults < MaxFaults
  /\ restarts' = restarts + 1 /\ faults' = faults + 1
  /\ answered' = [answered EXCEPT ![a.tier] = @ + 1]
  /\ saved' = [t \in Tiers |-> 0] /\ used' = saved'
  /\ task' = [q \in Requests |-> Idle]
  /\ index' = kept
  /\ UNCHANGED <<kept, day>>

(* Midnight: calls in flight will be answered on the new day. *)
NewDay ==
  /\ day < MaxDays
  /\ day' = day + 1
  /\ used' = [t \in Tiers |-> 0] /\ saved' = used'
  /\ answered' = used'
  /\ UNCHANGED <<task, index, kept, restarts, faults>>

-----------------------------------------------------------------------------
Respond(r) == \/ NullResult(r)
              \/ \E a \in Answers : Escalate(r, a) \/ Answer(r, a)

Next == \/ \E r \in Requests : Ask(r) \/ Respond(r)
        \/ \E r \in Requests, a \in Answers : TornSave(r, a)
        \/ Restart \/ NewDay

Spec == Init /\ [][Next]_vars

(* The event loop starts every task, and every provider has a timeout.      *)
Fairness == \A r \in Requests : WF_vars(Ask(r)) /\ WF_vars(Respond(r))

LiveSpec == Spec /\ Fairness
-----------------------------------------------------------------------------
(* Properties.                                                              *)

Task == {Idle} \cup {Await(t) : t \in Tiers} \cup {Done(a) : a \in Answers \cup {None}}

(* Every variable keeps its type. *)
TypeOK ==
  /\ task \in [Requests -> Task]
  /\ \A counter \in {used, saved, answered} : counter \in [Tiers -> Nat]
  /\ \A cache \in {index, kept} : cache \in [Requests -> Answers \cup {None}]
  /\ day \in 0 .. MaxDays /\ restarts \in 0 .. MaxRestarts
  /\ faults \in 0 .. MaxFaults

Awaiting(t) == {r \in Requests : task[r] = Await(t)}

(* However the tasks interleave and wherever the process is restarted, a    *)
(* tier answers at most its daily limit plus the requests that may be in    *)
(* flight besides, as long as the quota file can be written                 *)
(* (fallback_chain.py:76-96 checks before the await and counts after it).   *)
OvershootBounded ==
  faults = 0 => \A t \in Tiers :
    answered[t] + Cardinality(Awaiting(t)) <= Limit[t] - 1 + Cardinality(Requests)

(* An answer in the cache file is final: it is neither replaced nor         *)
(* contradicted by what a later materialisation answers.                    *)
KeptIsFinal ==
  [][\A r \in Requests : kept[r] # None =>
       /\ kept'[r] = kept[r]
       /\ task'[r].step = "done" => task'[r].answer = kept[r]]_vars

(* fallback_chain.py:20: `The chain never silently drops a request': a task *)
(* that waits for a tier is answered, unless its event loop is cancelled.   *)
RequestsAnswered == \A r \in Requests : task[r].step = "await" ~>
                                          task[r].step # "await"

(* fallback_chain.py:13: `a daily quota the QuotaTracker enforces'.         *)
QuotaEnforced == \A t \in Tiers : answered[t] <= Limit[t]

(* fallback_chain.py:115-116: the caller of an exhausted chain decides what *)
(* to do with the last response, `skip-cache, log to DLQ, retry tomorrow':  *)
(* an answer under every threshold is not what tomorrow's request gets.     *)
WeakIsRetried ==
  \A r \in Requests : index[r] # None => Acceptable(index[r])
=============================================================================
