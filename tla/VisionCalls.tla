----------------------------- MODULE VisionCalls ------------------------------
(***************************************************************************)
(* scripts/vision_extract_all.py of track-b-data-engineering: one task per *)
(* image, gathered, under a semaphore; each goes through CachedLLMProvider *)
(* to one of the vision providers, which paces its first POST under a      *)
(* lock, posts again after a 429, and turns most failures into a null      *)
(* result.  A task runs from one await to the next without interruption.   *)
(*                                                                         *)
(* Time is counted in ticks and kept as what is left of a sleep and as the *)
(* age of an event; a task may wake later than its sleep says.  Whatever   *)
(* FallbackChain takes as one await of a provider is opened up here.       *)
(***************************************************************************)
EXTENDS Integers, FiniteSets

CONSTANTS
  None,
  Tasks,         \* the images; an image's SHA-256 is its key in the cache
  Upstreams,     \* the choices of --provider to consider
  Concurrency, MinInterval,      \* --concurrency, --min-interval-s
  MaxRetries,    \* 5 in the code
  Waits,         \* what a retry-after header or the back-off may come to
  Counts,        \* numbers of callouts an answer may list
  MaxRuns, MaxFaults             \* bounds: times the script is run, cache writes that fail

ASSUME VisionCallsAssumption ==
  /\ Upstreams \subseteq {"groq", "openrouter", "gemini", "ollama"}
  /\ {Concurrency, MaxRetries} \subseteq Nat \ {0}
  /\ {MinInterval, MaxRuns, MaxFaults} \subseteq Nat
  /\ Waits \subseteq Nat /\ Counts \subseteq Nat
  /\ IsFiniteSet(Tasks) /\ Tasks # {} /\ None \notin Counts \cup Tasks

VARIABLES
  upstream, keyed,  \* the provider of this run, and whether its API key is set
  process,   \* "running", "written", "raised" or "killed"
  task,      \* each image's task
  lock,      \* the holder of _rate_lock
  sinceFire, \* age of _last_fire, at most MinInterval
  index,     \* CachedLLMProvider._index
  kept,      \* the cache file
  results,   \* the file of --out
  runs, faults,
  firstAge   \* history: age of the last first attempt

pacing  == <<lock, sinceFire>>
config  == <<upstream, keyed>>
vars    == <<config, process, task, pacing, index, kept, results, runs, faults, firstAge>>

(* Steps: "queued", "lock", "paced", "post", "backoff", "done". *)
Fresh == [step |-> "queued", wait |-> 0, attempt |-> 0, answer |-> None]
Capped(age) == IF age < MinInterval THEN age + 1 ELSE age

Init ==
  /\ upstream \in Upstreams /\ keyed \in BOOLEAN
  /\ process = "running"
  /\ task = [i \in Tasks |-> Fresh]
  /\ lock = None /\ sinceFire = MinInterval
  /\ index = [i \in Tasks |-> None] /\ kept = index
  /\ results = None
  /\ runs = 1 /\ faults = 0
  /\ firstAge = MinInterval

-----------------------------------------------------------------------------
Becomes(i, t)   == task' = [task EXCEPT ![i] = t]
Answers(i, a)   == Becomes(i, [Fresh EXCEPT !.step = "done", !.answer = a])
Busy            == {i \in Tasks : task[i].step \notin {"queued", "done"}}
Paced           == upstream # "ollama" /\ MinInterval > 0
Unchanged       == UNCHANGED <<config, results, runs>>

(* The POST of attempt n is on its way. *)
Posts(i, n) ==
  /\ Becomes(i, [Fresh EXCEPT !.step = "post", !.attempt = n])
  /\ firstAge' = IF n = 1 THEN 0 ELSE firstAge

(* A task enters the semaphore; a hit of the cache, or a provider without   *)
(* its key, answers at once.                                               *)
Enter(i) ==
  /\ process = "running" /\ task[i].step = "queued"
  /\ Cardinality(Busy) < Concurrency
  /\ \/ index[i] # None /\ Answers(i, index[i]) /\ UNCHANGED firstAge
     \/ /\ index[i] = None /\ ~keyed /\ upstream # "ollama"
        /\ Answers(i, None) /\ UNCHANGED firstAge
     \/ /\ index[i] = None /\ keyed /\ Paced
        /\ Becomes(i, [Fresh EXCEPT !.step = "lock"]) /\ UNCHANGED firstAge
     \/ index[i] = None /\ (keyed \/ upstream = "ollama") /\ ~Paced /\ Posts(i, 1)
  /\ UNCHANGED <<process, pacing, index, kept, faults>> /\ Unchanged

(* Mutant: the wait is computed, but not slept, under the lock. *)
AcquireReleased(i) ==
  /\ process = "running" /\ task[i].step = "lock" /\ lock = None
  /\ \/ sinceFire >= MinInterval /\ sinceFire' = 0 /\ Posts(i, 1)
     \/ /\ sinceFire < MinInterval
        /\ Becomes(i, [Fresh EXCEPT !.step = "paced", !.wait = MinInterval - sinceFire])
        /\ UNCHANGED <<sinceFire, firstAge>>
  /\ UNCHANGED <<process, lock, index, kept, faults>> /\ Unchanged

(* The lock is taken: the task fires, or sleeps with it for what is left   *)
(* of the interval.                                                        *)
Acquire(i) ==
  /\ process = "running" /\ task[i].step = "lock" /\ lock = None
  /\ \/ /\ sinceFire >= MinInterval
        /\ sinceFire' = 0 /\ Posts(i, 1) /\ UNCHANGED lock
     \/ /\ sinceFire < MinInterval
        /\ Becomes(i, [Fresh EXCEPT !.step = "paced", !.wait = MinInterval - sinceFire])
        /\ lock' = i /\ UNCHANGED <<sinceFire, firstAge>>
  /\ UNCHANGED <<process, index, kept, faults>> /\ Unchanged

(* Mutant: the lock is not released. *)
FireHolding(i) ==
  /\ process = "running" /\ task[i].step = "paced" /\ task[i].wait = 0
  /\ sinceFire' = 0 /\ Posts(i, 1)
  /\ UNCHANGED <<process, lock, index, kept, faults>> /\ Unchanged

Fire(i) ==
  /\ process = "running" /\ task[i].step = "paced" /\ task[i].wait = 0
  /\ lock' = None /\ sinceFire' = 0 /\ Posts(i, 1)
  /\ UNCHANGED <<process, index, kept, faults>> /\ Unchanged

-----------------------------------------------------------------------------
(* What comes back of a POST: no response, a 429 whose retry-after is a    *)
(* number (or missing) or a date, another HTTP error, a body that is not   *)
(* JSON, JSON without the list of choices or with an empty one, or a text. *)
Responses == {"unreachable", "429", "429 date", "error", "not JSON", "no list", "empty list",
              "text"}

(* What each provider makes of it; whatever callouts a text has, or has    *)
(* not, are a result, and so is for Groq and Ollama what lacks the text.   *)
GroqOutcome(r) ==
  CASE r \in {"429", "429 date"} -> "again"
    [] r \in {"not JSON", "empty list"} -> "raises"
    [] r \in {"unreachable", "error"} -> "null"
    [] r \in {"no list", "text"} -> "result"
OpenRouterOutcome(r) ==
  CASE r \in {"429", "429 date"} -> "again"
    [] r = "not JSON" -> "raises"
    [] r \in {"unreachable", "error", "no list", "empty list"} -> "null"
    [] r = "text" -> "result"
GeminiOutcome(r) ==
  CASE r = "429" -> "again"
    [] r \in {"429 date", "not JSON"} -> "raises"
    [] r \in {"unreachable", "error", "no list", "empty list"} -> "null"
    [] r = "text" -> "result"
OllamaOutcome(r) ==
  CASE r = "not JSON" -> "raises"
    [] r \in {"unreachable", "429", "429 date", "error"} -> "null"
    [] r \in {"no list", "empty list", "text"} -> "result"

Outcome(r) == CASE upstream = "groq" -> GroqOutcome(r)
                [] upstream = "openrouter" -> OpenRouterOutcome(r)
                [] upstream = "gemini" -> GeminiOutcome(r)
                [] upstream = "ollama" -> OllamaOutcome(r)
Back(i, outcome) == /\ process = "running" /\ task[i].step = "post"
                    /\ \E r \in Responses : Outcome(r) = outcome

Null(i) ==
  /\ Back(i, "null")
  /\ Answers(i, None)
  /\ UNCHANGED <<process, pacing, index, kept, faults, firstAge>> /\ Unchanged

(* The back-off, after the last attempt too. *)
TooMany(i) ==
  /\ Back(i, "again")
  /\ \E wait \in Waits :
       Becomes(i, [task[i] EXCEPT !.step = "backoff", !.wait = wait])
  /\ UNCHANGED <<process, pacing, index, kept, faults, firstAge>> /\ Unchanged

Retry(i) ==
  /\ process = "running" /\ task[i].step = "backoff" /\ task[i].wait = 0
  /\ \/ task[i].attempt < MaxRetries /\ Posts(i, task[i].attempt + 1)
     \/ task[i].attempt = MaxRetries /\ Answers(i, None) /\ UNCHANGED firstAge
  /\ UNCHANGED <<process, pacing, index, kept, faults>> /\ Unchanged

(* Callouts, or none at all, which is an answer as well: it is kept, in    *)
(* memory even if the file cannot be written.                              *)
Result(i, n) ==
  /\ Back(i, "result")
  /\ Answers(i, n)
  /\ index' = [index EXCEPT ![i] = n]
  /\ \/ kept' = [kept EXCEPT ![i] = n] /\ UNCHANGED faults
     \/ faults < MaxFaults /\ faults' = faults + 1 /\ UNCHANGED kept
  /\ UNCHANGED <<process, pacing, firstAge>> /\ Unchanged

(* The exception leaves gather, and the other tasks are cancelled. *)
Raises(i) ==
  /\ Back(i, "raises")
  /\ process' = "raised"
  /\ UNCHANGED <<task, pacing, index, kept, faults, firstAge>> /\ Unchanged

(* All tasks are answered: the results are written. *)
Write ==
  /\ process = "running" /\ \A i \in Tasks : task[i].step = "done"
  /\ results' = [i \in Tasks |-> task[i].answer]
  /\ process' = "written"
  /\ UNCHANGED <<config, task, pacing, index, kept, runs, faults, firstAge>>

-----------------------------------------------------------------------------
Kill ==
  /\ process = "running" /\ process' = "killed"
  /\ UNCHANGED <<config, task, pacing, index, kept, results, runs, faults, firstAge>>

(* Mutant: the cache file is not loaded. *)
RerunEmpty ==
  /\ process # "running" /\ runs < MaxRuns
  /\ process' = "running" /\ runs' = runs + 1
  /\ upstream' \in Upstreams /\ keyed' \in BOOLEAN
  /\ task' = [i \in Tasks |-> Fresh]
  /\ lock' = None /\ sinceFire' = MinInterval
  /\ index' = [i \in Tasks |-> None]
  /\ firstAge' = MinInterval
  /\ UNCHANGED <<kept, results, faults>>

(* The script is run again, maybe with another provider. *)
Rerun ==
  /\ process # "running" /\ runs < MaxRuns
  /\ process' = "running" /\ runs' = runs + 1
  /\ upstream' \in Upstreams /\ keyed' \in BOOLEAN
  /\ task' = [i \in Tasks |-> Fresh]
  /\ lock' = None /\ sinceFire' = MinInterval
  /\ index' = kept
  /\ firstAge' = MinInterval
  /\ UNCHANGED <<kept, results, faults>>

Tick ==
  /\ process = "running"
  /\ task' = [i \in Tasks |-> [task[i] EXCEPT !.wait = IF @ > 0 THEN @ - 1 ELSE 0]]
  /\ sinceFire' = Capped(sinceFire)
  /\ firstAge' = Capped(firstAge)
  /\ UNCHANGED <<config, process, lock, index, kept, results, runs, faults>>

Proceed(i) == \/ Enter(i) \/ Acquire(i) \/ Fire(i)
              \/ Null(i) \/ TooMany(i) \/ Raises(i) \/ (\E n \in Counts : Result(i, n))
              \/ Retry(i)

Next == (\E i \in Tasks : Proceed(i)) \/ Write \/ Kill \/ Rerun \/ Tick

(* The event loop runs every task that can run, POSTs time out, and time   *)
(* passes.                                                                 *)
Spec == Init /\ [][Next]_vars /\ WF_vars(Tick) /\ WF_vars(Write)
          /\ \A i \in Tasks : WF_vars(Proceed(i))

-----------------------------------------------------------------------------
(* Properties.                                                             *)

(* Types.  A task has made at most MaxRetries attempts, and no age counts   *)
(* beyond the interval.                                                    *)
StepNames  == {"queued", "lock", "paced", "post", "backoff", "done"}
Answered   == Counts \cup {None}
TaskRecord == [step : StepNames, wait : Nat, attempt : 0 .. MaxRetries, answer : Answered]

TypeOK ==
  /\ upstream \in Upstreams /\ keyed \in BOOLEAN
  /\ process \in {"running", "written", "raised", "killed"}
  /\ task \in [Tasks -> TaskRecord] /\ lock \in Tasks \cup {None}
  /\ sinceFire \in 0 .. MinInterval /\ firstAge \in 0 .. MinInterval
  /\ index \in [Tasks -> Answered] /\ kept \in [Tasks -> Answered]
  /\ results \in [Tasks -> Answered] \cup {None}
  /\ runs \in Nat /\ faults \in 0 .. MaxFaults

(* With pacing, no task makes its first attempt within MinInterval of       *)
(* another's, however they queue for the lock and whenever they wake up    *)
(* (groq_vision.py:120-129, openrouter_vision.py:119, gemini_vision.py).   *)
FirstCallsSpaced ==
  [][\A i \in Tasks : task[i].step \in {"queued", "lock", "paced"}
                        /\ task'[i].step = "post" /\ Paced
                        => firstAge >= MinInterval]_vars

(* What the results file says of an image is what every later run says, be *)
(* it with another provider or after one that raised or was killed         *)
(* (cached.py:58, vision_extract_all.py:139); a null may still be answered. *)
ResultsAreKept ==
  results # None /\ faults = 0 =>
    \A i \in Tasks : results[i] # None => /\ kept[i] = results[i]
                                          /\ task[i].answer \in {None, results[i]}

(* Neither the semaphore, nor the lock, nor the sleeps keep a run from     *)
(* ending (vision_extract_all.py:129-139).                                 *)
RunsEnd == process = "running" ~> process # "running"

=============================================================================
