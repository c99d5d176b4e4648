--------------------------- MODULE VisionCallsProofs ---------------------------
(***************************************************************************)
(* Theorems about VisionCalls, for every number of images, slots of the    *)
(* semaphore, interval, back-off and rerun: attempts are bounded, first    *)
(* calls are spaced, and what a run has written is what every later run    *)
(* answers.                                                                *)
(*                                                                         *)
(* The last two are proved from invariants of their own over TypeOK.       *)
(* PaceInv says that only the holder of the lock sleeps before its first   *)
(* call, long enough to fill the interval; KeepInv ties tasks, the index   *)
(* in memory, the cache file and the results to one another.               *)
(***************************************************************************)
EXTENDS VisionCalls, TLAPS

PaceInv ==
  /\ Paced => firstAge >= sinceFire
  /\ \A i \in Tasks : task[i].step = "paced" =>
       lock = i /\ sinceFire + task[i].wait >= MinInterval
  /\ \A i \in Tasks : task[i].step \in {"post", "backoff"} => task[i].attempt >= 1

KeepInv ==
  /\ faults = 0 => kept = index
  /\ \A i \in Tasks : task[i].answer # None => index[i] = task[i].answer
  /\ \A i \in Tasks : task[i].step \in {"lock", "paced", "post", "backoff"} => index[i] = None
  /\ results # None /\ faults = 0 =>
       \A i \in Tasks : results[i] # None => kept[i] = results[i]

-----------------------------------------------------------------------------
LEMMA FreshIsRecord == Fresh \in TaskRecord
BY VisionCallsAssumption DEF Fresh, TaskRecord, StepNames, Answered

(* What Posts and Answers do to the tasks. *)
LEMMA PostsLemma ==
  ASSUME TypeOK, NEW i \in Tasks, NEW n \in Nat, Posts(i, n)
  PROVE  /\ task'[i].step = "post" /\ task'[i].attempt = n /\ task'[i].answer = None
         /\ \A j \in Tasks : j # i => task'[j] = task[j]
         /\ firstAge' = IF n = 1 THEN 0 ELSE firstAge
BY DEF TypeOK, Posts, Becomes, Fresh

LEMMA AnswersLemma ==
  ASSUME TypeOK, NEW i \in Tasks, NEW a, Answers(i, a)
  PROVE  /\ task'[i].step = "done" /\ task'[i].answer = a
         /\ \A j \in Tasks : j # i => task'[j] = task[j]
BY DEF TypeOK, Answers, Becomes, Fresh

LEMMA TypeInit == Init => TypeOK
<1>1. /\ Fresh \in TaskRecord /\ MinInterval \in Nat /\ MaxFaults \in Nat
      /\ None \in Answered
  BY FreshIsRecord, VisionCallsAssumption DEF Answered
<1>2. QED
  BY <1>1 DEF Init, TypeOK

LEMMA TypeStep == TypeOK /\ [Next]_vars => TypeOK'
<1> SUFFICES ASSUME TypeOK, [Next]_vars PROVE TypeOK'
  OBVIOUS
<1> USE DEF TypeOK
<1>0. /\ MinInterval \in Nat /\ MaxRetries \in Nat \ {0} /\ MaxFaults \in Nat
      /\ Waits \subseteq Nat /\ Counts \subseteq Answered /\ None \in Answered
      /\ Fresh \in TaskRecord
  BY VisionCallsAssumption, FreshIsRecord DEF Answered
<1>1. ASSUME NEW i \in Tasks, NEW n \in 1 .. MaxRetries, Posts(i, n)
      PROVE task' \in [Tasks -> TaskRecord] /\ firstAge' \in 0 .. MinInterval
  <2>1. n \in 0 .. MaxRetries /\ 0 \in 0 .. MaxRetries
    BY <1>0
  <2>2. [Fresh EXCEPT !.step = "post", !.attempt = n] \in TaskRecord
    BY <1>0, <2>1 DEF Fresh, TaskRecord, StepNames
  <2>3. QED
    BY <1>0, <1>1, <2>2 DEF Posts, Becomes
<1>2. ASSUME NEW i \in Tasks, NEW n \in Answered, Answers(i, n)
      PROVE task' \in [Tasks -> TaskRecord]
  <2>1. [Fresh EXCEPT !.step = "done", !.answer = n] \in TaskRecord
    BY <1>0 DEF Fresh, TaskRecord, StepNames
  <2>2. QED
    BY <1>2, <2>1 DEF Answers, Becomes
<1>3. ASSUME NEW i \in Tasks, Enter(i) PROVE TypeOK'
  <2>1. task' \in [Tasks -> TaskRecord] /\ firstAge' \in 0 .. MinInterval
    <3>1. CASE (\E n \in Answered : Answers(i, n)) /\ UNCHANGED firstAge
      BY <1>2, <3>1
    <3>2. CASE Becomes(i, [Fresh EXCEPT !.step = "lock"]) /\ UNCHANGED firstAge
      <4>1. [Fresh EXCEPT !.step = "lock"] \in TaskRecord
        BY <1>0 DEF Fresh, TaskRecord, StepNames
      <4>2. QED
        BY <3>2, <4>1 DEF Becomes
    <3>3. CASE Posts(i, 1)
      BY <1>0, <1>1, <3>3
    <3>4. QED
      BY <1>0, <1>3, <3>1, <3>2, <3>3 DEF Enter
  <2>2. QED
    BY <1>3, <2>1 DEF Enter, Unchanged, pacing, config
<1>4. ASSUME NEW i \in Tasks, Acquire(i) PROVE TypeOK'
  <2>1. UNCHANGED <<config, process, index, kept, results, runs, faults>>
    BY <1>4 DEF Acquire, Unchanged
  <2>2. CASE sinceFire' = 0 /\ Posts(i, 1) /\ UNCHANGED lock
    BY <1>0, <1>1, <2>1, <2>2 DEF config
  <2>3. CASE /\ sinceFire < MinInterval
             /\ Becomes(i, [Fresh EXCEPT !.step = "paced", !.wait = MinInterval - sinceFire])
             /\ lock' = i /\ UNCHANGED <<sinceFire, firstAge>>
    <3>1. MinInterval - sinceFire \in Nat
      BY <1>0, <2>3
    <3>2. [Fresh EXCEPT !.step = "paced", !.wait = MinInterval - sinceFire] \in TaskRecord
      BY <1>0, <3>1 DEF Fresh, TaskRecord, StepNames
    <3>3. task' \in [Tasks -> TaskRecord]
      BY <2>3, <3>2 DEF Becomes
    <3>4. QED
      BY <2>1, <2>3, <3>3 DEF config
  <2>4. QED
    BY <1>4, <2>2, <2>3 DEF Acquire
<1>5. ASSUME NEW i \in Tasks, Fire(i) PROVE TypeOK'
  <2>1. task' \in [Tasks -> TaskRecord] /\ firstAge' \in 0 .. MinInterval
    BY <1>0, <1>1, <1>5 DEF Fire
  <2>2. QED
    BY <1>0, <1>5, <2>1 DEF Fire, Unchanged, config
<1>6. ASSUME NEW i \in Tasks, Null(i) PROVE TypeOK'
  <2>1. task' \in [Tasks -> TaskRecord]
    BY <1>0, <1>2, <1>6 DEF Null
  <2>2. QED
    BY <1>6, <2>1 DEF Null, Unchanged, pacing, config
<1>7. ASSUME NEW i \in Tasks, TooMany(i) PROVE TypeOK'
  <2>1. PICK wait \in Waits : Becomes(i, [task[i] EXCEPT !.step = "backoff", !.wait = wait])
    BY <1>7 DEF TooMany
  <2>2. [task[i] EXCEPT !.step = "backoff", !.wait = wait] \in TaskRecord
    BY <1>0 DEF TaskRecord, StepNames
  <2>3. task' \in [Tasks -> TaskRecord]
    BY <2>1, <2>2 DEF Becomes
  <2>4. QED
    BY <1>7, <2>3 DEF TooMany, Unchanged, pacing, config
<1>8. ASSUME NEW i \in Tasks, Retry(i) PROVE TypeOK'
  <2>1. task' \in [Tasks -> TaskRecord] /\ firstAge' \in 0 .. MinInterval
    <3>1. CASE task[i].attempt < MaxRetries /\ Posts(i, task[i].attempt + 1)
      <4>1. task[i].attempt \in 0 .. MaxRetries
        BY DEF TaskRecord
      <4>2. task[i].attempt + 1 \in 1 .. MaxRetries
        BY <1>0, <3>1, <4>1
      <4>3. QED
        BY <1>1, <3>1, <4>2
    <3>2. CASE Answers(i, None) /\ UNCHANGED firstAge
      BY <1>0, <1>2, <3>2
    <3>3. QED
      BY <1>8, <3>1, <3>2 DEF Retry
  <2>2. QED
    BY <1>8, <2>1 DEF Retry, Unchanged, pacing, config
<1>9. ASSUME NEW i \in Tasks, NEW n \in Counts, Result(i, n) PROVE TypeOK'
  <2>1. task' \in [Tasks -> TaskRecord]
    BY <1>0, <1>2, <1>9 DEF Result
  <2>2. index' \in [Tasks -> Answered] /\ kept' \in [Tasks -> Answered]
    BY <1>0, <1>9 DEF Result
  <2>3. faults' \in 0 .. MaxFaults
    BY <1>0, <1>9 DEF Result
  <2>4. QED
    BY <1>9, <2>1, <2>2, <2>3 DEF Result, Unchanged, pacing, config
<1>10. ASSUME NEW i \in Tasks, Raises(i) PROVE TypeOK'
  BY <1>10 DEF Raises, Unchanged, pacing, config
<1>11. ASSUME Write PROVE TypeOK'
  <2>1. \A i \in Tasks : task[i].answer \in Answered
    BY DEF TaskRecord
  <2>2. results' \in [Tasks -> Answered]
    BY <1>11, <2>1 DEF Write
  <2>3. QED
    BY <1>11, <2>2 DEF Write, pacing, config
<1>12. ASSUME Kill PROVE TypeOK'
  BY <1>12 DEF Kill, pacing, config
<1>13. ASSUME Rerun PROVE TypeOK'
  BY <1>0, <1>13 DEF Rerun
<1>14. ASSUME Tick PROVE TypeOK'
  <2>1. ASSUME NEW i \in Tasks
        PROVE [task[i] EXCEPT !.wait = IF @ > 0 THEN @ - 1 ELSE 0] \in TaskRecord
    BY DEF TaskRecord
  <2>2. task' \in [Tasks -> TaskRecord]
    BY <1>14, <2>1 DEF Tick
  <2>3. sinceFire' \in 0 .. MinInterval /\ firstAge' \in 0 .. MinInterval
    BY <1>0, <1>14 DEF Tick, Capped
  <2>4. QED
    BY <1>14, <2>2, <2>3 DEF Tick, config
<1>15. CASE UNCHANGED vars
  BY <1>15 DEF vars, pacing, config
<1>16. QED
  BY <1>3, <1>4, <1>5, <1>6, <1>7, <1>8, <1>9, <1>10, <1>11, <1>12, <1>13, <1>14, <1>15
  DEF Next, Proceed

(* Whatever provider answers, and however the runs end, no task makes more *)
(* than MaxRetries attempts (groq_vision.py:133-163), only tasks hold the  *)
(* lock, and the files hold answers.                                       *)
THEOREM CallsTyped == Spec => []TypeOK
BY TypeInit, TypeStep, PTL DEF Spec

-----------------------------------------------------------------------------
(* The lock and the ages.                                                  *)

LEMMA PaceInit == Init => PaceInv
BY VisionCallsAssumption DEF Init, PaceInv, Fresh

LEMMA PaceStep == TypeOK /\ TypeOK' /\ PaceInv /\ [Next]_vars => PaceInv'
<1> SUFFICES ASSUME TypeOK, TypeOK', PaceInv, [Next]_vars PROVE PaceInv'
  OBVIOUS
<1> USE DEF TypeOK, PaceInv
<1>0. MinInterval \in Nat /\ None \notin Tasks
  BY VisionCallsAssumption
<1>1. ASSUME NEW i \in Tasks, Enter(i) PROVE PaceInv'
  <2>1. UNCHANGED <<upstream, lock, sinceFire>>
    BY <1>1 DEF Enter, Unchanged, config, pacing
  <2>2. CASE UNCHANGED firstAge /\ \E a : Answers(i, a)
    BY <2>1, <2>2, AnswersLemma DEF Paced
  <2>3. CASE UNCHANGED firstAge /\ Becomes(i, [Fresh EXCEPT !.step = "lock"])
    BY <2>1, <2>3 DEF Becomes, Fresh, Paced
  <2>4. CASE ~Paced /\ Posts(i, 1)
    BY <2>1, <2>4, PostsLemma DEF Paced
  <2>5. QED
    BY <1>1, <2>2, <2>3, <2>4 DEF Enter
<1>2. ASSUME NEW i \in Tasks, Acquire(i) PROVE PaceInv'
  <2>1. UNCHANGED upstream /\ lock = None
    BY <1>2 DEF Acquire, Unchanged, config
  <2>2. \A j \in Tasks : task[j].step # "paced"
    BY <1>0, <2>1
  <2>3. CASE sinceFire' = 0 /\ Posts(i, 1)
    BY <2>1, <2>2, <2>3, PostsLemma DEF Paced
  <2>4. CASE /\ sinceFire < MinInterval
             /\ Becomes(i, [Fresh EXCEPT !.step = "paced", !.wait = MinInterval - sinceFire])
             /\ lock' = i /\ UNCHANGED <<sinceFire, firstAge>>
    <3>1. task'[i].step = "paced" /\ task'[i].wait = MinInterval - sinceFire
      BY <2>4 DEF Becomes, Fresh
    <3>2. \A j \in Tasks : j # i => task'[j] = task[j]
      BY <2>4 DEF Becomes
    <3>3. QED
      BY <1>0, <2>1, <2>2, <2>4, <3>1, <3>2 DEF Paced
  <2>5. QED
    BY <1>2, <2>3, <2>4 DEF Acquire
<1>3. ASSUME NEW i \in Tasks, Fire(i) PROVE PaceInv'
  BY <1>0, <1>3 DEF Fire, Becomes, Posts, Fresh, Unchanged, config, Paced
<1>4. ASSUME NEW i \in Tasks, Null(i) PROVE PaceInv'
  BY <1>4 DEF Null, Answers, Becomes, Fresh, Unchanged, config, pacing, Paced
<1>5. ASSUME NEW i \in Tasks, TooMany(i) PROVE PaceInv'
  BY <1>5 DEF TooMany, Back, Becomes, Unchanged, config, pacing, Paced, TaskRecord
<1>6. ASSUME NEW i \in Tasks, Retry(i) PROVE PaceInv'
  <2>1. /\ task[i].attempt \in Nat /\ task[i].attempt + 1 \in Nat
        /\ task[i].attempt + 1 > 1 /\ task[i].attempt + 1 # 1
    BY <1>6 DEF Retry, TaskRecord
  <2>2. UNCHANGED <<upstream, lock, sinceFire>>
    BY <1>6 DEF Retry, Unchanged, config, pacing
  <2>3. CASE Posts(i, task[i].attempt + 1)
    BY <2>1, <2>2, <2>3, PostsLemma DEF Paced
  <2>4. CASE Answers(i, None) /\ UNCHANGED firstAge
    BY <2>2, <2>4, AnswersLemma DEF Paced
  <2>5. QED
    BY <1>6, <2>3, <2>4 DEF Retry
<1>7. ASSUME NEW i \in Tasks, NEW n \in Counts, Result(i, n) PROVE PaceInv'
  BY <1>7 DEF Result, Answers, Becomes, Fresh, Unchanged, config, pacing, Paced
<1>8. ASSUME Tick PROVE PaceInv'
  <2>1. ASSUME NEW i \in Tasks
        PROVE  /\ task'[i].step = task[i].step
               /\ task'[i].attempt = task[i].attempt
               /\ task'[i].wait = IF task[i].wait > 0 THEN task[i].wait - 1 ELSE 0
               /\ task[i].wait \in Nat
    <3>1. task[i] \in TaskRecord
      OBVIOUS
    <3>2. task'[i] = [task[i] EXCEPT !.wait = IF @ > 0 THEN @ - 1 ELSE 0]
      BY <1>8 DEF Tick
    <3>3. QED
      BY <3>1, <3>2 DEF TaskRecord
  <2>2. UNCHANGED <<upstream, lock>>
    BY <1>8 DEF Tick, config
  <2>3. /\ sinceFire' = IF sinceFire < MinInterval THEN sinceFire + 1 ELSE sinceFire
        /\ firstAge' = IF firstAge < MinInterval THEN firstAge + 1 ELSE firstAge
    BY <1>8 DEF Tick, Capped
  <2>4. (Paced => firstAge >= sinceFire)'
    BY <1>0, <2>2, <2>3 DEF Paced
  <2>5. ASSUME NEW i \in Tasks, task'[i].step = "paced"
        PROVE  lock' = i /\ sinceFire' + task'[i].wait >= MinInterval
    <3>1. lock = i /\ sinceFire + task[i].wait >= MinInterval
      BY <2>1, <2>5
    <3>2. QED
      BY <1>0, <2>1, <2>2, <2>3, <3>1
  <2>6. QED
    BY <2>1, <2>4, <2>5
<1>9. ASSUME Rerun PROVE PaceInv'
  BY <1>0, <1>9 DEF Rerun, Fresh, Paced
<1>10. ASSUME UNCHANGED <<config, task, pacing, firstAge>> PROVE PaceInv'
  BY <1>10 DEF config, pacing, Paced
<1>11. QED
  BY <1>1, <1>2, <1>3, <1>4, <1>5, <1>6, <1>7, <1>8, <1>9, <1>10
  DEF Next, Proceed, Raises, Write, Kill, Unchanged, vars, pacing, config

(* A first call is made by Acquire after the interval, by the holder of    *)
(* the lock when it wakes up, or without pacing.                           *)
LEMMA SpacedStep ==
  ASSUME TypeOK, PaceInv, [Next]_vars, NEW i \in Tasks, Paced,
         task[i].step \in {"queued", "lock", "paced"}, task'[i].step = "post"
  PROVE  firstAge >= MinInterval
<1> USE DEF TypeOK, PaceInv
<1>0. MinInterval \in Nat
  BY VisionCallsAssumption
<1>1. ASSUME NEW j \in Tasks, Enter(j) PROVE FALSE
  BY <1>1 DEF Enter, Answers, Becomes, Posts, Fresh
<1>2. ASSUME NEW j \in Tasks, Acquire(j) PROVE firstAge >= MinInterval
  <2>1. CASE sinceFire >= MinInterval
    BY <1>0, <2>1
  <2>2. CASE Becomes(j, [Fresh EXCEPT !.step = "paced", !.wait = MinInterval - sinceFire])
    BY <2>2 DEF Becomes, Fresh
  <2>3. QED
    BY <1>2, <2>1, <2>2 DEF Acquire
<1>3. ASSUME NEW j \in Tasks, Fire(j) PROVE firstAge >= MinInterval
  BY <1>0, <1>3 DEF Fire, Becomes, Posts, Fresh
<1>4. ASSUME NEW j \in Tasks, Null(j) PROVE FALSE
  BY <1>4 DEF Null, Answers, Becomes, Fresh
<1>5. ASSUME NEW j \in Tasks, TooMany(j) PROVE FALSE
  BY <1>5 DEF TooMany, Becomes, TaskRecord
<1>6. ASSUME NEW j \in Tasks, Retry(j) PROVE FALSE
  BY <1>6 DEF Retry, Answers, Becomes, Posts, Fresh
<1>7. ASSUME NEW j \in Tasks, NEW n \in Counts, Result(j, n) PROVE FALSE
  BY <1>7 DEF Result, Answers, Becomes, Fresh
<1>8. ASSUME Tick PROVE FALSE
  BY <1>8 DEF Tick, TaskRecord
<1>9. ASSUME Rerun PROVE FALSE
  BY <1>9 DEF Rerun, Fresh
<1>10. ASSUME UNCHANGED task PROVE FALSE
  BY <1>10
<1>11. QED
  BY <1>1, <1>2, <1>3, <1>4, <1>5, <1>6, <1>7, <1>8, <1>9, <1>10
  DEF Next, Proceed, Raises, Write, Kill, Unchanged, vars

(* Two first calls of a paced provider are MinInterval apart, for every     *)
(* number of images, every concurrency and every interval, whoever waits    *)
(* for the lock and however late a sleeper wakes up                        *)
(* (groq_vision.py:120-129, openrouter_vision.py:119, gemini_vision.py).   *)
THEOREM CallsSpaced == Spec => FirstCallsSpaced
<1>1. Init => TypeOK /\ PaceInv
  BY TypeInit, PaceInit
<1>2. TypeOK /\ PaceInv /\ [Next]_vars => (TypeOK /\ PaceInv)'
  BY TypeStep, PaceStep
<1>3. TypeOK /\ PaceInv /\ [Next]_vars =>
        [\A i \in Tasks : task[i].step \in {"queued", "lock", "paced"}
                          /\ task'[i].step = "post" /\ Paced
                          => firstAge >= MinInterval]_vars
  BY SpacedStep
<1>4. QED
  BY <1>1, <1>2, <1>3, PTL DEF Spec, FirstCallsSpaced

-----------------------------------------------------------------------------
(* The cache and the results.                                              *)

LEMMA KeepInit == Init => KeepInv
BY DEF Init, KeepInv, Fresh

LEMMA KeepStep == TypeOK /\ KeepInv /\ [Next]_vars => KeepInv'
<1> SUFFICES ASSUME TypeOK, KeepInv, [Next]_vars PROVE KeepInv'
  OBVIOUS
<1> USE DEF TypeOK, KeepInv
<1>1. ASSUME NEW i \in Tasks, Enter(i) PROVE KeepInv'
  <2>1. UNCHANGED <<index, kept, faults, results>>
    BY <1>1 DEF Enter, Unchanged
  <2>2. CASE Answers(i, index[i]) \/ Answers(i, None)
    BY <2>1, <2>2, AnswersLemma
  <2>3. CASE index[i] = None /\ Becomes(i, [Fresh EXCEPT !.step = "lock"])
    BY <2>1, <2>3 DEF Becomes, Fresh
  <2>4. CASE index[i] = None /\ Posts(i, 1)
    BY <2>1, <2>4, PostsLemma
  <2>5. QED
    BY <1>1, <2>2, <2>3, <2>4 DEF Enter
<1>2. ASSUME NEW i \in Tasks, Acquire(i) PROVE KeepInv'
  BY ZenonT(30), <1>2 DEF Acquire, Becomes, Posts, Fresh, Unchanged
<1>3. ASSUME NEW i \in Tasks, Fire(i) PROVE KeepInv'
  BY <1>3 DEF Fire, Becomes, Posts, Fresh, Unchanged
<1>4. ASSUME NEW i \in Tasks, Null(i) PROVE KeepInv'
  BY <1>4 DEF Null, Answers, Becomes, Fresh, Unchanged
<1>5. ASSUME NEW i \in Tasks, TooMany(i) PROVE KeepInv'
  BY <1>5 DEF TooMany, Back, Becomes, Unchanged, TaskRecord
<1>6. ASSUME NEW i \in Tasks, Retry(i) PROVE KeepInv'
  <2>1. UNCHANGED <<index, kept, faults, results>> /\ index[i] = None
    BY <1>6 DEF Retry, Unchanged
  <2>2. task[i].attempt + 1 \in Nat
    BY DEF TaskRecord
  <2>3. CASE Posts(i, task[i].attempt + 1)
    BY <2>1, <2>2, <2>3, PostsLemma
  <2>4. CASE Answers(i, None)
    BY <2>1, <2>4, AnswersLemma
  <2>5. QED
    BY <1>6, <2>3, <2>4 DEF Retry
<1>7. ASSUME NEW i \in Tasks, NEW n \in Counts, Result(i, n) PROVE KeepInv'
  <2>1. index[i] = None /\ task[i].step = "post"
    BY <1>7 DEF Result, Back
  <2>2. faults' = 0 => faults = 0 /\ kept' = index'
    BY <1>7 DEF Result
  <2>3. /\ task'[i].answer = n /\ task'[i].step = "done" /\ index'[i] = n
        /\ \A j \in Tasks : j # i => task'[j] = task[j] /\ index'[j] = index[j]
    BY <1>7, AnswersLemma DEF Result
  <2>4. results' = results
    BY <1>7 DEF Result, Unchanged
  <2>5. ASSUME results' # None, faults' = 0, NEW j \in Tasks, results'[j] # None
        PROVE  kept'[j] = results'[j]
    <3>1. kept[j] = results[j] /\ j # i
      BY <2>1, <2>2, <2>4, <2>5
    <3>2. QED
      BY <1>7, <2>2, <2>4, <2>5, <3>1 DEF Result
  <2>6. (results # None /\ faults = 0 =>
           \A j \in Tasks : results[j] # None => kept[j] = results[j])'
    BY <2>5
  <2>7. (faults = 0 => kept = index)'
    BY <2>2
  <2>8. ASSUME NEW j \in Tasks
        PROVE  /\ task'[j].answer # None => index'[j] = task'[j].answer
               /\ task'[j].step \in {"lock", "paced", "post", "backoff"} => index'[j] = None
    BY <2>3
  <2>9. QED
    BY <2>6, <2>7, <2>8
<1>8. ASSUME Tick PROVE KeepInv'
  <2>1. \A i \in Tasks : task'[i].step = task[i].step /\ task'[i].answer = task[i].answer
    BY <1>8 DEF Tick, TaskRecord
  <2>2. QED
    BY <1>8, <2>1 DEF Tick
<1>9. ASSUME Rerun PROVE KeepInv'
  BY <1>9 DEF Rerun, Fresh
<1>10. ASSUME Write PROVE KeepInv'
  BY <1>10 DEF Write
<1>11. ASSUME UNCHANGED <<task, index, kept, faults, results>> PROVE KeepInv'
  BY <1>11
<1>12. QED
  BY <1>1, <1>2, <1>3, <1>4, <1>5, <1>6, <1>7, <1>8, <1>9, <1>10, <1>11
  DEF Next, Proceed, Raises, Kill, Unchanged, vars

(* While the cache file can be written, what a results file says of an     *)
(* image is in the cache and is what every later run answers, with        *)
(* whichever provider and after whatever ended the runs between            *)
(* (cached.py:58, vision_extract_all.py:139).                              *)
THEOREM ResultsKept == Spec => []ResultsAreKept
<1>1. Init => TypeOK /\ KeepInv
  BY TypeInit, KeepInit
<1>2. TypeOK /\ KeepInv /\ [Next]_vars => (TypeOK /\ KeepInv)'
  BY TypeStep, KeepStep
<1>3. KeepInv => ResultsAreKept
  BY DEF KeepInv, ResultsAreKept
<1>4. QED
  BY <1>1, <1>2, <1>3, PTL DEF Spec

=============================================================================
