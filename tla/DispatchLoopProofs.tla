------------------------- MODULE DispatchLoopProofs -------------------------
(***************************************************************************)
(* Theorems about the dispatch loop for any number of bindings, processes, *)
(* loads, saves and faults: its type, that a recorded hash was queued, and *)
(* that overlapping loops load an unchanged file once.                     *)
(***************************************************************************)
EXTENDS DispatchLoop, WellFoundedInduction, TLAPS

-----------------------------------------------------------------------------
(* The job table.                                                           *)

(* Only the job of `e' changes, and it keeps its binding. *)
Changed(old, new, e) ==
  /\ new \in [DOMAIN old -> Job] /\ new[e].data = old[e].data
  /\ \A i \in DOMAIN old : i # e => new[i] = old[i]

LEMMA ClaimLemma ==
  ASSUME NEW table, table \in [DOMAIN table -> Job], NEW e \in DOMAIN table, NEW s \in Slots
  PROVE  LET new == Claim(table, e, s) IN
         Changed(table, new, e) /\ Holds(new, e, s)
BY DEF Claim, Changed, Holds, Job, JobStates

LEMMA FailLemma ==
  ASSUME NEW table, table \in [DOMAIN table -> Job], NEW e \in DOMAIN table, NEW s \in Slots,
         Holds(table, e, s)
  PROVE  Changed(table, FailAttempt(table, e, s), e)
<1>1. table[e] \in Job /\ table[e].tries + 1 \in Nat
  BY DEF Job
<1>2. \A st \in {"wait", "failed"}, n \in Nat :
        LET j == [table[e] EXCEPT !.st = st, !.tries = n, !.owner = None]
        IN  j \in Job /\ j.data = table[e].data
  BY <1>1 DEF Job, JobStates
<1>3. QED
  BY <1>1, <1>2 DEF FailAttempt, Changed

LEMMA CompleteLemma ==
  ASSUME NEW table, table \in [DOMAIN table -> Job], NEW e \in DOMAIN table, NEW s \in Slots,
         NEW ret \in Contents, Holds(table, e, s)
  PROVE  LET new == Complete(table, e, s, ret) IN
         Changed(table, new, e) /\ new[e].st = "completed"
BY DEF Complete, Changed, Job, JobStates

-----------------------------------------------------------------------------
(* The inductive invariant.  A loop that is about to record a hash has      *)
(* added the job under that very hash.  An id is the binding and the        *)
(* content the file had, so while no file is saved a binding has one id,    *)
(* and a slot that loads holds a job that has not completed.                *)

Pass == {"evaluate", "hash", "add", "update"}

ProcInv(p) == /\ p.step \in Pass => p.at \in Bindings
              /\ p.step \in {"add", "update"} =>
                   p.sha \in Contents /\ (saves = 0 => p.sha = disk[p.at])
              /\ p.step = "update" => <<p.at, p.sha>> \in queued

ReadInv(s) == reading[s] # None =>
                reading[s].job \in DOMAIN jobs /\ Holds(jobs, reading[s].job, s)

CompletedOf(b) == \E id \in DOMAIN jobs : id[1] = b /\ jobs[id].st = "completed"

DInv == /\ TypeOK
        /\ RecordedWasQueued
        /\ \A l \in Loops : ProcInv(loops[l])
        /\ \A id \in DOMAIN jobs : jobs[id].data = id[1]
        /\ \A s \in Slots : ReadInv(s)
        /\ saves = 0 => \A id \in DOMAIN jobs : id[2] = disk[id[1]]
        /\ saves = 0 /\ expired = 0 => \A b \in Bindings :
             loads[b] = 0 \/ (loads[b] = 1 /\ CompletedOf(b))

(* A step of one loop that adds no job. *)
LEMMA LoopStep ==
  ASSUME DInv, NEW l \in Loops, NEW p \in Process, ProcInv(p),
         loops' = [loops EXCEPT ![l] = p],
         UNCHANGED <<file, jobs, worker, queued, expired>>,
         last' \in [Bindings -> LastRun], explained' \subseteq Bindings,
         faults' \in 0 .. MaxFaults, RecordedWasQueued'
  PROVE  DInv'
<1>1. TypeOK'
  BY DEF DInv, TypeOK, file, worker
<1>2. ASSUME NEW q \in Process, ProcInv(q)  PROVE ProcInv(q)'
  BY <1>2 DEF ProcInv, file
<1>3. \A m \in Loops : loops'[m] \in Process /\ ProcInv(loops[m])'
  <2>1. ASSUME NEW m \in Loops  PROVE loops'[m] \in Process /\ ProcInv(loops[m])'
    <3>1. PICK q \in Process : q = loops'[m] /\ ProcInv(q)
      BY DEF DInv, TypeOK
    <3>2. QED
      BY <1>2, <3>1
  <2>2. QED
    BY <2>1
<1>5. \A b \in Bindings : CompletedOf(b)' <=> CompletedOf(b)
  BY DEF CompletedOf
<1>6. \A s \in Slots : ReadInv(s)'
  BY DEF DInv, ReadInv, worker
<1>7. QED
  BY <1>1, <1>3, <1>5, <1>6 DEF DInv, file, worker

LEMMA OffIsProcess == Off \in Process /\ ProcInv(Off)
BY DispatchAssumption DEF Off, NeverRan, Process, ProcInv, Pass, LastRun

(* On to the next binding or to the SKIPPED rows. *)
LEMMA NextLemma ==
  ASSUME DInv, NEW l \in Loops, loops[l].step \in Pass, NEW skips \in SUBSET Bindings,
         NextBinding(l, skips)
  PROVE  \E p \in Process : loops' = [loops EXCEPT ![l] = p] /\ ProcInv(p)
<1>1. loops[l] \in Process /\ loops[l].at \in Bindings /\ LastBinding \in Nat \ {0}
  BY DispatchAssumption DEF DInv, TypeOK, ProcInv
<1>2. CASE loops[l].at < LastBinding
  <2> DEFINE p == [loops[l] EXCEPT !.step = "evaluate", !.at = loops[l].at + 1,
                                   !.sha = None, !.skips = skips]
  <2>1. loops[l].at + 1 \in Bindings /\ loops[l].at + 1 \in 0 .. LastBinding
    BY <1>1, <1>2 DEF Bindings
  <2>2. p \in Process /\ p.step = "evaluate" /\ p.at = loops[l].at + 1
    BY <1>1, <2>1 DEF Process
  <2>3. loops' = [loops EXCEPT ![l] = p]
    BY <1>2 DEF NextBinding, BindingOf
  <2>4. QED
    BY <2>1, <2>2, <2>3 DEF ProcInv
<1>3. CASE ~(loops[l].at < LastBinding)
  <2> DEFINE p == [Off EXCEPT !.step = "audit", !.skips = skips]
  <2>1. p \in Process /\ p.step = "audit"
    BY OffIsProcess DEF Process
  <2>2. loops' = [loops EXCEPT ![l] = p]
    BY <1>3 DEF NextBinding, BindingOf
  <2>3. QED
    BY <2>1, <2>2 DEF ProcInv, Pass
<1>4. QED
  BY <1>2, <1>3

LEMMA StartKeeps ==
  ASSUME DInv, NEW l \in Loops, Start(l)  PROVE DInv'
<1> DEFINE p == [step |-> "evaluate", at |-> 1, rows |-> last, sha |-> None, skips |-> {}]
<1>1. 1 \in Bindings /\ 1 \in 0 .. LastBinding
  BY DispatchAssumption DEF Bindings
<1>2. p \in Process /\ ProcInv(p)
  BY <1>1 DEF Process, ProcInv, DInv, TypeOK
<1>3. QED
  BY <1>2, LoopStep DEF Start, DInv, TypeOK, RecordedWasQueued

LEMMA EvaluateKeeps ==
  ASSUME DInv, NEW l \in Loops, Evaluate(l)  PROVE DInv'
<1>1. loops[l] \in Process /\ loops[l].at \in Bindings /\ loops[l].step = "evaluate"
  BY DEF Evaluate, At, DInv, TypeOK, ProcInv, Pass
<1>2. \E p \in Process : loops' = [loops EXCEPT ![l] = p] /\ ProcInv(p)
  <2>1. CASE NextBinding(l, loops[l].skips \cup {BindingOf(l)})
    <3>1. loops[l].skips \cup {BindingOf(l)} \in SUBSET Bindings
      BY <1>1 DEF Process, BindingOf
    <3>2. QED
      BY <1>1, <2>1, <3>1, NextLemma DEF Pass
  <2>2. CASE loops' = [loops EXCEPT ![l].step = "hash"]
    <3> DEFINE p == [loops[l] EXCEPT !.step = "hash"]
    <3>1. p \in Process /\ p.step = "hash" /\ p.at = loops[l].at
      BY <1>1 DEF Process
    <3>2. QED
      BY <1>1, <2>2, <3>1 DEF ProcInv
  <2>3. QED
    BY <2>1, <2>2 DEF Evaluate
<1>3. QED
  BY <1>2, LoopStep DEF Evaluate, DInv, TypeOK, RecordedWasQueued

LEMMA HashKeeps ==
  ASSUME DInv, NEW l \in Loops, Hash(l)  PROVE DInv'
<1>1. loops[l] \in Process /\ loops[l].at \in Bindings /\ loops[l].step = "hash"
      /\ loops[l].skips \in SUBSET Bindings
  BY DEF Hash, At, DInv, TypeOK, ProcInv, Pass, Process
<1>2. \E p \in Process : loops' = [loops EXCEPT ![l] = p] /\ ProcInv(p)
  <2>1. CASE NextBinding(l, loops[l].skips)
    BY <1>1, <2>1, NextLemma DEF Pass
  <2>2. CASE disk[BindingOf(l)] # None
             /\ loops' = [loops EXCEPT ![l].step = "add", ![l].sha = disk[BindingOf(l)]]
    <3> DEFINE p == [loops[l] EXCEPT !.step = "add", !.sha = disk[BindingOf(l)]]
    <3>1. disk[BindingOf(l)] \in Contents
      BY <1>1, <2>2 DEF DInv, TypeOK, BindingOf
    <3>2. p \in Process /\ p.step = "add" /\ p.at = loops[l].at /\ p.sha = disk[loops[l].at]
      BY <1>1, <3>1 DEF Process, BindingOf
    <3>3. ProcInv(p)
      BY <1>1, <3>1, <3>2 DEF ProcInv, BindingOf
    <3>4. loops' = [loops EXCEPT ![l] = p]
      BY <2>2
    <3>5. QED
      BY <3>2, <3>3, <3>4
  <2>3. QED
    BY <2>1, <2>2 DEF Hash
<1>3. QED
  BY <1>2, LoopStep DEF Hash, DInv, TypeOK, RecordedWasQueued

LEMMA UpdateKeeps ==
  ASSUME DInv, NEW l \in Loops, Update(l)  PROVE DInv'
<1>. PICK b \in Bindings : b = BindingOf(l)
  BY DEF Update, At, DInv, ProcInv, Pass, BindingOf
<1>. PICK c \in Contents : c = loops[l].sha
  BY DEF Update, At, DInv, ProcInv
<1>1. loops[l] \in Process /\ loops[l].step = "update" /\ <<b, c>> \in queued
      /\ loops[l].skips \in SUBSET Bindings
  BY DEF Update, At, DInv, TypeOK, ProcInv, Process, BindingOf
<1>2. \E p \in Process : loops' = [loops EXCEPT ![l] = p] /\ ProcInv(p)
  BY <1>1, NextLemma DEF Update, Pass
<1>3. now \in 0 .. MaxTime /\ last \in [Bindings -> LastRun]
  BY DEF DInv, TypeOK
<1>4. last' = [last EXCEPT ![b] = [sha |-> c, at |-> now]]
  BY DEF Update
<1>5. last' \in [Bindings -> LastRun]
  BY <1>3, <1>4 DEF LastRun
<1>6. RecordedWasQueued'
  BY <1>1, <1>3, <1>4 DEF Update, DInv, RecordedWasQueued
<1>7. QED
  BY <1>2, <1>5, <1>6, LoopStep DEF Update, DInv, TypeOK

(* The next row to be written is that of the least binding left. *)
LEMMA LeastBinding ==
  ASSUME NEW S \in SUBSET Bindings, S # {}
  PROVE  (CHOOSE b \in S : \A c \in S : b <= c) \in S
<1>0. IsWellFoundedOn(OpToRel(<, Nat), Nat)
  BY NatLessThanWellFounded
<1>1. S \subseteq Nat
  BY DEF Bindings
<1>2. PICK least \in S : \A u \in S : ~(<<u, least>> \in OpToRel(<, Nat))
  BY <1>0, <1>1, WFMin
<1>3. ASSUME NEW u \in S PROVE least <= u
  <2>1. u \in Nat /\ least \in Nat
    BY <1>1
  <2>2. ~(u < least)
    BY <1>2, <2>1 DEF OpToRel
  <2>3. QED
    BY <2>1, <2>2
<1>4. QED
  BY <1>3

LEMMA AuditKeeps ==
  ASSUME DInv, NEW l \in Loops, Audit(l)  PROVE DInv'
<1>1. loops[l] \in Process /\ loops[l].step = "audit" /\ loops[l].skips \in SUBSET Bindings
  BY DEF Audit, At, DInv, TypeOK, Process
<1>2. CASE loops[l].skips = {}
  BY <1>2, OffIsProcess, LoopStep DEF Audit, DInv, TypeOK, RecordedWasQueued
<1>3. CASE loops[l].skips # {}
  <2>1. PICK b \in loops[l].skips :
           /\ explained' = explained \cup {b}
           /\ loops' = [loops EXCEPT ![l].skips = @ \ {b}]
    BY <1>1, <1>3, LeastBinding DEF Audit
  <2> DEFINE p == [loops[l] EXCEPT !.skips = @ \ {b}]
  <2>2. p \in Process /\ p.step = "audit" /\ b \in Bindings
    BY <1>1, <2>1 DEF Process
  <2>3. ProcInv(p) /\ loops' = [loops EXCEPT ![l] = p]
    BY <2>1, <2>2 DEF ProcInv, Pass
  <2>4. QED
    BY ZenonT(30), <2>1, <2>2, <2>3, LoopStep DEF Audit, DInv, TypeOK, RecordedWasQueued
<1>4. QED
  BY <1>2, <1>3

LEMMA LoopFailsKeeps ==
  ASSUME DInv, NEW l \in Loops, LoopFails(l)  PROVE DInv'
<1>1. faults' \in 0 .. MaxFaults
  BY DispatchAssumption DEF LoopFails, DInv, TypeOK
<1>2. QED
  BY <1>1, OffIsProcess, LoopStep DEF LoopFails, DInv, TypeOK, RecordedWasQueued

-----------------------------------------------------------------------------
(* Steps that leave the loops alone.                                        *)

(* What the loops know stays true while no file is saved. *)
LEMMA ProcsKept ==
  ASSUME DInv, UNCHANGED <<last, loops, queued>>, UNCHANGED file \/ saves' # 0
  PROVE  RecordedWasQueued' /\ \A l \in Loops : ProcInv(loops[l])'
BY DEF DInv, RecordedWasQueued, ProcInv, file

LEMMA SaveKeeps ==
  ASSUME DInv, NEW b \in Bindings, NEW c \in Contents \cup {None}, SaveFile(b, c)
  PROVE  DInv'
<1>1. saves' # 0 /\ saves' \in 0 .. MaxSaves /\ disk' \in [Bindings -> Contents \cup {None}]
  BY DispatchAssumption DEF SaveFile, DInv, TypeOK
<1>2. TypeOK'
  BY <1>1 DEF SaveFile, worker, DInv, TypeOK
<1>3. \A s \in Slots : ReadInv(s)'
  BY DEF SaveFile, worker, DInv, ReadInv
<1>4. QED
  BY <1>1, <1>2, <1>3, ProcsKept DEF SaveFile, DInv

LEMMA TickKeeps ==
  ASSUME DInv, Tick  PROVE DInv'
<1>1. now' \in 0 .. MaxTime
  BY DispatchAssumption DEF Tick, DInv, TypeOK
<1>2. TypeOK'
  BY <1>1 DEF Tick, worker, DInv, TypeOK
<1>3. RecordedWasQueued' /\ \A l \in Loops : ProcInv(loops[l])'
  BY DEF Tick, DInv, RecordedWasQueued, ProcInv
<1>4. \A s \in Slots : ReadInv(s)'
  BY DEF Tick, worker, DInv, ReadInv
<1>5. \A b \in Bindings : CompletedOf(b)' <=> CompletedOf(b)
  BY DEF Tick, CompletedOf
<1>6. QED
  BY <1>2, <1>3, <1>4, <1>5 DEF Tick, worker, DInv

LEMMA AddJobKeeps ==
  ASSUME DInv, NEW l \in Loops, AddJob(l)  PROVE DInv'
<1>1. loops[l] \in Process /\ loops[l].step = "add" /\ ProcInv(loops[l])
  BY DEF AddJob, At, DInv, TypeOK
<1>. PICK b \in Bindings : b = BindingOf(l)
  BY <1>1 DEF ProcInv, Pass, BindingOf
<1>. PICK c \in Contents : c = loops[l].sha
  BY <1>1 DEF ProcInv
<1>. PICK id \in Ids : id = <<b, c>>
  BY DEF Ids
<1>2. jobs' = Add(jobs, id, b) /\ queued' = queued \cup {id} /\ id \in Ids
      /\ jobs \in [DOMAIN jobs -> Job] /\ DOMAIN jobs \subseteq Ids
  BY DEF AddJob, JobId, Ids, DInv, TypeOK
<1>3. /\ DOMAIN jobs' = DOMAIN jobs \cup {id} /\ jobs' \in [DOMAIN jobs' -> Job]
      /\ \A i \in DOMAIN jobs : jobs'[i] = jobs[i]
      /\ id \notin DOMAIN jobs => jobs'[id].data = b
  <2>1. jobs \in [DOMAIN jobs -> Job] /\ jobs' = Add(jobs, id, b) /\ id \in Ids /\ b \in Bindings
    BY <1>2
  <2>2. QED
    BY <2>1 DEF Add, AddBulk, Fresh, Job, JobStates
<1> DEFINE p == [loops[l] EXCEPT !.step = "update"]
<1>4. p \in Process /\ p.step = "update" /\ p.at = b /\ p.sha = c
  BY <1>1 DEF Process, BindingOf
<1>5. loops' = [loops EXCEPT ![l] = p] /\ loops \in [Loops -> Process]
  BY DEF AddJob, DInv, TypeOK
<1>6. TypeOK'
  <2>1. loops' \in [Loops -> Process] /\ queued' \subseteq Ids /\ DOMAIN jobs' \subseteq Ids
    BY <1>2, <1>3, <1>4, <1>5 DEF DInv, TypeOK
  <2>2. QED
    BY <1>3, <2>1 DEF AddJob, file, worker, DInv, TypeOK
<1>7. saves = 0 => c = disk[b]
  BY <1>1 DEF ProcInv, BindingOf
<1>8. \A m \in Loops : ProcInv(loops[m])'
  <2>1. ASSUME NEW m \in Loops, m # l  PROVE ProcInv(loops[m])'
    BY <1>2, <1>5, <2>1 DEF AddJob, file, DInv, ProcInv
  <2>2. ProcInv(loops[l])'
    BY <1>2, <1>4, <1>5, <1>7 DEF AddJob, file, ProcInv
  <2>3. QED
    BY <2>1, <2>2
<1>9. RecordedWasQueued'
  BY <1>2 DEF AddJob, DInv, RecordedWasQueued
<1>10. \A i \in DOMAIN jobs' : jobs'[i].data = i[1]
  BY <1>3 DEF DInv
<1>11. \A s \in Slots : ReadInv(s)'
  BY <1>3 DEF AddJob, worker, DInv, ReadInv, Holds
<1>12. saves = 0 => \A i \in DOMAIN jobs' : i[2] = disk[i[1]]
  BY <1>3, <1>7 DEF DInv
<1>13. \A d \in Bindings : CompletedOf(d) => CompletedOf(d)'
  BY <1>3 DEF CompletedOf
<1>14. QED
  BY <1>6, <1>8, <1>9, <1>10, <1>11, <1>12, <1>13 DEF AddJob, file, worker, DInv

(* A slot's step on the job of an id: who else reads holds another job. *)
LEMMA JobStep ==
  ASSUME DInv, NEW e \in DOMAIN jobs, NEW s \in Slots, Changed(jobs, jobs', e),
         jobs[e].st # "completed",
         \A t \in Slots \ {s} : reading'[t] = reading[t] /\ (reading[t] # None => reading[t].job # e),
         ReadInv(s)', reading' \in [Slots -> [job : Ids, content : Contents \cup {None}] \cup {None}],
         UNCHANGED <<file, last, loops, queued, explained, expired>>,
         faults' \in 0 .. MaxFaults, loaded' \in [Bindings -> Contents \cup {None}],
         loads' \in [Bindings -> Nat],
         saves = 0 /\ expired = 0 => \A b \in Bindings :
            \/ loads'[b] = loads[b]
            \/ loads'[b] = 1 /\ CompletedOf(b)'
  PROVE  DInv'
<1>1. DOMAIN jobs' = DOMAIN jobs /\ jobs' \in [DOMAIN jobs' -> Job]
      /\ jobs'[e].data = jobs[e].data
      /\ \A i \in DOMAIN jobs : i # e => jobs'[i] = jobs[i]
  BY DEF Changed
<1>2. TypeOK'
  BY <1>1 DEF file, DInv, TypeOK
<1>3. RecordedWasQueued' /\ \A l \in Loops : ProcInv(loops[l])'
  BY ProcsKept
<1>4. \A i \in DOMAIN jobs' : jobs'[i].data = i[1]
  BY <1>1 DEF DInv
<1>5. \A t \in Slots : ReadInv(t)'
  BY <1>1 DEF DInv, ReadInv, Holds
<1>6. \A b \in Bindings : CompletedOf(b) => CompletedOf(b)'
  BY <1>1 DEF CompletedOf
<1>7. saves' = 0 /\ expired' = 0 => \A b \in Bindings :
         loads'[b] = 0 \/ (loads'[b] = 1 /\ CompletedOf(b)')
  BY <1>6 DEF file, DInv
<1>8. QED
  BY <1>1, <1>2, <1>3, <1>4, <1>5, <1>7 DEF file, DInv

(* A slot that reads holds its job, and nobody else reads that job. *)
LEMMA Reader ==
  ASSUME DInv, NEW s \in Slots, reading[s] # None
  PROVE  /\ reading[s] \in [job : Ids, content : Contents \cup {None}]
         /\ reading[s].job \in DOMAIN jobs /\ Holds(jobs, reading[s].job, s)
         /\ jobs[reading[s].job].st # "completed"
         /\ \A t \in Slots \ {s} : reading[t] # None => reading[t].job # reading[s].job
BY DEF DInv, TypeOK, ReadInv, Holds

(* Where one slot puts its reading. *)
LEMMA SlotMoves ==
  ASSUME DInv, NEW s \in Slots, NEW r, reading' = [reading EXCEPT ![s] = r]
  PROVE  reading'[s] = r /\ \A t \in Slots \ {s} : reading'[t] = reading[t]
BY DEF DInv, TypeOK

LEMMA ReadKeeps ==
  ASSUME DInv, NEW s \in Slots, Read(s)  PROVE DInv'
<1>1. PICK e \in DOMAIN jobs :
        /\ jobs[e].st = "wait" /\ jobs' = Claim(jobs, e, s)
        /\ reading' = [reading EXCEPT ![s] = [job |-> e, content |-> disk[jobs[e].data]]]
  BY DEF Read, Waiting
<1> DEFINE r == [job |-> e, content |-> disk[jobs[e].data]]
<1>2. jobs \in [DOMAIN jobs -> Job] /\ e \in Ids /\ jobs[e].data \in Bindings
  BY DEF DInv, TypeOK, Job
<1>3. r \in [job : Ids, content : Contents \cup {None}]
  BY <1>2 DEF DInv, TypeOK
<1>4. Changed(jobs, jobs', e) /\ Holds(jobs', e, s)
  BY <1>1, <1>2, ClaimLemma
<1>5. reading'[s] = r /\ \A t \in Slots \ {s} : reading'[t] = reading[t]
  BY <1>1, SlotMoves
<1>6. ReadInv(s)'
  BY <1>4, <1>5 DEF ReadInv, Changed, Holds
<1>7. \A t \in Slots : reading[t] # None => reading[t].job # e
  BY <1>1, Reader DEF Holds
<1>8. reading' \in [Slots -> [job : Ids, content : Contents \cup {None}] \cup {None}]
  BY <1>1, <1>3 DEF DInv, TypeOK
<1>9. UNCHANGED <<faults, loaded, loads>>
  BY DEF Read
<1>10. QED
  BY <1>1, <1>4, <1>5, <1>6, <1>7, <1>8, <1>9, JobStep DEF Read, DInv, TypeOK

(* An attempt that throws gives its slot back. *)
LEMMA FailedRead ==
  ASSUME DInv, NEW s \in Slots, reading[s] # None,
         jobs' = FailAttempt(jobs, reading[s].job, s),
         reading' = [reading EXCEPT ![s] = None],
         UNCHANGED <<file, last, loops, loaded, loads, queued, explained, expired>>,
         faults' \in 0 .. MaxFaults
  PROVE  DInv'
<1>. PICK e \in DOMAIN jobs : e = reading[s].job
  BY Reader
<1>1. Changed(jobs, jobs', e)
  BY Reader, FailLemma DEF DInv, TypeOK
<1>2. reading'[s] = None /\ \A t \in Slots \ {s} : reading'[t] = reading[t]
  BY SlotMoves
<1>3. reading' \in [Slots -> [job : Ids, content : Contents \cup {None}] \cup {None}]
  BY DEF DInv, TypeOK
<1>4. QED
  BY <1>1, <1>2, <1>3, Reader, JobStep DEF ReadInv, DInv, TypeOK

LEMMA LoadFailsKeeps ==
  ASSUME DInv, NEW s \in Slots, LoadFails(s)  PROVE DInv'
<1>1. faults' \in 0 .. MaxFaults
  BY DispatchAssumption DEF LoadFails, DInv, TypeOK
<1>2. QED
  BY <1>1, FailedRead DEF LoadFails

LEMMA LoadKeeps ==
  ASSUME DInv, NEW s \in Slots, Load(s)  PROVE DInv'
<1>. PICK e \in DOMAIN jobs : e = reading[s].job
  BY Reader DEF Load
<1>. PICK c \in Contents \cup {None} : c = reading[s].content
  BY Reader DEF Load
<1>. PICK b \in Bindings : b = jobs[e].data
  BY DEF DInv, TypeOK, Job
<1>1. CASE c = None
  BY <1>1, FailedRead DEF Load, DInv, TypeOK
<1>2. CASE c # None
  <2>1. /\ jobs' = Complete(jobs, e, s, c) /\ reading' = [reading EXCEPT ![s] = None]
        /\ loaded' = [loaded EXCEPT ![b] = c] /\ loads' = [loads EXCEPT ![b] = @ + 1]
        /\ UNCHANGED <<file, last, loops, queued, explained, expired, faults>>
    BY <1>2 DEF Load
  <2>2. Changed(jobs, jobs', e) /\ jobs'[e].st = "completed"
    BY <1>2, <2>1, Reader, CompleteLemma DEF Load, DInv, TypeOK
  <2>3. reading'[s] = None /\ \A t \in Slots \ {s} : reading'[t] = reading[t]
    BY <2>1, SlotMoves
  <2>4. reading' \in [Slots -> [job : Ids, content : Contents \cup {None}] \cup {None}]
    BY <2>1 DEF DInv, TypeOK
  <2>5. loaded' \in [Bindings -> Contents \cup {None}] /\ loads' \in [Bindings -> Nat]
    BY <2>1 DEF DInv, TypeOK
  <2>6. e[1] = b /\ e \in Ids /\ jobs[e].st # "completed"
    BY Reader DEF Load, DInv, TypeOK
  <2>7. CompletedOf(b)'
    BY <2>2, <2>6 DEF CompletedOf, Changed
  <2>8. saves = 0 => ~CompletedOf(b)
    <3>1. ASSUME saves = 0, NEW i \in DOMAIN jobs, i[1] = b, jobs[i].st = "completed"
          PROVE  FALSE
      <4>1. i \in Ids /\ i[2] = disk[b] /\ e[2] = disk[b]
        BY <2>6, <3>1 DEF DInv, TypeOK
      <4>2. i = e
        BY <2>6, <3>1, <4>1 DEF Ids
      <4>3. QED
        BY <2>6, <3>1, <4>2
    <3>2. QED
      BY <3>1 DEF CompletedOf
  <2>9. saves = 0 /\ expired = 0 => loads[b] = 0
    BY <2>8 DEF DInv
  <2>10. saves = 0 /\ expired = 0 => \A d \in Bindings :
           loads'[d] = loads[d] \/ (loads'[d] = 1 /\ CompletedOf(d)')
    BY <2>1, <2>7, <2>9 DEF DInv, TypeOK
  <2>11. faults' \in 0 .. MaxFaults /\ ReadInv(s)'
    BY <2>1, <2>3 DEF ReadInv, DInv, TypeOK
  <2>12. \A t \in Slots \ {s} : reading'[t] = reading[t] /\ (reading[t] # None => reading[t].job # e)
    BY <2>3, Reader DEF Load
  <2>13. QED
    BY <2>1, <2>2, <2>4, <2>5, <2>6, <2>10, <2>11, <2>12, JobStep
<1>3. QED
  BY <1>1, <1>2

LEMMA ExpireKeeps ==
  ASSUME DInv, NEW e \in DOMAIN jobs, Expire(e)  PROVE DInv'
<1>1. expired' # 0 /\ expired' \in 0 .. MaxExpired
  BY DispatchAssumption DEF Expire, DInv, TypeOK
<1>2. DOMAIN jobs' = DOMAIN jobs \ {e} /\ \A i \in DOMAIN jobs' : jobs'[i] = jobs[i]
  BY DEF Expire, Remove
<1>3. jobs' \in [DOMAIN jobs' -> Job]
  BY <1>2 DEF Expire, Remove, DInv, TypeOK
<1>4. TypeOK'
  BY <1>1, <1>2, <1>3 DEF Expire, file, worker, DInv, TypeOK
<1>5. RecordedWasQueued' /\ \A l \in Loops : ProcInv(loops[l])'
  BY ProcsKept DEF Expire
<1>6. \A s \in Slots : ReadInv(s)'
  BY <1>2 DEF Expire, Settled, worker, DInv, ReadInv, Holds
<1>7. QED
  BY <1>1, <1>2, <1>4, <1>5, <1>6 DEF Expire, file, DInv

LEMMA StutterKeeps ==
  ASSUME DInv, UNCHANGED vars  PROVE DInv'
<1>1. TypeOK'
  BY DEF vars, file, worker, DInv, TypeOK
<1>2. RecordedWasQueued' /\ \A l \in Loops : ProcInv(loops[l])'
  BY ProcsKept DEF vars
<1>3. \A s \in Slots : ReadInv(s)'
  BY DEF vars, worker, DInv, ReadInv
<1>4. \A b \in Bindings : CompletedOf(b)' <=> CompletedOf(b)
  BY DEF vars, CompletedOf
<1>5. QED
  BY <1>1, <1>2, <1>3, <1>4 DEF vars, file, worker, DInv

-----------------------------------------------------------------------------
LEMMA InitInv == Init => DInv
<1> SUFFICES ASSUME Init PROVE DInv
  OBVIOUS
<1>1. DOMAIN jobs = {} /\ jobs \in [DOMAIN jobs -> Job]
  BY DEF Init
<1>2. disk \in [Bindings -> Contents \cup {None}] /\ 0 \in 0 .. MaxSaves /\ 0 \in 0 .. MaxTime
      /\ 0 \in 0 .. MaxExpired /\ 0 \in 0 .. MaxFaults
  BY DispatchAssumption DEF Init
<1>3. NeverRan \in LastRun
  BY DEF NeverRan, LastRun
<1>4. TypeOK
  BY <1>1, <1>2, <1>3, OffIsProcess DEF Init, TypeOK
<1>5. \A b \in Bindings : last[b].sha = None /\ loads[b] = 0
  BY DEF Init, NeverRan
<1>6. \A l \in Loops : ProcInv(loops[l])
  BY OffIsProcess DEF Init
<1>7. \A s \in Slots : ReadInv(s)
  BY DEF Init, ReadInv
<1>8. QED
  BY <1>1, <1>4, <1>5, <1>6, <1>7 DEF DInv, RecordedWasQueued

LEMMA Inductive == Spec => []DInv
<1>1. DInv /\ [Next]_vars => DInv'
  BY SaveKeeps, TickKeeps, StartKeeps, EvaluateKeeps, HashKeeps, AddJobKeeps, UpdateKeeps,
     AuditKeeps, LoopFailsKeeps, ReadKeeps, LoadKeeps, LoadFailsKeeps, ExpireKeeps,
     StutterKeeps DEF Next, Dispatch
<1>2. QED
  BY InitInv, <1>1, PTL DEF Spec

(***************************************************************************)
(* Every variable keeps its type, however the loops overlap and fail.      *)
(***************************************************************************)
THEOREM DispatchTyped == Spec => []TypeOK
<1>1. DInv => TypeOK
  BY DEF DInv
<1>2. QED
  BY <1>1, Inductive, PTL

(***************************************************************************)
(* Whatever dies between adding a job and recording its hash, and however  *)
(* stale the row was on which a loop decided, a hash in a binding is that  *)
(* of a job that was added.                                                *)
(***************************************************************************)
THEOREM HashQueued == Spec => []RecordedWasQueued
<1>1. DInv => RecordedWasQueued
  BY DEF DInv
<1>2. QED
  BY <1>1, Inductive, PTL

(***************************************************************************)
(* Any number of loops over files that nobody saves load each of them at   *)
(* most once while the queue remembers the jobs.                           *)
(***************************************************************************)
THEOREM LoadedOnce == Spec => []UnchangedLoadedOnce
<1>1. DInv => UnchangedLoadedOnce
  BY DEF DInv, UnchangedLoadedOnce
<1>2. QED
  BY <1>1, Inductive, PTL

-----------------------------------------------------------------------------
(* A loop that runs alone.  From the binding it is at onwards the rows it   *)
(* loaded are those of the table, and once it has found that binding due    *)
(* the binding stays due until the loop records the run.                    *)

Alone == \A l, m \in Loops : l = m

Ripe(b) == Schedule[b] = "sla" /\ last[b].at # None => now >= last[b].at + Sla[b]

Current(p) ==
  p.step \in Pass => /\ \A b \in Bindings : p.at <= b => p.rows[b] = last[b]
                     /\ p.step # "evaluate" => Ripe(p.at)

SInv == /\ \A b \in Bindings : last[b].at # None => last[b].at <= now
        /\ \A l \in Loops : Current(loops[l])

(* What a step records leaves the run before it by the SLA. *)
Spaced == \A b \in Bindings :
            Schedule[b] = "sla" /\ last[b].at # None /\ last'[b] # last[b] =>
              last'[b].at >= last[b].at + Sla[b]

LEMMA LastLemma ==
  ASSUME DInv, NEW b \in Bindings
  PROVE  now \in Nat /\ last[b] \in LastRun /\ (last[b].at # None => last[b].at \in Nat)
         /\ Sla[b] \in Nat
<1>1. now \in 0 .. MaxTime /\ last[b] \in LastRun
  BY DEF DInv, TypeOK
<1>2. last[b].at \in 0 .. MaxTime \cup {None}
  BY <1>1 DEF LastRun
<1>3. QED
  BY <1>1, <1>2, DispatchAssumption

(* A step of the loop that records nothing. *)
LEMMA AloneStep ==
  ASSUME Alone, SInv, NEW l \in Loops, NEW p, Current(p), DOMAIN loops = Loops,
         loops' = [loops EXCEPT ![l] = p], UNCHANGED <<last, now>>
  PROVE  SInv' /\ Spaced
<1>1. \A m \in Loops : loops'[m] = p
  BY DEF Alone
<1>2. Current(p)'
  BY DEF Current, Ripe
<1>3. \A m \in Loops : Current(loops[m])'
  BY <1>1, <1>2 DEF Current
<1>4. QED
  BY <1>3 DEF SInv, Spaced

(* Where a loop goes that is done with a binding. *)
LEMMA NextIs ==
  ASSUME DInv, NEW l \in Loops, loops[l].step \in Pass, NEW skips, NextBinding(l, skips)
  PROVE  \E p : /\ loops' = [loops EXCEPT ![l] = p]
                /\ \/ p.step \notin Pass
                   \/ p.step = "evaluate" /\ p.at = loops[l].at + 1 /\ p.rows = loops[l].rows
<1>1. loops[l] \in Process
  BY DEF DInv, TypeOK
<1>2. CASE loops[l].at < LastBinding
  <2>1. PICK p : p = [loops[l] EXCEPT !.step = "evaluate", !.at = loops[l].at + 1,
                                      !.sha = None, !.skips = skips]
    OBVIOUS
  <2>2. p.step = "evaluate" /\ p.at = loops[l].at + 1 /\ p.rows = loops[l].rows
    BY <1>1, <2>1 DEF Process
  <2>3. QED
    BY <1>2, <2>1, <2>2 DEF NextBinding, BindingOf
<1>3. CASE ~(loops[l].at < LastBinding)
  <2>1. PICK p : p = [Off EXCEPT !.step = "audit", !.skips = skips]
    OBVIOUS
  <2>2. p.step = "audit"
    BY <2>1 DEF Off
  <2>3. QED
    BY <1>3, <2>1, <2>2 DEF NextBinding, BindingOf, Pass
<1>4. QED
  BY <1>2, <1>3

LEMMA NowAt ==
  ASSUME DInv, SInv, NEW l \in Loops, loops[l].step \in Pass
  PROVE  /\ loops[l] \in Process /\ loops[l].at \in Bindings /\ loops[l].at \in Nat
         /\ Current(loops[l])
<1>1. loops[l] \in Process /\ loops[l].at \in Bindings /\ Current(loops[l])
  BY DEF DInv, SInv, TypeOK, ProcInv
<1>2. QED
  BY <1>1, DispatchAssumption DEF Bindings

LEMMA AloneMoves ==
  ASSUME Alone, DInv, SInv, NEW l \in Loops, loops[l].step \in Pass, NEW skips,
         NextBinding(l, skips), UNCHANGED <<last, now>>
  PROVE  SInv' /\ Spaced
<1>1. PICK p : /\ loops' = [loops EXCEPT ![l] = p]
               /\ \/ p.step \notin Pass
                  \/ p.step = "evaluate" /\ p.at = loops[l].at + 1 /\ p.rows = loops[l].rows
  BY NextIs
<1>2. \A b \in Bindings : loops[l].at + 1 <= b => loops[l].at <= b
  BY NowAt DEF Bindings
<1>3. Current(p)
  BY <1>1, <1>2, NowAt DEF Current
<1>4. QED
  BY <1>1, <1>3, AloneStep DEF DInv, TypeOK

LEMMA AloneEvaluates ==
  ASSUME Alone, DInv, SInv, NEW l \in Loops, Evaluate(l)  PROVE SInv' /\ Spaced
<1>1. loops[l].step = "evaluate" /\ loops[l].step \in Pass /\ UNCHANGED <<last, now>>
  BY DEF Evaluate, At, Pass, file
<1>2. PICK q \in Process : q = loops[l] /\ q.at \in Bindings /\ q.at \in Nat /\ Current(q)
  BY <1>1, NowAt
<1>3. CASE Due(BindingOf(l), loops[l].rows[BindingOf(l)])
  <2>1. PICK p : p = [q EXCEPT !.step = "hash"]
    OBVIOUS
  <2>2. p.step = "hash" /\ p.at = q.at /\ p.rows = q.rows
    BY <1>2, <2>1 DEF Process
  <2>3. q.rows[q.at] = last[q.at]
    BY <1>1, <1>2 DEF Current
  <2>4. Ripe(q.at)
    <3>1. SUFFICES ASSUME Schedule[q.at] = "sla", last[q.at].at # None
                   PROVE  now >= last[q.at].at + Sla[q.at]
      BY DEF Ripe
    <3>2. Sla[q.at] = 0 \/ ~(now < last[q.at].at + Sla[q.at])
      BY <1>2, <1>3, <2>3, <3>1 DEF Due, BindingOf
    <3>3. last[q.at].at <= now
      BY <1>2, <3>1 DEF SInv
    <3>4. QED
      BY <1>2, <3>1, <3>2, <3>3, LastLemma
  <2>5. Current(p)
    BY <1>1, <1>2, <2>2, <2>4 DEF Current
  <2>6. QED
    BY <1>1, <1>2, <1>3, <2>1, <2>5, AloneStep DEF Evaluate, DInv, TypeOK
<1>4. QED
  BY <1>1, <1>3, AloneMoves DEF Evaluate

LEMMA AloneHashes ==
  ASSUME Alone, DInv, SInv, NEW l \in Loops, Hash(l) \/ AddJob(l)  PROVE SInv' /\ Spaced
<1>1. loops[l].step \in {"hash", "add"} /\ loops[l].step \in Pass /\ UNCHANGED <<last, now>>
  BY DEF Hash, AddJob, At, Pass, file
<1>2. PICK q \in Process : q = loops[l] /\ q.at \in Bindings /\ Current(q)
  BY <1>1, NowAt
<1>3. ASSUME NEW p, loops' = [loops EXCEPT ![l] = p], p.at = q.at, p.rows = q.rows
      PROVE  SInv' /\ Spaced
  <2>1. Current(p)
    <3>1. Ripe(q.at) \/ p.step = "evaluate" \/ q.step = "evaluate"
      BY <1>1, <1>2 DEF Current
    <3>2. \A b \in Bindings : q.at <= b => q.rows[b] = last[b]
      BY <1>1, <1>2 DEF Current
    <3>3. QED
      BY <1>1, <1>2, <1>3, <3>1, <3>2 DEF Current
  <2>2. DOMAIN loops = Loops
    BY DEF DInv, TypeOK
  <2>3. QED
    BY <1>1, <1>3, <2>1, <2>2, AloneStep
<1>4. CASE Hash(l)
  <2>1. CASE loops' = [loops EXCEPT ![l].step = "add", ![l].sha = disk[BindingOf(l)]]
    <3>1. PICK p : p = [q EXCEPT !.step = "add", !.sha = disk[BindingOf(l)]]
      OBVIOUS
    <3>2. p.at = q.at /\ p.rows = q.rows
      BY <1>2, <3>1 DEF Process
    <3>3. loops' = [loops EXCEPT ![l] = p]
      BY <1>2, <2>1, <3>1
    <3>4. QED
      BY <1>3, <3>2, <3>3
  <2>2. QED
    BY <1>1, <1>4, <2>1, AloneMoves DEF Hash
<1>5. CASE AddJob(l)
  <2>1. PICK p : p = [q EXCEPT !.step = "update"]
    OBVIOUS
  <2>2. p.at = q.at /\ p.rows = q.rows
    BY <1>2, <2>1 DEF Process
  <2>3. QED
    BY <1>2, <1>3, <1>5, <2>1, <2>2 DEF AddJob
<1>6. QED
  BY <1>4, <1>5

LEMMA AloneUpdates ==
  ASSUME Alone, DInv, SInv, NEW l \in Loops, Update(l)  PROVE SInv' /\ Spaced
<1>1. loops[l].step = "update" /\ loops[l].step \in Pass /\ UNCHANGED now
  BY DEF Update, At, Pass, file
<1>2. PICK a \in Bindings : a = loops[l].at /\ a \in Nat
  BY <1>1, NowAt
<1>3. PICK sha : sha = loops[l].sha
  OBVIOUS
<1>4. last' = [last EXCEPT ![a] = [sha |-> sha, at |-> now]] /\ last \in [Bindings -> LastRun]
  BY <1>2, <1>3 DEF Update, BindingOf, DInv, TypeOK
<1>5. last'[a].at = now /\ \A b \in Bindings \ {a} : last'[b] = last[b]
  BY <1>4
<1>6. Ripe(a) /\ \A b \in Bindings : a <= b => loops[l].rows[b] = last[b]
  BY <1>1, <1>2, NowAt DEF Current
<1>7. Spaced
  BY <1>5, <1>6 DEF Spaced, Ripe
<1>8. \A b \in Bindings : last'[b].at # None => last'[b].at <= now
  <2>1. ASSUME NEW b \in Bindings, last'[b].at # None  PROVE last'[b].at <= now
    BY <1>5, <2>1, LastLemma DEF SInv
  <2>2. QED
    BY <2>1
<1>9. PICK p : /\ loops' = [loops EXCEPT ![l] = p]
               /\ \/ p.step \notin Pass
                  \/ p.step = "evaluate" /\ p.at = a + 1 /\ p.rows = loops[l].rows
  BY <1>1, <1>2, NextIs DEF Update
<1>10. Current(p)'
  <2>1. \A b \in Bindings : a + 1 <= b => a <= b /\ b # a
    BY <1>2 DEF Bindings
  <2>2. PICK rows : rows = loops[l].rows
    OBVIOUS
  <2>3. p.step \in Pass => /\ p.step = "evaluate"
                           /\ \A b \in Bindings : p.at <= b => p.rows[b] = last'[b]
    BY <1>5, <1>6, <1>9, <2>1
  <2>4. QED
    BY <2>3 DEF Current
<1>11. \A m \in Loops : loops'[m] = p
  BY <1>9 DEF Alone, DInv, TypeOK
<1>12. \A m \in Loops : Current(loops[m])'
  BY <1>10, <1>11 DEF Current
<1>13. QED
  BY <1>1, <1>7, <1>8, <1>12 DEF SInv

LEMMA AloneRests ==
  ASSUME Alone, DInv, SInv, NEW l \in Loops, Start(l) \/ Audit(l) \/ LoopFails(l)
  PROVE  SInv' /\ Spaced
<1>1. UNCHANGED <<last, now>> /\ DOMAIN loops = Loops /\ loops[l] \in Process
  BY DEF Start, Audit, LoopFails, file, DInv, TypeOK
<1>2. CASE loops' = [loops EXCEPT ![l] = Off]
  BY <1>1, <1>2, AloneStep DEF Current, Off, Pass
<1>3. CASE Start(l)
  <2>1. PICK p : p = [step |-> "evaluate", at |-> 1, rows |-> last, sha |-> None, skips |-> {}]
    OBVIOUS
  <2>2. Current(p)
    BY <2>1 DEF Current
  <2>3. QED
    BY <1>1, <1>3, <2>1, <2>2, AloneStep DEF Start
<1>4. CASE Audit(l)
  <2>1. SUFFICES ASSUME NEW b, loops' = [loops EXCEPT ![l].skips = loops[l].skips \ {b}]
                 PROVE  SInv' /\ Spaced
    BY <1>2, <1>4 DEF Audit
  <2>2. PICK p : p = [loops[l] EXCEPT !.skips = loops[l].skips \ {b}]
    OBVIOUS
  <2>3. p.step = "audit"
    BY <1>1, <1>4, <2>2 DEF Audit, At, Process
  <2>4. QED
    BY <1>1, <2>1, <2>2, <2>3, AloneStep DEF Current, Pass
<1>5. QED
  BY <1>2, <1>3, <1>4 DEF LoopFails

(* Time only makes a binding riper. *)
LEMMA AloneTicks ==
  ASSUME DInv, SInv, Tick  PROVE SInv' /\ Spaced
<1>1. now' = now + 1 /\ UNCHANGED <<last, loops>>
  BY DEF Tick
<1>2. \A b \in Bindings : last[b].at # None => last[b].at <= now'
  BY <1>1, LastLemma DEF SInv
<1>3. ASSUME NEW b \in Bindings, Ripe(b)  PROVE Ripe(b)'
  BY <1>1, <1>3, LastLemma DEF Ripe
<1>4. ASSUME NEW l \in Loops, loops[l].step \in Pass  PROVE Current(loops[l])'
  BY <1>1, <1>3, <1>4, NowAt DEF Current
<1>5. QED
  BY <1>1, <1>2, <1>4 DEF SInv, Spaced, Current

LEMMA AloneNext == Alone /\ DInv /\ SInv /\ [Next]_vars => SInv' /\ Spaced
<1> SUFFICES ASSUME Alone, DInv, SInv, [Next]_vars  PROVE SInv' /\ Spaced
  OBVIOUS
<1>1. CASE UNCHANGED <<last, now, loops>>
  BY <1>1 DEF SInv, Spaced, Current, Ripe
<1>2. CASE UNCHANGED vars
  BY <1>1, <1>2 DEF vars, file
<1>3. ASSUME NEW b \in Bindings, NEW c, SaveFile(b, c)  PROVE SInv' /\ Spaced
  BY <1>1, <1>3 DEF SaveFile
<1>4. ASSUME NEW s \in Slots, Read(s) \/ Load(s) \/ LoadFails(s)  PROVE SInv' /\ Spaced
  BY <1>1, <1>4 DEF Read, Load, LoadFails, file
<1>5. ASSUME NEW id, Expire(id)  PROVE SInv' /\ Spaced
  BY <1>1, <1>5 DEF Expire, file
<1>6. QED
  BY <1>2, <1>3, <1>4, <1>5, AloneTicks, AloneEvaluates, AloneHashes, AloneUpdates,
     AloneRests DEF Next, Dispatch

(***************************************************************************)
(* When cron never starts a loop beside another, no two runs of a binding  *)
(* are recorded less than its SLA apart, whatever the loop saw to between  *)
(* the query it loaded the row with and the row's UPDATE.                  *)
(***************************************************************************)
THEOREM RunsSpaced ==
  ASSUME \A l, m \in Loops : l = m
  PROVE  Spec => RunsAreSpaced
<1>1. Alone
  BY DEF Alone
<1>2. Init => SInv
  BY DEF Init, SInv, NeverRan, Current, Off, Pass
<1>3. DInv /\ SInv /\ [Next]_vars =>
        SInv' /\ [\A b \in Bindings :
                    Schedule[b] = "sla" /\ last[b].at # None /\ last'[b] # last[b] =>
                      last'[b].at >= last[b].at + Sla[b]]_vars
  BY <1>1, AloneNext DEF Spaced
<1>4. QED
  BY <1>2, <1>3, Inductive, PTL DEF Spec, RunsAreSpaced
=============================================================================
