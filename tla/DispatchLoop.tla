---------------------------- MODULE DispatchLoop ----------------------------
(***************************************************************************)
(* The metadata-driven dispatch of track-a-jd-native (`pnpm dispatch').    *)
(* cron starts a loop now and then, so loops may overlap.  A loop loads    *)
(* all the enabled bindings in one query and then decides on each from     *)
(* that snapshot; a due FILE_BATCH binding is hashed again, its parse-file *)
(* job is added under an id made of the binding and the hash, and the hash *)
(* is written to the binding.  When it has been through all of them the    *)
(* loop writes a SKIPPED row for each binding it did not find due.         *)
(* Dealers replace the files meanwhile.                                    *)
(*                                                                         *)
(* What a parse-file job does is IngestPipeline's subject; here it reads   *)
(* its file when it runs, not when it was added, and loads what it read.   *)
(***************************************************************************)
EXTENDS JobQueue, Integers, FiniteSets

CONSTANTS
  LastBinding,  \* ids of the enabled bindings are 1 .. LastBinding
  Schedule,     \* binding -> "event-driven", "on-source-change" or "sla"
  Batch,        \* binding -> is its pattern FILE_BATCH ?
  Sla,          \* binding -> freshness_sla in clock ticks, 0 if it has none
  Contents,     \* what a file may contain; a SHA-256 names a content
  FirstDisks,   \* what the files may contain when the first loop starts
  Loops,        \* dispatch processes that may run at the same time
  Slots,        \* how many loads may be under way at the same time
  MaxTime, MaxSaves, MaxExpired, MaxFaults   \* bounds

Bindings == 1 .. LastBinding

ASSUME DispatchAssumption ==
  /\ LastBinding \in Nat \ {0}
  /\ Schedule \in [Bindings -> {"event-driven", "on-source-change", "sla"}]
  /\ Batch \in [Bindings -> BOOLEAN]
  /\ Sla \in [Bindings -> Nat]
  /\ {MaxTime, MaxSaves, MaxExpired, MaxFaults} \subseteq Nat
  /\ FirstDisks \subseteq [Bindings -> Contents \cup {None}]
  /\ None \notin Contents \cup Slots \cup Nat

VARIABLES
  disk,      \* content of each binding's file, None if it is missing
  saves,     \* how often dealers have saved a file
  now,       \* the clock
  last,      \* last_run_sha256 and last_run_at of each binding
  loops,     \* what each dispatch process is doing
  jobs,      \* the job table of parse-file
  reading,   \* what the load in each slot has read: job id and content
  loaded,    \* content of the file the products of a binding show
  loads,     \* how often a file of the binding has been loaded
  queued,    \* ids ever added
  explained, \* bindings with a SKIPPED row in ingest_runs
  expired, faults

file   == <<disk, saves, now>>
worker == <<reading, loaded, loads>>
vars   == <<file, last, loops, jobs, worker, queued, explained, expired, faults>>

NeverRan == [sha |-> None, at |-> None]

(* A process: the binding it is at, the rows it loaded, the hash in hand    *)
(* and its SKIPPED decisions.                                               *)
Off == [step |-> "off", at |-> 0, rows |-> [b \in Bindings |-> NeverRan],
        sha |-> None, skips |-> {}]

Init ==
  /\ disk \in FirstDisks /\ saves = 0 /\ now = 0
  /\ last = [b \in Bindings |-> NeverRan]
  /\ loops = [l \in Loops |-> Off]
  /\ jobs = [i \in {} |-> Fresh(i)] /\ queued = {} /\ explained = {}
  /\ reading = [s \in Slots |-> None]
  /\ loaded = [b \in Bindings |-> None] /\ loads = [b \in Bindings |-> 0]
  /\ expired = 0 /\ faults = 0

-----------------------------------------------------------------------------
(* Dealers and the clock.                                                   *)

SaveFile(b, c) ==
  /\ saves < MaxSaves /\ disk[b] # c
  /\ disk' = [disk EXCEPT ![b] = c]
  /\ saves' = saves + 1
  /\ UNCHANGED <<now, last, loops, jobs, worker, queued, explained, expired, faults>>

Tick ==
  /\ now < MaxTime
  /\ now' = now + 1
  /\ UNCHANGED <<disk, saves, last, loops, jobs, worker, queued, explained, expired, faults>>

-----------------------------------------------------------------------------
(* A dispatch process.                                                      *)

BindingOf(l) == loops[l].at
At(l, step)  == loops[l].step = step

(* On to the next binding, or to the SKIPPED rows of those in `skips'. *)
NextBinding(l, skips) ==
  loops' = [loops EXCEPT ![l] =
              IF BindingOf(l) < LastBinding
              THEN [@ EXCEPT !.step = "evaluate", !.at = BindingOf(l) + 1, !.sha = None,
                             !.skips = skips]
              ELSE [Off EXCEPT !.step = "audit", !.skips = skips]]

(* loadActiveBindings *)
Start(l) ==
  /\ At(l, "off")
  /\ loops' = [loops EXCEPT ![l] =
       [step |-> "evaluate", at |-> 1, rows |-> last, sha |-> None, skips |-> {}]]
  /\ UNCHANGED <<file, last, jobs, worker, queued, explained, expired, faults>>

(* Mutant: the SLA is over one tick too early. *)
DueEarly(b, row) ==
  \/ Schedule[b] = "on-source-change" /\ disk[b] \notin {None, row.sha}
  \/ Schedule[b] = "sla" /\ ~(row.at # None /\ Sla[b] # 0 /\ now < row.at + Sla[b] - 1)

(* evaluateBinding: decided on the row that was loaded and the file as it   *)
(* is now.  A missing file is found missing again in dispatchBinding.       *)
Due(b, row) ==
  \/ Schedule[b] = "on-source-change" /\ disk[b] \notin {None, row.sha}
  \/ Schedule[b] = "sla" /\ ~(row.at # None /\ Sla[b] # 0 /\ now < row.at + Sla[b])

Evaluate(l) ==
  /\ At(l, "evaluate")
  /\ IF Due(BindingOf(l), loops[l].rows[BindingOf(l)])
     THEN loops' = [loops EXCEPT ![l].step = "hash"]
     ELSE NextBinding(l, loops[l].skips \cup {BindingOf(l)})
  /\ UNCHANGED <<file, last, jobs, worker, queued, explained, expired, faults>>

(* dispatchBinding: only FILE_BATCH is wired, and the file is hashed anew. *)
Hash(l) ==
  /\ At(l, "hash")
  /\ IF Batch[BindingOf(l)] /\ disk[BindingOf(l)] # None
     THEN loops' = [loops EXCEPT ![l].step = "add", ![l].sha = disk[BindingOf(l)]]
     ELSE NextBinding(l, loops[l].skips)
  /\ UNCHANGED <<file, last, jobs, worker, queued, explained, expired, faults>>

(* Mutant: the time of the dispatch takes the place of the hash. *)
JobIdOfTime(b, sha) == <<b, now>>

(* jobId: `dispatch:${binding_id}:${sha}` *)
JobId(b, sha) == <<b, sha>>

(* Mutant: a job that is known already is not an update. *)
AddJobOrSkip(l) ==
  /\ At(l, "add")
  /\ LET id == JobId(BindingOf(l), loops[l].sha) IN
     /\ jobs' = Add(jobs, id, BindingOf(l))
     /\ queued' = queued \cup {id}
     /\ IF id \in DOMAIN jobs THEN NextBinding(l, loops[l].skips)
        ELSE loops' = [loops EXCEPT ![l].step = "update"]
  /\ UNCHANGED <<file, last, worker, explained, expired, faults>>

(* parseFileQueue.add: dropped if the id is still known to the queue. *)
AddJob(l) ==
  /\ At(l, "add")
  /\ LET id == JobId(BindingOf(l), loops[l].sha) IN
     /\ jobs' = Add(jobs, id, BindingOf(l))
     /\ queued' = queued \cup {id}
  /\ loops' = [loops EXCEPT ![l].step = "update"]
  /\ UNCHANGED <<file, last, worker, explained, expired, faults>>

(* Mutant: the file is hashed once more for the UPDATE. *)
UpdateRehashed(l) ==
  /\ At(l, "update")
  /\ last' = [last EXCEPT ![BindingOf(l)] = [sha |-> disk[BindingOf(l)], at |-> now]]
  /\ NextBinding(l, loops[l].skips)
  /\ UNCHANGED <<file, jobs, worker, queued, explained, expired, faults>>

(* UPDATE dealer_pattern_bindings *)
Update(l) ==
  /\ At(l, "update")
  /\ last' = [last EXCEPT ![BindingOf(l)] = [sha |-> loops[l].sha, at |-> now]]
  /\ NextBinding(l, loops[l].skips)
  /\ UNCHANGED <<file, jobs, worker, queued, explained, expired, faults>>

(* The SKIPPED rows, one INSERT after the other in the order of the         *)
(* bindings; then the process exits.                                        *)
Audit(l) ==
  /\ At(l, "audit")
  /\ IF loops[l].skips = {}
     THEN loops' = [loops EXCEPT ![l] = Off] /\ UNCHANGED explained
     ELSE LET b == CHOOSE b \in loops[l].skips : \A c \in loops[l].skips : b <= c IN
          /\ explained' = explained \cup {b}
          /\ loops' = [loops EXCEPT ![l].skips = @ \ {b}]
  /\ UNCHANGED <<file, last, jobs, worker, queued, expired, faults>>

(* Redis or PostgreSQL refuses, or the process dies: exit 1. *)
LoopFails(l) ==
  /\ faults < MaxFaults
  /\ ~At(l, "off")
  /\ loops' = [loops EXCEPT ![l] = Off]
  /\ faults' = faults + 1
  /\ UNCHANGED <<file, last, jobs, worker, queued, explained, expired>>

-----------------------------------------------------------------------------
(* The parse-file queue, its loads and its memory.                          *)

Read(s) ==
  /\ reading[s] = None
  /\ \E id \in DOMAIN jobs :
       /\ Waiting(jobs, id)
       /\ jobs' = Claim(jobs, id, s)
       /\ reading' = [reading EXCEPT ![s] = [job |-> id, content |-> disk[jobs[id].data]]]
  /\ UNCHANGED <<file, last, loops, loaded, loads, queued, explained, expired, faults>>

(* A missing file makes the attempt throw; else its rows are upserted. *)
Load(s) ==
  /\ reading[s] # None
  /\ LET id == reading[s].job  b == jobs[id].data  c == reading[s].content IN
     IF c = None
     THEN jobs' = FailAttempt(jobs, id, s) /\ UNCHANGED <<loaded, loads>>
     ELSE /\ jobs' = Complete(jobs, id, s, c)
          /\ loaded' = [loaded EXCEPT ![b] = c]
          /\ loads' = [loads EXCEPT ![b] = @ + 1]
  /\ reading' = [reading EXCEPT ![s] = None]
  /\ UNCHANGED <<file, last, loops, queued, explained, expired, faults>>

LoadFails(s) ==
  /\ faults < MaxFaults
  /\ reading[s] # None
  /\ jobs' = FailAttempt(jobs, reading[s].job, s)
  /\ reading' = [reading EXCEPT ![s] = None]
  /\ faults' = faults + 1
  /\ UNCHANGED <<file, last, loops, loaded, loads, queued, explained, expired>>

(* removeOnComplete after 24 h, removeOnFail after 7 days: the id is free.  *)
Expire(id) ==
  /\ expired < MaxExpired
  /\ Settled(jobs[id])
  /\ jobs' = Remove(jobs, id)
  /\ expired' = expired + 1
  /\ UNCHANGED <<file, last, loops, worker, queued, explained, faults>>

-----------------------------------------------------------------------------
Dispatch(l) == Evaluate(l) \/ Hash(l) \/ AddJob(l) \/ Update(l) \/ Audit(l)

Next ==
  \/ \E b \in Bindings, c \in Contents \cup {None} : SaveFile(b, c)
  \/ Tick
  \/ \E l \in Loops : Start(l) \/ Dispatch(l) \/ LoopFails(l)
  \/ \E s \in Slots : Read(s) \/ Load(s) \/ LoadFails(s)
  \/ \E id \in DOMAIN jobs : Expire(id)

Spec == Init /\ [][Next]_vars

(* cron starts loops for ever, a loop runs on, jobs are taken and finish.   *)
(* No one has to save a file, and the clock and the queue's memory may stop.*)
Fairness == /\ \A l \in Loops : WF_vars(Start(l)) /\ WF_vars(Dispatch(l))
            /\ \A s \in Slots : WF_vars(Read(s)) /\ WF_vars(Load(s))

LiveSpec == Spec /\ Fairness
-----------------------------------------------------------------------------
(* Properties.                                                              *)

Ids     == Bindings \X Contents
LastRun == [sha : Contents \cup {None}, at : 0 .. MaxTime \cup {None}]

Process == [step : {"off", "evaluate", "hash", "add", "update", "audit"},
            at : 0 .. LastBinding, rows : [Bindings -> LastRun],
            sha : Contents \cup {None}, skips : SUBSET Bindings]

Job == [st : JobStates, tries : Nat, stalls : Nat, owner : Slots \cup {None},
        ret : Contents \cup {None}, data : Bindings]

Watched(b) == Schedule[b] = "on-source-change" /\ Batch[b]

(* Every variable keeps its type; ids pair a binding and a content. *)
TypeOK ==
  /\ disk \in [Bindings -> Contents \cup {None}]
  /\ saves \in 0 .. MaxSaves /\ now \in 0 .. MaxTime
  /\ last \in [Bindings -> LastRun]
  /\ loops \in [Loops -> Process]
  /\ queued \subseteq Ids /\ DOMAIN jobs \subseteq Ids
  /\ jobs \in [DOMAIN jobs -> Job]
  /\ reading \in [Slots -> [job : Ids, content : Contents \cup {None}] \cup {None}]
  /\ loaded \in [Bindings -> Contents \cup {None}]
  /\ loads \in [Bindings -> Nat]
  /\ explained \subseteq Bindings
  /\ expired \in 0 .. MaxExpired /\ faults \in 0 .. MaxFaults

(* A hash is written to a binding only once a job for that very content is  *)
(* in the queue, so a process that dies between the two steps loses no      *)
(* change (dispatch-loop.ts:193-213).                                       *)
RecordedWasQueued ==
  \A b \in Bindings : last[b].sha # None => <<b, last[b].sha>> \in queued

(* A file that is never saved again is loaded once, however many processes  *)
(* overlap, die between adding the job and recording it, or retry, while    *)
(* the queue remembers the job.                                             *)
UnchangedLoadedOnce ==
  saves = 0 /\ expired = 0 => \A b \in Bindings : loads[b] <= 1

(* Once the dealers stop saving, the hash recorded for a watched file is    *)
(* that of the file, whatever stale process wrote to the binding before.    *)
RecordConverges ==
  \A b \in Bindings :
    Watched(b) => <>[](disk[b] # None => last[b].sha = disk[b])

(* A loop that runs alone records no two runs of a binding that are less    *)
(* than its SLA apart, although it decides on the row it loaded before it   *)
(* saw to the other bindings.                                               *)
RunsAreSpaced ==
  [][\A b \in Bindings :
       Schedule[b] = "sla" /\ last[b].at # None /\ last'[b] # last[b] =>
         last'[b].at >= last[b].at + Sla[b]]_vars

(* ADR-014:98-100,166: `Always check freshness SLA: if last_run_at + sla <  *)
(* now() force-run regardless' (`SLA wins'), and dispatch-loop.ts:170: `run *)
(* if last_run_at + sla has elapsed'.  A binding with an SLA that is        *)
(* overdue is loaded once more, whatever its schedule (unless it waits for  *)
(* events) and whether or not its file has changed.                         *)
Overdue(b) ==
  /\ Schedule[b] # "event-driven" /\ Batch[b] /\ Sla[b] # 0
  /\ disk[b] # None
  /\ last[b].at # None /\ now >= last[b].at + Sla[b]

OverdueIsRun ==
  \A b \in Bindings, n \in 0 .. MaxTime :
    Overdue(b) /\ loads[b] = n ~> loads[b] > n \/ disk[b] = None

(* dispatch-loop.ts:12-14: a watched file is skipped `if unchanged' and is  *)
(* otherwise enqueued: the products end up showing what the file contains.  *)
SourceIsLoaded ==
  \A b \in Bindings :
    Watched(b) => <>[](disk[b] # None => loaded[b] = disk[b])
=============================================================================
