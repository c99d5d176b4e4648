-------------------------- MODULE StreamEventsProofs --------------------------
(***************************************************************************)
(* Theorems about the streaming path for any number of events, parts,      *)
(* dealers, slots and faults: its type, what a listener may rely on, what  *)
(* a completed job has done, and that it implements the stock ledger.      *)
(***************************************************************************)
EXTENDS StreamEvents, FiniteSetTheorems, TLAPS

-----------------------------------------------------------------------------
(* The job table.  An update of it keeps its ids, leaves settled jobs      *)
(* alone, and completes none.                                              *)

Kept(old, new) ==
  /\ new \in [DOMAIN old -> Job]
  /\ \A i \in DOMAIN old : new[i].st = "completed" => new[i] = old[i]

LEMMA ClaimKeeps ==
  ASSUME NEW table, table \in [DOMAIN table -> Job], NEW e \in DOMAIN table, NEW s \in Slots
  PROVE  Kept(table, Claim(table, e, s))
BY DEF Claim, Kept, Job, JobStates

LEMMA FailKeeps ==
  ASSUME NEW table, table \in [DOMAIN table -> Job], NEW e \in DOMAIN table, NEW s \in Slots
  PROVE  Kept(table, FailAttempt(table, e, s))
<1>1. table[e] \in Job /\ table[e].tries + 1 \in Nat
  BY DEF Job
<1>2. \A st \in {"wait", "failed"}, n \in Nat :
        LET j == [table[e] EXCEPT !.st = st, !.tries = n, !.owner = None]
        IN  j \in Job /\ j.st # "completed"
  BY <1>1 DEF Job, JobStates
<1>3. QED
  BY <1>1, <1>2 DEF FailAttempt, Kept

LEMMA StallKeeps ==
  ASSUME NEW table, table \in [DOMAIN table -> Job], NEW e \in DOMAIN table
  PROVE  Kept(table, Stall(table, e))
<1>1. table[e] \in Job /\ table[e].stalls + 1 \in Nat
  BY DEF Job
<1>2. \A st \in {"wait", "failed"}, n \in Nat :
        LET j == [table[e] EXCEPT !.st = st, !.stalls = n, !.owner = None]
        IN  j \in Job /\ j.st # "completed"
  BY <1>1 DEF Job, JobStates
<1>3. QED
  BY <1>1, <1>2 DEF Stall, Kept

LEMMA AddKeeps ==
  ASSUME NEW table, table \in [DOMAIN table -> Job], NEW e \in Events
  PROVE  LET new == Add(table, e, e) IN
         /\ DOMAIN new = DOMAIN table \cup {e} /\ new \in [DOMAIN new -> Job]
         /\ \A i \in DOMAIN new : new[i].st = "completed" =>
              i \in DOMAIN table /\ new[i] = table[i]
BY DEF Add, AddBulk, Fresh, Job, JobStates

LEMMA CompleteKeeps ==
  ASSUME NEW table, table \in [DOMAIN table -> Job], NEW e \in DOMAIN table,
         NEW s \in Slots, NEW ret \in Nat
  PROVE  LET new == Complete(table, e, s, ret) IN
         /\ new \in [DOMAIN table -> Job]
         /\ \A i \in DOMAIN table : new[i].st = "completed" =>
              new[i] = table[i] \/ (i = e /\ new[i].ret = ret)
BY ZenonT(30) DEF Complete, Holds, Job, JobStates

-----------------------------------------------------------------------------
(* The inductive invariant.  A NOTIFY is safe because the slot that sends  *)
(* it has marked the event, and because of what it knows of the products   *)
(* it updated: they are the part's, they are there, and they have a level. *)
(* An event a slot runs has a job, and its part is fixed since it was      *)
(* recorded, before the job.                                               *)

Recorded(e) == events[e].request # "none"

SlotInv(s) ==
  LET e == slots[s].event  reached == slots[s].updated IN
  /\ slots[s].step # "idle" => e \in DOMAIN jobs
  /\ slots[s].step \in {"mark", "notify", "done"} =>
       reached \subseteq Matching(e) /\ \A p \in reached : stock[p] # None
  /\ slots[s].step = "notify" => reached # {} /\ events[e].status # "PENDING"
  /\ slots[s].step = "done" /\ reached # {} => \E p \in reached : <<e, p>> \in notified

ToldInv(n) == /\ Recorded(n[1]) /\ events[n[1]].status # "PENDING"
              /\ n[2] \in products /\ n[2][1] = events[n[1]].part

DoneInv(e) == jobs[e].ret # 0 =>
                \E p \in Matching(e) : <<e, p>> \in notified /\ stock[p] # None

SInv == /\ TypeOK
        /\ \A e \in Events : Recorded(e) => events[e].part \in Parts
        /\ \A e \in DOMAIN jobs : Recorded(e)
        /\ \A s \in Slots : SlotInv(s)
        /\ \A n \in notified : ToldInv(n)
        /\ \A e \in DOMAIN jobs : jobs[e].st = "completed" => DoneInv(e)

(* What no step takes back. *)
Grows == /\ \A e \in Events : Recorded(e) =>
              /\ Recorded(e)' /\ events'[e].part = events[e].part
              /\ events[e].status # "PENDING" => events'[e].status # "PENDING"
         /\ products \subseteq products' /\ notified \subseteq notified'
         /\ DOMAIN jobs \subseteq DOMAIN jobs'
         /\ \A p \in Products : stock[p] # None => stock'[p] # None

LEMMA KeptSlot ==
  ASSUME SInv, Grows, NEW s \in Slots, slots'[s] = slots[s]
  PROVE  SlotInv(s)'
<1>1. CASE slots[s].step = "idle"
  BY <1>1 DEF SlotInv
<1>2. CASE slots[s].step # "idle"
  <2>1. slots[s].event \in DOMAIN jobs /\ slots[s].event \in Events /\ SlotInv(s)
    BY <1>2 DEF SInv, SlotInv, TypeOK
  <2>2. Recorded(slots[s].event) /\ slots[s].updated \subseteq Products
    BY <2>1 DEF SInv, TypeOK, SlotState
  <2>3. Matching(slots[s].event) \subseteq Matching(slots[s].event)'
    BY <2>1, <2>2 DEF Grows, Matching
  <2>4. QED
    BY <1>2, <2>1, <2>2, <2>3 DEF Grows, SlotInv
<1>3. QED
  BY <1>1, <1>2

LEMMA KeptTold ==
  ASSUME SInv, Grows, NEW n \in notified
  PROVE  ToldInv(n)'
<1>1. n[1] \in Events /\ ToldInv(n)
  BY DEF SInv, TypeOK
<1>2. QED
  BY <1>1 DEF ToldInv, Grows

LEMMA KeptDone ==
  ASSUME SInv, Grows, NEW e \in DOMAIN jobs, jobs[e].st = "completed", jobs'[e] = jobs[e]
  PROVE  DoneInv(e)'
<1>1. e \in Events /\ Recorded(e) /\ DoneInv(e) /\ Matching(e) \subseteq Products
  BY DEF SInv, TypeOK, Matching
<1>2. Matching(e) \subseteq Matching(e)'
  BY <1>1 DEF Grows, Matching
<1>3. QED
  BY <1>1, <1>2 DEF DoneInv, Grows

(* What is left to show of a step: the slot that moved, the notification   *)
(* that was sent and the job that completed.                               *)
LEMMA Assemble ==
  ASSUME SInv, Grows, TypeOK',
         \A e \in Events : Recorded(e)' => events'[e].part \in Parts,
         \A e \in DOMAIN jobs' : Recorded(e)',
         \A s \in Slots : slots'[s] = slots[s] \/ SlotInv(s)',
         \A n \in notified' : n \in notified \/ ToldInv(n)',
         \A e \in DOMAIN jobs' : jobs'[e].st = "completed" =>
            \/ e \in DOMAIN jobs /\ jobs'[e] = jobs[e]
            \/ DoneInv(e)'
  PROVE  SInv'
<1>1. \A s \in Slots : SlotInv(s)'
  BY KeptSlot
<1>2. \A n \in notified' : ToldInv(n)'
  BY KeptTold
<1>3. \A e \in DOMAIN jobs' : jobs'[e].st = "completed" => DoneInv(e)'
  BY KeptDone
<1>4. QED
  BY <1>1, <1>2, <1>3 DEF SInv

(* Only the slots move. *)
LEMMA EventsKept ==
  ASSUME SInv, UNCHANGED events, DOMAIN jobs' = DOMAIN jobs
  PROVE  /\ \A e \in Events : Recorded(e)' => events'[e].part \in Parts
         /\ \A e \in DOMAIN jobs' : Recorded(e)'
         /\ \A e \in Events : Recorded(e) => Recorded(e)'
BY DEF SInv, Recorded

LEMMA IdleIsState == Idle \in SlotState
BY DEF Idle, SlotState

LEMMA InitInv == Init => SInv
<1> SUFFICES ASSUME Init PROVE SInv
  OBVIOUS
<1>1. TypeOK
  <2>1. MaxFaults \in Nat /\ Unknown \in Event /\ Idle \in SlotState
    BY StreamAssumption, IdleIsState DEF Unknown, Event
  <2>2. DOMAIN jobs = {}
    BY DEF Init
  <2>3. jobs \in [DOMAIN jobs -> Job]
    BY <2>2 DEF Init
  <2>4. QED
    BY <2>1, <2>2, <2>3 DEF Init, TypeOK
<1>2. DOMAIN jobs = {} /\ notified = {} /\ \A e \in Events : ~Recorded(e)
  BY DEF Init, Recorded, Unknown
<1>3. \A s \in Slots : SlotInv(s)
  BY DEF Init, SlotInv, Idle
<1>4. QED
  BY <1>1, <1>2, <1>3 DEF SInv
-----------------------------------------------------------------------------
(* Steps that touch nothing but jobs, slots and the fault count.            *)
LEMMA JobStep ==
  ASSUME SInv, Kept(jobs, jobs'), slots' \in [Slots -> SlotState],
         faults' \in 0 .. MaxFaults,
         UNCHANGED <<events, outbox, products, stock, notified>>,
         \A s \in Slots : slots'[s] = slots[s] \/ slots'[s].step = "idle" \/ SlotInv(s)'
  PROVE  SInv'
<1>1. DOMAIN jobs' = DOMAIN jobs /\ jobs' \in [DOMAIN jobs' -> Job]
  BY DEF Kept
<1>2. TypeOK'
  BY <1>1 DEF SInv, TypeOK
<1>3. Grows
  BY <1>1 DEF Grows, Recorded
<1>4. \A s \in Slots : slots'[s].step = "idle" => SlotInv(s)'
  BY DEF SlotInv
<1>5. \A e \in DOMAIN jobs' : jobs'[e].st = "completed" =>
         e \in DOMAIN jobs /\ jobs'[e] = jobs[e]
  BY <1>1 DEF Kept
<1>6. \A n \in notified' : n \in notified
  OBVIOUS
<1>7. QED
  BY <1>1, <1>2, <1>3, <1>4, <1>5, <1>6, EventsKept, Assemble

LEMMA KeptAsIs ==
  ASSUME SInv, UNCHANGED jobs  PROVE Kept(jobs, jobs')
BY DEF SInv, TypeOK, Kept

LEMMA TakeKeeps ==
  ASSUME SInv, NEW s \in Slots, Take(s)  PROVE SInv'
<1>1. PICK e \in DOMAIN jobs :
        /\ jobs' = Claim(jobs, e, s)
        /\ slots' = [slots EXCEPT ![s] = [step |-> "update", event |-> e, updated |-> {}]]
  BY DEF Take, Goto
<1>2. e \in Events /\ slots \in [Slots -> SlotState]
  BY DEF SInv, TypeOK
<1>3. Kept(jobs, jobs')
  BY <1>1, ClaimKeeps DEF SInv, TypeOK
<1>4. slots' \in [Slots -> SlotState]
  BY <1>1, <1>2 DEF SlotState
<1>5. slots'[s] = [step |-> "update", event |-> e, updated |-> {}]
  BY <1>1, <1>2
<1>6. SlotInv(s)'
  BY <1>3, <1>5 DEF SlotInv, Kept
<1>7. \A t \in Slots : slots'[t] = slots[t] \/ SlotInv(t)'
  BY <1>1, <1>2, <1>6
<1>8. QED
  BY <1>3, <1>4, <1>7, JobStep DEF Take, SInv, TypeOK

LEMMA FailKeepsInv ==
  ASSUME SInv, NEW s \in Slots, AttemptFails(s)  PROVE SInv'
<1>1. slots[s].step # "idle" /\ SlotInv(s) /\ EventOf(s) \in DOMAIN jobs
  BY DEF AttemptFails, SInv, SlotInv, EventOf
<1>2. Kept(jobs, jobs')
  BY <1>1, FailKeeps DEF AttemptFails, SInv, TypeOK
<1>3. slots' \in [Slots -> SlotState]
  BY IdleIsState DEF AttemptFails, Goto, SInv, TypeOK
<1>4. \A t \in Slots : slots'[t] = slots[t] \/ slots'[t].step = "idle"
  BY DEF AttemptFails, Goto, Idle, SInv, TypeOK
<1>5. faults' \in 0 .. MaxFaults
  BY StreamAssumption DEF AttemptFails, SInv, TypeOK
<1>6. QED
  BY <1>2, <1>3, <1>4, <1>5, JobStep DEF AttemptFails

LEMMA CrashKeeps ==
  ASSUME SInv, WorkerCrash  PROVE SInv'
<1>1. slots' \in [Slots -> SlotState] /\ \A t \in Slots : slots'[t].step = "idle"
  BY IdleIsState DEF WorkerCrash, Idle
<1>2. faults' \in 0 .. MaxFaults
  BY StreamAssumption DEF WorkerCrash, SInv, TypeOK
<1>3. QED
  BY <1>1, <1>2, KeptAsIs, JobStep DEF WorkerCrash

LEMMA StallKeepsInv ==
  ASSUME SInv, NEW e \in DOMAIN jobs, RecoverOrphan(e) \/ LoseLock(e)  PROVE SInv'
<1>1. Kept(jobs, jobs')
  BY StallKeeps DEF RecoverOrphan, LoseLock, SInv, TypeOK
<1>2. faults' \in 0 .. MaxFaults
  BY StreamAssumption DEF RecoverOrphan, LoseLock, SInv, TypeOK
<1>3. QED
  BY <1>1, <1>2, JobStep DEF RecoverOrphan, LoseLock, SInv, TypeOK

LEMMA StutterKeeps ==
  ASSUME SInv, UNCHANGED vars  PROVE SInv'
BY KeptAsIs, JobStep DEF vars, SInv, TypeOK

-----------------------------------------------------------------------------
(* Steps of the API and of parse-sheet.                                     *)

LEMMA PostKeeps ==
  ASSUME SInv, NEW e \in Events, NEW k \in Kinds, NEW part \in Parts,
         NEW d \in Dealers, Post(e, k, part, d)
  PROVE  SInv'
<1> DEFINE new == [request |-> "recorded", kind |-> k, part |-> part,
                   dealer |-> d, status |-> "PENDING", error |-> FALSE]
<1>1. ~Recorded(e) /\ events \in [Events -> Event] /\ new \in Event
  BY DEF Post, Recorded, SInv, TypeOK, Event
<1>2. events' = [events EXCEPT ![e] = new]
  BY DEF Post
<1>3. events' \in [Events -> Event] /\ events'[e] = new
      /\ \A i \in Events : i # e => events'[i] = events[i]
  BY <1>1, <1>2
<1>4. TypeOK'
  BY <1>3 DEF Post, SInv, TypeOK
<1>5. Grows
  BY <1>1, <1>3 DEF Post, Grows, Recorded
<1>6. \A i \in Events : Recorded(i)' => events'[i].part \in Parts
  BY <1>3 DEF SInv, Recorded
<1>7. \A i \in DOMAIN jobs' : Recorded(i)'
  BY <1>5 DEF Post, Grows, SInv, TypeOK
<1>8. QED
  BY <1>4, <1>5, <1>6, <1>7, Assemble DEF Post

(* The request ends: only its own state changes. *)
LEMMA RequestEnds ==
  ASSUME SInv, NEW e \in Events, NEW r \in {"accepted", "lost"}, Recorded(e),
         events' = [events EXCEPT ![e].request = r]
  PROVE  /\ events' \in [Events -> Event]
         /\ \A i \in Events : /\ Recorded(i)' <=> Recorded(i)
                              /\ events'[i].part = events[i].part
                              /\ events'[i].status = events[i].status
<1>1. events \in [Events -> Event] /\ events[e] \in Event
  BY DEF SInv, TypeOK
<1>2. [events[e] EXCEPT !.request = r] \in Event
  BY <1>1 DEF Event
<1>3. QED
  BY <1>1, <1>2 DEF Recorded, Event

LEMMA EnqueueKeeps ==
  ASSUME SInv, NEW e \in Events, Enqueue(e)  PROVE SInv'
<1>1. /\ events' \in [Events -> Event]
      /\ \A i \in Events : /\ Recorded(i)' <=> Recorded(i)
                           /\ events'[i].part = events[i].part
                           /\ events'[i].status = events[i].status
  BY RequestEnds DEF Enqueue, Recorded
<1>2. Recorded(e) /\ jobs \in [DOMAIN jobs -> Job] /\ DOMAIN jobs \subseteq Events
  BY DEF Enqueue, Recorded, SInv, TypeOK
<1>3. /\ DOMAIN jobs' = DOMAIN jobs \cup {e} /\ jobs' \in [DOMAIN jobs' -> Job]
      /\ \A i \in DOMAIN jobs' : jobs'[i].st = "completed" =>
              i \in DOMAIN jobs /\ jobs'[i] = jobs[i]
  BY <1>2, AddKeeps DEF Enqueue
<1>4. TypeOK'
  BY <1>1, <1>2, <1>3 DEF Enqueue, SInv, TypeOK
<1>5. Grows
  BY <1>1, <1>3 DEF Enqueue, Grows
<1>6. \A i \in Events : Recorded(i)' => events'[i].part \in Parts
  BY <1>1 DEF SInv
<1>7. \A i \in DOMAIN jobs' : Recorded(i)'
  BY <1>1, <1>2, <1>3 DEF SInv
<1>8. QED
  BY <1>3, <1>4, <1>5, <1>6, <1>7, Assemble DEF Enqueue

LEMMA LoseKeeps ==
  ASSUME SInv, NEW e \in Events, LoseEvent(e)  PROVE SInv'
<1>1. /\ events' \in [Events -> Event]
      /\ \A i \in Events : /\ Recorded(i)' <=> Recorded(i)
                           /\ events'[i].part = events[i].part
                           /\ events'[i].status = events[i].status
  BY RequestEnds DEF LoseEvent, Recorded
<1>2. faults' \in 0 .. MaxFaults
  BY StreamAssumption DEF LoseEvent, SInv, TypeOK
<1>4. TypeOK'
  BY <1>1, <1>2 DEF LoseEvent, SInv, TypeOK
<1>5. Grows
  BY <1>1 DEF LoseEvent, Grows
<1>6. \A i \in Events : Recorded(i)' => events'[i].part \in Parts
  BY <1>1 DEF SInv
<1>7. \A i \in DOMAIN jobs' : Recorded(i)'
  BY <1>1 DEF LoseEvent, SInv, TypeOK
<1>8. QED
  BY <1>4, <1>5, <1>6, <1>7, Assemble DEF LoseEvent

LEMMA IngestKeeps ==
  ASSUME SInv, NEW p \in Products, Ingest(p)  PROVE SInv'
<1>1. TypeOK'
  BY DEF Ingest, SInv, TypeOK
<1>2. Grows
  BY DEF Ingest, Grows, Recorded
<1>3. QED
  BY <1>1, <1>2, EventsKept, Assemble DEF Ingest

-----------------------------------------------------------------------------
(* Steps of an attempt.                                                     *)

(* What a slot that runs an event knows of it. *)
LEMMA Busy ==
  ASSUME SInv, NEW s \in Slots, slots[s].step # "idle"
  PROVE  /\ EventOf(s) \in DOMAIN jobs /\ EventOf(s) \in Events /\ Recorded(EventOf(s))
         /\ slots[s] \in SlotState /\ SlotInv(s)
BY DEF SInv, SlotInv, TypeOK, EventOf

LEMMA UpdateKeeps ==
  ASSUME SInv, NEW s \in Slots, Update(s)  PROVE SInv'
<1>. PICK e \in Events : e = EventOf(s)
  BY Busy DEF Update, At
<1> DEFINE reached == Matching(e)
<1>1. slots[s].step # "idle" /\ reached \subseteq products /\ products \subseteq Products
  BY DEF Update, At, Matching, SInv, TypeOK
<1>2. e \in Events /\ e \in DOMAIN jobs /\ slots[s] \in SlotState /\ e # None
  BY <1>1, Busy, StreamAssumption
<1> DEFINE now == [slots[s] EXCEPT !.step = "mark", !.updated = reached]
<1>3. now \in SlotState
  BY <1>1, <1>2 DEF SlotState
<1>4. slots' = [slots EXCEPT ![s] = now] /\ slots \in [Slots -> SlotState]
  BY DEF Update, Goto, SInv, TypeOK
<1>5. slots' \in [Slots -> SlotState] /\ slots'[s] = now
      /\ \A t \in Slots : t # s => slots'[t] = slots[t]
  BY <1>3, <1>4
<1>6. stock' = [p \in Products |-> IF p \in reached THEN e ELSE stock[p]]
  BY DEF Update
<1>7. stock' \in [Products -> Events \cup {None}]
  BY <1>2, <1>6 DEF SInv, TypeOK
<1>8. TypeOK'
  BY <1>5, <1>7 DEF Update, SInv, TypeOK
<1>9. Grows
  BY <1>2, <1>6 DEF Update, Grows, Recorded
<1>10. now.step = "mark" /\ now.event = e /\ now.updated = reached
  BY <1>2 DEF SlotState, EventOf
<1>11. Matching(e)' = reached
  BY DEF Update, Matching
<1>12. SlotInv(s)'
  BY <1>1, <1>2, <1>5, <1>6, <1>10, <1>11 DEF Update, SlotInv
<1>13. QED
  BY <1>5, <1>8, <1>9, <1>12, EventsKept, Assemble DEF Update

(* Either outcome of Mark sets the status and leaves the part. *)
LEMMA Marked ==
  ASSUME SInv, NEW s \in Slots, Mark(s)
  PROVE  /\ events' \in [Events -> Event]
         /\ \A i \in Events : /\ Recorded(i)' <=> Recorded(i)
                              /\ events'[i].part = events[i].part
                              /\ events[i].status # "PENDING" =>
                                   events'[i].status # "PENDING"
         /\ events'[EventOf(s)].status # "PENDING"
<1> DEFINE e == EventOf(s)
<1>1. e \in Events /\ events \in [Events -> Event] /\ events[e] \in Event
  BY Busy DEF Mark, At, SInv, TypeOK
<1>2. PICK row \in Event : /\ events' = [events EXCEPT ![e] = row]
                           /\ row.request = events[e].request
                           /\ row.part = events[e].part
                           /\ row.status # "PENDING"
  <2>1. CASE slots[s].updated = {}
    <3> DEFINE row == [events[e] EXCEPT !.status = "FAILED", !.error = TRUE]
    <3>1. row \in Event /\ row.request = events[e].request
          /\ row.part = events[e].part /\ row.status = "FAILED"
      BY <1>1 DEF Event
    <3>2. events' = [events EXCEPT ![e] = row]
      BY <1>1, <2>1 DEF Mark
    <3>3. QED
      BY <3>1, <3>2
  <2>2. CASE slots[s].updated # {}
    <3> DEFINE row == [events[e] EXCEPT !.status = "PROCESSED"]
    <3>1. row \in Event /\ row.request = events[e].request
          /\ row.part = events[e].part /\ row.status = "PROCESSED"
      BY <1>1 DEF Event
    <3>2. events' = [events EXCEPT ![e] = row]
      BY <1>1, <2>2 DEF Mark
    <3>3. QED
      BY <3>1, <3>2
  <2>3. QED
    BY <2>1, <2>2
<1>3. QED
  BY <1>1, <1>2 DEF Recorded

LEMMA MarkKeeps ==
  ASSUME SInv, NEW s \in Slots, Mark(s)  PROVE SInv'
<1>. PICK e \in Events : e = EventOf(s)
  BY Busy DEF Mark, At
<1>1. /\ slots[s].step = "mark" /\ slots \in [Slots -> SlotState] /\ slots[s] \in SlotState
      /\ e \in DOMAIN jobs /\ e \in Events /\ SlotInv(s)
  BY Busy DEF Mark, At, SInv, TypeOK
<1>2. PICK step \in {"done", "notify"} :
        /\ slots' = [slots EXCEPT ![s] = [slots[s] EXCEPT !.step = step]]
        /\ step = "done" <=> slots[s].updated = {}
  BY DEF Mark, Goto
<1>3. /\ slots' \in [Slots -> SlotState]
      /\ slots'[s].step = step /\ slots'[s].event = e
      /\ slots'[s].updated = slots[s].updated
      /\ \A t \in Slots : t # s => slots'[t] = slots[t]
  BY <1>1, <1>2 DEF SlotState, EventOf
<1>4. TypeOK'
  BY <1>3, Marked DEF Mark, SInv, TypeOK
<1>5. Grows
  BY Marked DEF Mark, Grows
<1>6. Matching(e)' = Matching(e)
  BY <1>1, Marked DEF Mark, Matching
<1>7. /\ slots[s].updated \subseteq Matching(e)'
      /\ \A p \in slots[s].updated : stock'[p] # None
  BY <1>1, <1>6 DEF Mark, SlotInv, EventOf
<1>8. SlotInv(s)'
  <2>1. e \in DOMAIN jobs' /\ events'[e].status # "PENDING"
    BY <1>1, Marked DEF Mark
  <2>2. step = "done" => slots[s].updated = {}
    BY <1>2
  <2>3. step = "notify" => slots[s].updated # {}
    BY <1>2
  <2>4. QED
    BY <1>3, <1>7, <2>1, <2>2, <2>3 DEF SlotInv
<1>9. \A i \in Events : Recorded(i)' => events'[i].part \in Parts
  BY Marked DEF SInv
<1>10. \A i \in DOMAIN jobs' : Recorded(i)'
  BY Marked DEF Mark, SInv, TypeOK
<1>11. QED
  BY <1>3, <1>4, <1>5, <1>8, <1>9, <1>10, Assemble DEF Mark

LEMMA NotifyKeeps ==
  ASSUME SInv, NEW s \in Slots, Notify(s)  PROVE SInv'
<1>. PICK e \in Events : e = EventOf(s)
  BY Busy DEF Notify, At
<1>1. /\ slots[s].step = "notify" /\ slots \in [Slots -> SlotState] /\ slots[s] \in SlotState
      /\ e \in DOMAIN jobs /\ e \in Events /\ SlotInv(s) /\ Recorded(e)
  BY Busy DEF Notify, At, SInv, TypeOK
<1>2. PICK p \in slots[s].updated : notified' = notified \cup {<<e, p>>}
  BY DEF Notify
<1>3. /\ p \in Matching(e) /\ p \in products /\ p \in Products /\ p[1] = events[e].part
      /\ events[e].status # "PENDING" /\ stock[p] # None
      /\ slots[s].updated \subseteq Matching(e)
      /\ \A q \in slots[s].updated : stock[q] # None
  BY <1>1, <1>2 DEF SlotInv, EventOf, Matching, SInv, TypeOK
<1>4. /\ slots' \in [Slots -> SlotState]
      /\ slots'[s].step = "done" /\ slots'[s].event = e
      /\ slots'[s].updated = slots[s].updated
      /\ \A t \in Slots : t # s => slots'[t] = slots[t]
  BY <1>1 DEF Notify, Goto, SlotState, EventOf
<1>5. TypeOK'
  BY <1>1, <1>2, <1>3, <1>4 DEF Notify, SInv, TypeOK
<1>6. Grows
  BY <1>2 DEF Notify, Grows, Recorded
<1>7. Matching(e)' = Matching(e)
  BY DEF Notify, Matching
<1>8. SlotInv(s)'
  BY <1>1, <1>2, <1>3, <1>4, <1>7 DEF Notify, SlotInv
<1>9. ToldInv(<<e, p>>)'
  BY <1>1, <1>3 DEF Notify, ToldInv, Recorded
<1>10. \A n \in notified' : n \in notified \/ ToldInv(n)'
  BY <1>2, <1>9
<1>11. QED
  BY <1>4, <1>5, <1>6, <1>8, <1>10, EventsKept, Assemble DEF Notify

(* Cardinality is a number, and zero only when nothing was updated. *)
LEMMA Counted ==
  ASSUME NEW reached \in SUBSET Products
  PROVE  /\ Cardinality(reached) \in Nat
         /\ reached = {} => Cardinality(reached) = 0
<1>1. IsFiniteSet(Products)
  BY StreamAssumption, FS_Product DEF Products
<1>2. QED
  BY <1>1, FS_Subset, FS_CardinalityType, FS_EmptySet

LEMMA FinishKeeps ==
  ASSUME SInv, NEW s \in Slots, Finish(s)  PROVE SInv'
<1>. PICK e \in Events : e = EventOf(s)
  BY Busy DEF Finish, At
<1> DEFINE ret == Cardinality(slots[s].updated)
<1>1. /\ slots[s].step = "done" /\ slots \in [Slots -> SlotState] /\ slots[s] \in SlotState
      /\ e \in DOMAIN jobs /\ e \in Events /\ SlotInv(s)
      /\ jobs \in [DOMAIN jobs -> Job] /\ DOMAIN jobs \subseteq Events
  BY Busy DEF Finish, At, SInv, TypeOK
<1>2. ret \in Nat /\ (slots[s].updated = {} => ret = 0)
  BY <1>1, Counted DEF SlotState
<1>3. /\ jobs' \in [DOMAIN jobs -> Job]
      /\ \A i \in DOMAIN jobs : jobs'[i].st = "completed" =>
           jobs'[i] = jobs[i] \/ (i = e /\ jobs'[i].ret = ret)
  BY <1>1, <1>2, CompleteKeeps DEF Finish
<1>4. DOMAIN jobs' = DOMAIN jobs
  BY <1>3
<1>5. slots' \in [Slots -> SlotState]
      /\ \A t \in Slots : slots'[t] = slots[t] \/ slots'[t].step = "idle"
  BY <1>1, IdleIsState DEF Finish, Goto, Idle
<1>6. TypeOK'
  BY <1>3, <1>4, <1>5 DEF Finish, SInv, TypeOK
<1>7. Grows
  BY <1>4 DEF Finish, Grows, Recorded
<1>8. \A t \in Slots : slots'[t].step = "idle" => SlotInv(t)'
  BY DEF SlotInv
<1>9. ret # 0 => \E p \in Matching(e) : <<e, p>> \in notified /\ stock[p] # None
  BY <1>1, <1>2 DEF SlotInv, EventOf
<1>10. Matching(e)' = Matching(e)
  BY DEF Finish, Matching
<1>11. ASSUME NEW i \in DOMAIN jobs', jobs'[i].st = "completed", jobs'[i] # jobs[i]
       PROVE  DoneInv(i)'
  BY <1>3, <1>4, <1>9, <1>10, <1>11 DEF Finish, DoneInv
<1>12. QED
  BY <1>4, <1>5, <1>6, <1>7, <1>8, <1>11, EventsKept, Assemble DEF Finish

-----------------------------------------------------------------------------
LEMMA NextInv == SInv /\ [Next]_vars => SInv'
<1> SUFFICES ASSUME SInv, [Next]_vars PROVE SInv'
  OBVIOUS
<1>1. \A s \in Slots : Work(s) => SInv'
  BY UpdateKeeps, MarkKeeps, NotifyKeeps, FinishKeeps DEF Work
<1>2. QED
  BY <1>1, PostKeeps, EnqueueKeeps, LoseKeeps, IngestKeeps, TakeKeeps, FailKeepsInv,
     CrashKeeps, StallKeepsInv, StutterKeeps DEF Next

LEMMA Inductive == Spec => []SInv
BY InitInv, NextInv, PTL DEF Spec

(***************************************************************************)
(* Every variable keeps its type, whatever overlaps and fails.             *)
(***************************************************************************)
THEOREM StreamTyped == Spec => []TypeOK
<1>1. SInv => TypeOK
  BY DEF SInv
<1>2. QED
  BY <1>1, Inductive, PTL

(***************************************************************************)
(* A listener that is told of an event finds it marked and finds the       *)
(* product: no retry, overlap or crash lets a NOTIFY run ahead of the rows *)
(* it is about.                                                            *)
(***************************************************************************)
THEOREM ToldSafe == Spec => []ToldIsRecorded
<1>1. SInv => ToldIsRecorded
  BY DEF SInv, ToldInv, ToldIsRecorded
<1>2. QED
  BY <1>1, Inductive, PTL

(***************************************************************************)
(* A job that completed with products updated has told the listeners of    *)
(* one of them, and it still shows a level.                                *)
(***************************************************************************)
THEOREM CompletedTold == Spec => []CompletedIsTold
<1>1. SInv => CompletedIsTold
  BY DEF SInv, DoneInv, CompletedIsTold
<1>2. QED
  BY <1>1, Inductive, PTL
-----------------------------------------------------------------------------
(* The streaming path implements the stock ledger: the transaction of a     *)
(* POST records, the UPDATE of the worker applies, and nothing else shows.  *)

Ledgered == [e \in Events |-> IF Recorded(e) THEN events[e].part ELSE None]

LEMMA LedgerQuiet ==
  ASSUME SInv, UNCHANGED stock,
         \A e \in Events : /\ Recorded(e)' <=> Recorded(e)
                           /\ events'[e].part = events[e].part
  PROVE  UNCHANGED Ledger!vars
<1>1. Ledgered' = Ledgered
  BY DEF Ledgered
<1>2. QED
  BY <1>1 DEF Ledger!vars, Ledgered, Recorded

LEMMA PostRecords ==
  ASSUME SInv, NEW e \in Events, NEW k \in Kinds, NEW part \in Parts,
         NEW d \in Dealers, Post(e, k, part, d)
  PROVE  Ledger!Next
<1>1. ~Recorded(e) /\ events \in [Events -> Event]
  BY DEF Post, Recorded, SInv, TypeOK
<1>2. Recorded(e)' /\ events'[e].part = part
      /\ \A i \in Events : i # e => events'[i] = events[i]
  BY <1>1 DEF Post, Recorded
<1>3. Ledgered[e] = None /\ Ledgered' = [Ledgered EXCEPT ![e] = part]
  BY <1>1, <1>2 DEF Ledgered, Recorded
<1>4. Ledger!Record(e, part)
  BY <1>3 DEF Ledger!Record, Ledgered, Recorded, Post
<1>5. QED
  BY <1>4 DEF Ledger!Next

LEMMA UpdateApplies ==
  ASSUME SInv, NEW s \in Slots, Update(s)  PROVE Ledger!Next
<1>. PICK e \in Events : e = EventOf(s)
  BY Busy DEF Update, At
<1>1. Recorded(e) /\ events[e].part \in Parts
  BY Busy DEF Update, At, SInv
<1>2. Matching(e) \in SUBSET Products /\ \A p \in Matching(e) : p[1] = events[e].part
  BY DEF Matching, SInv, TypeOK
<1>3. events[e].part # None
  BY <1>1, StreamAssumption
<1>4. Ledger!Apply(e, Matching(e))
  BY <1>1, <1>2, <1>3 DEF Ledger!Apply, Update, Recorded
<1>5. QED
  BY <1>2, <1>4 DEF Ledger!Next

LEMMA StepLedgered ==
  ASSUME SInv, [Next]_vars  PROVE [Ledger!Next]_(Ledger!vars)
<1>1. UNCHANGED <<events, stock>> => UNCHANGED Ledger!vars
  BY DEF Ledger!vars
<1>2. \A e \in Events : Enqueue(e) \/ LoseEvent(e) => UNCHANGED Ledger!vars
  BY RequestEnds, LedgerQuiet DEF Enqueue, LoseEvent, Recorded
<1>3. \A s \in Slots : Mark(s) => UNCHANGED Ledger!vars
  BY Marked, LedgerQuiet DEF Mark
<1>4. \A s \in Slots : Take(s) \/ Notify(s) \/ Finish(s) \/ AttemptFails(s)
         => UNCHANGED <<events, stock>>
  BY DEF Take, Notify, Finish, AttemptFails
<1>5. WorkerCrash \/ UNCHANGED vars => UNCHANGED <<events, stock>>
  BY DEF WorkerCrash, vars
<1>6. \A e \in DOMAIN jobs : RecoverOrphan(e) \/ LoseLock(e) => UNCHANGED <<events, stock>>
  BY DEF RecoverOrphan, LoseLock
<1>7. \A p \in Products : Ingest(p) => UNCHANGED <<events, stock>>
  BY DEF Ingest
<1>8. QED
  BY <1>1, <1>2, <1>3, <1>4, <1>5, <1>6, <1>7, PostRecords, UpdateApplies DEF Next, Work

(***************************************************************************)
(* Whatever is retried, overlaps or crashes, a level that a product shows  *)
(* was announced by a recorded event about its part.                       *)
(***************************************************************************)
THEOREM LedgerRefined == Spec => LedgerSpec
<1>1. Init => Ledger!Init
  BY DEF Init, Ledger!Init, Unknown
<1>2. SInv /\ [Next]_vars => [Ledger!Next]_(Ledger!vars)
  BY StepLedgered
<1>3. QED
  BY <1>1, <1>2, Inductive, PTL DEF Spec, LedgerSpec, Ledger!Spec
=============================================================================
