---------------------------- MODULE StreamEvents ----------------------------
(***************************************************************************)
(* The streaming path of track-a-jd-native.  POST /events/<kind> records   *)
(* an event and its outbox row in one transaction and then queues a job    *)
(* under the event's id; the stream-inventory worker applies the level to  *)
(* the products of the part, marks the event, and notifies, in three       *)
(* statements of their own.  No worker consumes the pricing and the order  *)
(* queues, and nothing reads the outbox.                                   *)
(*                                                                         *)
(* A stock level is named by the event that carried it.  Products come     *)
(* into being while this runs: parse-sheet upserts them, and its ON        *)
(* CONFLICT clause leaves data_quality, where the level is, alone.         *)
(***************************************************************************)
EXTENDS JobQueue, FiniteSets

CONSTANTS
  Events,     \* event ids; a client's retry of a POST gets an id of its own
  Kinds,      \* "inventory", "pricing", "order"
  Parts,      \* part_number_norm values
  Dealers,    \* tenants
  Slots,      \* concurrency of the stream-inventory worker
  MaxFaults   \* bound on crashes, failed calls and lost locks together

Products == Parts \X Dealers

ASSUME StreamAssumption ==
  /\ MaxFaults \in Nat
  /\ "inventory" \in Kinds
  /\ IsFiniteSet(Parts) /\ IsFiniteSet(Dealers)
  /\ None \notin Events \cup Slots \cup Parts \cup Dealers \cup Kinds

VARIABLES
  events,    \* stream_events, and how far the POST got
  outbox,    \* stream_outbox: ids of the events it holds
  jobs,      \* the job tables of the stream queues
  slots,     \* what each slot of the worker is executing
  products,  \* rows of products
  stock,     \* data_quality.stock_level: the event that set it
  notified,  \* NOTIFYs sent: event and the product named in it
  faults

vars == <<events, outbox, jobs, slots, products, stock, notified, faults>>

Unknown == [request |-> "none", kind |-> None, part |-> None, dealer |-> None,
            status |-> None, error |-> FALSE]
Idle    == [step |-> "idle", event |-> None, updated |-> {}]

Init ==
  /\ events = [e \in Events |-> Unknown]
  /\ outbox = {}
  /\ jobs = [e \in {} |-> Fresh(e)]
  /\ slots = [s \in Slots |-> Idle]
  /\ products = {}
  /\ stock = [p \in Products |-> None]
  /\ notified = {}
  /\ faults = 0

-----------------------------------------------------------------------------
(* The API process.                                                         *)

(* Mutant: the job is queued before the transaction. *)
PostQueuedFirst(e, kind, part, dealer) ==
  /\ events[e].request = "none"
  /\ events' = [events EXCEPT ![e].kind = kind, ![e].part = part,
                              ![e].dealer = dealer]
  /\ jobs' = Add(jobs, e, e)
  /\ UNCHANGED <<outbox, slots, products, stock, notified, faults>>

(* The transaction of handleEvent.  A request without a dealer id or with   *)
(* an invalid payload is refused before it.                                 *)
Post(e, kind, part, dealer) ==
  /\ events[e].request = "none"
  /\ events' = [events EXCEPT ![e] =
       [request |-> "recorded", kind |-> kind, part |-> part,
        dealer |-> dealer, status |-> "PENDING", error |-> FALSE]]
  /\ outbox' = outbox \cup {e}
  /\ UNCHANGED <<jobs, slots, products, stock, notified, faults>>

(* queue.add with the event's id, then 202. *)
Enqueue(e) ==
  /\ events[e].request = "recorded"
  /\ events' = [events EXCEPT ![e].request = "accepted"]
  /\ jobs' = Add(jobs, e, e)
  /\ UNCHANGED <<outbox, slots, products, stock, notified, faults>>

(* The API dies, or Redis refuses, after the commit. *)
LoseEvent(e) ==
  /\ faults < MaxFaults
  /\ events[e].request = "recorded"
  /\ events' = [events EXCEPT ![e].request = "lost"]
  /\ faults' = faults + 1
  /\ UNCHANGED <<outbox, jobs, slots, products, stock, notified>>

(* parse-sheet upserts a product for the first time. *)
Ingest(p) ==
  /\ p \notin products
  /\ products' = products \cup {p}
  /\ UNCHANGED <<events, outbox, jobs, slots, stock, notified, faults>>

-----------------------------------------------------------------------------
(* The stream-inventory worker.                                             *)

At(s, step)    == slots[s].step = step
EventOf(s)     == slots[s].event
Goto(s, state) == slots' = [slots EXCEPT ![s] = state]

Take(s) ==
  /\ At(s, "idle")
  /\ \E e \in DOMAIN jobs :
       /\ Waiting(jobs, e)
       /\ events[e].kind = "inventory"
       /\ jobs' = Claim(jobs, e, s)
       /\ Goto(s, [step |-> "update", event |-> e, updated |-> {}])
  /\ UNCHANGED <<events, outbox, products, stock, notified, faults>>

(* WHERE part_number_norm = ... : whose products those are is not asked. *)
Matching(e) == {p \in products : p[1] = events[e].part}

Update(s) ==
  /\ At(s, "update")
  /\ LET reached == Matching(EventOf(s)) IN
     /\ stock' = [p \in Products |-> IF p \in reached THEN EventOf(s) ELSE stock[p]]
     /\ Goto(s, [slots[s] EXCEPT !.step = "mark", !.updated = reached])
  /\ UNCHANGED <<events, outbox, jobs, products, notified, faults>>

(* Mutant: an event without a product is dropped silently. *)
MarkOnlyFound(s) ==
  /\ At(s, "mark")
  /\ IF slots[s].updated = {}
     THEN /\ Goto(s, [slots[s] EXCEPT !.step = "done"])
          /\ UNCHANGED events
     ELSE /\ events' = [events EXCEPT ![EventOf(s)].status = "PROCESSED"]
          /\ Goto(s, [slots[s] EXCEPT !.step = "notify"])
  /\ UNCHANGED <<outbox, jobs, products, stock, notified, faults>>

(* Mutant: only the failure is marked before the listeners are told. *)
MarkOnlyFailed(s) ==
  /\ At(s, "mark")
  /\ IF slots[s].updated = {}
     THEN /\ events' = [events EXCEPT ![EventOf(s)].status = "FAILED"]
          /\ Goto(s, [slots[s] EXCEPT !.step = "done"])
     ELSE /\ Goto(s, [slots[s] EXCEPT !.step = "notify"])
          /\ UNCHANGED events
  /\ UNCHANGED <<outbox, jobs, products, stock, notified, faults>>

(* Mutant: the error text is written where the status belongs. *)
MarkErrorText(s) ==
  /\ At(s, "mark")
  /\ IF slots[s].updated = {}
     THEN /\ events' = [events EXCEPT ![EventOf(s)].status = "product_not_found"]
          /\ Goto(s, [slots[s] EXCEPT !.step = "done"])
     ELSE /\ events' = [events EXCEPT ![EventOf(s)].status = "PROCESSED"]
          /\ Goto(s, [slots[s] EXCEPT !.step = "notify"])
  /\ UNCHANGED <<outbox, jobs, products, stock, notified, faults>>

(* PROCESSED leaves the error of an earlier attempt where it is. *)
Mark(s) ==
  /\ At(s, "mark")
  /\ IF slots[s].updated = {}
     THEN /\ events' = [events EXCEPT ![EventOf(s)].status = "FAILED",
                                      ![EventOf(s)].error = TRUE]
          /\ Goto(s, [slots[s] EXCEPT !.step = "done"])
     ELSE /\ events' = [events EXCEPT ![EventOf(s)].status = "PROCESSED"]
          /\ Goto(s, [slots[s] EXCEPT !.step = "notify"])
  /\ UNCHANGED <<outbox, jobs, products, stock, notified, faults>>

(* Mutant: NOTIFY is sent without awaiting it. *)
NotifyNotAwaited(s) ==
  /\ At(s, "notify")
  /\ Goto(s, [slots[s] EXCEPT !.step = "done"])
  /\ UNCHANGED <<events, outbox, jobs, products, stock, notified, faults>>

(* updated[0]: one of the rows, in the order RETURNING gave them. *)
Notify(s) ==
  /\ At(s, "notify")
  /\ \E p \in slots[s].updated : notified' = notified \cup {<<EventOf(s), p>>}
  /\ Goto(s, [slots[s] EXCEPT !.step = "done"])
  /\ UNCHANGED <<events, outbox, jobs, products, stock, faults>>

(* { productsUpdated: updated.length } *)
Finish(s) ==
  /\ At(s, "done")
  /\ jobs' = Complete(jobs, EventOf(s), s, Cardinality(slots[s].updated))
  /\ Goto(s, Idle)
  /\ UNCHANGED <<events, outbox, products, stock, notified, faults>>

(* PostgreSQL refuses one of the three statements. *)
AttemptFails(s) ==
  /\ faults < MaxFaults
  /\ slots[s].step \in {"update", "mark", "notify"}
  /\ jobs' = FailAttempt(jobs, EventOf(s), s)
  /\ Goto(s, Idle)
  /\ faults' = faults + 1
  /\ UNCHANGED <<events, outbox, products, stock, notified>>

WorkerCrash ==
  /\ faults < MaxFaults
  /\ slots' = [s \in Slots |-> Idle]
  /\ faults' = faults + 1
  /\ UNCHANGED <<events, outbox, jobs, products, stock, notified>>

Running(e) == \E s \in Slots : Holds(jobs, e, s) /\ EventOf(s) = e

(* The lock of a job nobody runs any more expires. *)
RecoverOrphan(e) ==
  /\ jobs[e].st = "active" /\ ~Running(e)
  /\ jobs' = Stall(jobs, e)
  /\ UNCHANGED <<events, outbox, slots, products, stock, notified, faults>>

(* The event loop is blocked past the lock duration: the slot goes on. *)
LoseLock(e) ==
  /\ faults < MaxFaults
  /\ jobs[e].st = "active" /\ Running(e)
  /\ jobs' = Stall(jobs, e)
  /\ faults' = faults + 1
  /\ UNCHANGED <<events, outbox, slots, products, stock, notified>>

-----------------------------------------------------------------------------
Work(s) == Update(s) \/ Mark(s) \/ Notify(s) \/ Finish(s)

Next ==
  \/ \E e \in Events, k \in Kinds, part \in Parts, d \in Dealers :
       Post(e, k, part, d)
  \/ \E e \in Events : Enqueue(e) \/ LoseEvent(e)
  \/ \E p \in Products : Ingest(p)
  \/ \E s \in Slots : Take(s) \/ Work(s) \/ AttemptFails(s)
  \/ WorkerCrash
  \/ \E e \in DOMAIN jobs : RecoverOrphan(e) \/ LoseLock(e)

Spec == Init /\ [][Next]_vars

(***************************************************************************)
(* The API's call returns, idle slots poll, statements are answered, the   *)
(* stalled-job check runs.  Nothing makes a dealer post, a product appear  *)
(* or a fault happen.                                                      *)
(***************************************************************************)
Fairness == /\ \A e \in Events : WF_vars(Enqueue(e) \/ LoseEvent(e))
            /\ \A s \in Slots : WF_vars(Take(s)) /\ WF_vars(Work(s))
            /\ WF_vars(\E e \in DOMAIN jobs : RecoverOrphan(e))

LiveSpec == Spec /\ Fairness
-----------------------------------------------------------------------------
(* Properties.                                                              *)

Event == [request : {"none", "recorded", "accepted", "lost"},
          kind : Kinds \cup {None}, part : Parts \cup {None},
          dealer : Dealers \cup {None},
          status : {None, "PENDING", "PROCESSED", "FAILED"}, error : BOOLEAN]

Job == [st : JobStates, tries : Nat, stalls : Nat, owner : Slots \cup {None},
        ret : Nat \cup {None}, data : Events]

SlotState == [step : {"idle", "update", "mark", "notify", "done"},
              event : Events \cup {None}, updated : SUBSET Products]

(* Every variable keeps its type; job ids are event ids. *)
TypeOK ==
  /\ events \in [Events -> Event]
  /\ outbox \subseteq Events
  /\ DOMAIN jobs \subseteq Events
  /\ jobs \in [DOMAIN jobs -> Job]
  /\ slots \in [Slots -> SlotState]
  /\ products \subseteq Products
  /\ stock \in [Products -> Events \cup {None}]
  /\ notified \subseteq Events \X Products
  /\ faults \in 0 .. MaxFaults

(* A listener that hears a NOTIFY finds the event marked and the product it *)
(* names there and of the event's part, also when an attempt was repeated   *)
(* or two of them overlapped (stream-inventory.worker.ts:44-77).            *)
ToldIsRecorded ==
  \A n \in notified : /\ events[n[1]].status # "PENDING"
                      /\ n[2] \in products
                      /\ n[2][1] = events[n[1]].part

(* A job that completed having updated products has told the listeners, and *)
(* the products it reached still show a level, whatever ran in between.     *)
CompletedIsTold ==
  \A e \in DOMAIN jobs : jobs[e].st = "completed" /\ jobs[e].ret # 0 =>
    \E p \in Matching(e) : <<e, p>> \in notified /\ stock[p] # None

(* Stock levels come from recorded events about the part only.              *)
Ledger == INSTANCE StockLedger WITH
            Event <- Events, Part <- Parts, Product <- Products,
            Covers <- LAMBDA part, p : p[1] = part, Nothing <- None,
            recorded <- [e \in Events |-> IF events[e].request = "none"
                                          THEN None ELSE events[e].part]

LedgerSpec == Ledger!Spec

(* An accepted inventory event is marked, or its job is kept as failed for  *)
(* replay: it does not stay PENDING behind a dead lock.                     *)
AcceptedEventsResolve ==
  \A e \in Events :
    events[e].request = "accepted" /\ events[e].kind = "inventory" ~>
      [](\/ events[e].status # "PENDING"
         \/ e \in DOMAIN jobs /\ jobs[e].st = "failed")

(* stream-inventory.worker.ts:5: `Find the matching product by              *)
(* part_number_norm + dealer_id': a product shows the level its own dealer  *)
(* announced.                                                               *)
StockIsOwn ==
  \A p \in Products : stock[p] # None => events[stock[p]].dealer = p[2]
=============================================================================
