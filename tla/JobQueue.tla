------------------------------ MODULE JobQueue ------------------------------
(***************************************************************************)
(* The job table of a BullMQ queue as the workers and the producers of     *)
(* track-a-jd-native rely on it (src/queue/queues.ts).  BullMQ itself is a *)
(* library; what is written here is the contract the code under src/       *)
(* uses: a job id is added once, a worker holds a lock on the job it runs, *)
(* a failed attempt is retried up to `attempts', a job whose lock expired  *)
(* is put back once and fails the second time.                             *)
(*                                                                         *)
(* A table is a function from the ids in use to job records.  There is no  *)
(* order: BullMQ runs waiting jobs first-in first-out, but the exponential *)
(* backoff and the slots running in parallel make every order possible.    *)
(***************************************************************************)
EXTENDS Naturals

CONSTANT None          \* no lock holder, no return value, no reference

MaxAttempts == 3       \* defaultJobOptions.attempts

MaxStalledCount == 1   \* BullMQ's default, not overridden by workerOptions

JobStates == {"wait", "active", "completed", "failed"}

(* A job that was never attempted, carrying its payload. *)
Fresh(data) == [st |-> "wait", tries |-> 0, stalls |-> 0, owner |-> None,
                ret |-> None, data |-> data]

(***************************************************************************)
(* queue.add and queue.addBulk: `batch' maps custom job ids to payloads.   *)
(* An id that is still known to the queue, whatever the state of its job,  *)
(* is left alone: the new payload is dropped without an error.             *)
(***************************************************************************)
AddBulk(table, batch) ==
  [i \in DOMAIN table \cup DOMAIN batch |->
     IF i \in DOMAIN table THEN table[i] ELSE Fresh(batch[i])]

Add(table, id, data) == AddBulk(table, [i \in {id} |-> data])

Waiting(table, id) == id \in DOMAIN table /\ table[id].st = "wait"

Settled(job) == job.st \in {"completed", "failed"}

(* A worker slot takes a waiting job and becomes the holder of its lock. *)
Claim(table, id, slot) ==
  [table EXCEPT ![id] = [@ EXCEPT !.st = "active", !.owner = slot]]

Holds(table, id, slot) ==
  id \in DOMAIN table /\ table[id].st = "active" /\ table[id].owner = slot

(* The processor returned: only the holder of the lock can complete. *)
Complete(table, id, slot, ret) ==
  IF Holds(table, id, slot)
  THEN [table EXCEPT ![id] = [@ EXCEPT !.st = "completed", !.owner = None,
                                       !.ret = ret]]
  ELSE table

(* The processor threw: back to waiting until the attempts are used up. *)
FailAttempt(table, id, slot) ==
  LET job == table[id] IN
  IF Holds(table, id, slot)
  THEN [table EXCEPT ![id] =
          [job EXCEPT !.st = IF job.tries + 1 < MaxAttempts
                             THEN "wait" ELSE "failed",
                      !.tries = job.tries + 1, !.owner = None]]
  ELSE table

(* The lock expired: the stalled-job check takes the job from its holder. *)
Stall(table, id) ==
  LET job == table[id] IN
  [table EXCEPT ![id] =
     [job EXCEPT !.st = IF job.stalls < MaxStalledCount
                        THEN "wait" ELSE "failed",
                 !.stalls = job.stalls + 1, !.owner = None]]

(***************************************************************************)
(* removeOnComplete (after 24 h, or 5000 later ones) and removeOnFail      *)
(* (after 7 days): the id is unknown again, so that it can be added anew.  *)
(***************************************************************************)
Remove(table, id) == [i \in DOMAIN table \ {id} |-> table[i]]
=============================================================================
