------------------------ MODULE IngestPipelineProofs ------------------------
(***************************************************************************)
(* Proofs about the ingest pipeline for any number of runs, dealers, parts,*)
(* sheets and slots, any workbook, any number of versions, of faults and of  *)
(* jobs that Redis forgets.                                                *)
(***************************************************************************)
EXTENDS IngestPipeline, TLAPS, FiniteSetTheorems

-----------------------------------------------------------------------------
(* The job table.                                                           *)

JobTable(table) == /\ DOMAIN table \subseteq Payload
                   /\ table \in [DOMAIN table -> Job]

(* The update keeps the ids and the payloads of the table. *)
SameJobs(old, new) == /\ JobTable(new)
                      /\ DOMAIN new = DOMAIN old
                      /\ \A i \in DOMAIN old : new[i].data = old[i].data

(* Jobs of `batch' are new in the table, the others are as they were. *)
Adds(old, new, batch) ==
  /\ JobTable(new)
  /\ DOMAIN new = DOMAIN old \cup DOMAIN batch
  /\ \A i \in DOMAIN old : new[i] = old[i]
  /\ \A i \in DOMAIN new \ DOMAIN old : new[i].data = batch[i]

LEMMA AddBulkLemma ==
  ASSUME NEW table, JobTable(table), NEW batch,
         DOMAIN batch \subseteq Payload, \A i \in DOMAIN batch : batch[i] \in Payload
  PROVE  Adds(table, AddBulk(table, batch), batch)
BY DEF AddBulk, JobTable, Job, Fresh, JobStates, Adds

LEMMA ClaimLemma ==
  ASSUME NEW table, JobTable(table), NEW id \in DOMAIN table, NEW s \in Slots
  PROVE  SameJobs(table, Claim(table, id, s))
BY DEF Claim, SameJobs, JobTable, Job, JobStates

(* The slot may hold no lock, and its job may be forgotten: no change then. *)
LEMMA CompleteLemma ==
  ASSUME NEW table, JobTable(table), NEW id, NEW s \in Slots, NEW ret \in Memory
  PROVE  SameJobs(table, Complete(table, id, s, ret))
<1>1. CASE Holds(table, id, s)
  <2>1. id \in DOMAIN table
    BY <1>1 DEF Holds
  <2>. QED BY ZenonT(30), <1>1, <2>1 DEF Complete, SameJobs, JobTable, Job, JobStates
<1>2. CASE ~Holds(table, id, s)
  BY <1>2 DEF Complete, SameJobs
<1>. QED BY <1>1, <1>2

LEMMA FailAttemptLemma ==
  ASSUME NEW table, JobTable(table), NEW id, NEW s \in Slots
  PROVE  SameJobs(table, FailAttempt(table, id, s))
<1>1. CASE Holds(table, id, s)
  <2>1. id \in DOMAIN table /\ table[id] \in Job /\ table[id].tries + 1 \in Nat
    BY <1>1 DEF Holds, JobTable, Job
  <2>2. \A st \in JobStates, n \in Nat :
          [table[id] EXCEPT !.st = st, !.tries = n, !.owner = None] \in Job
    BY <2>1 DEF Job
  <2>. QED BY ZenonT(30), <1>1, <2>1, <2>2 DEF FailAttempt, SameJobs, JobTable, JobStates, Job
<1>2. CASE ~Holds(table, id, s)
  BY <1>2 DEF FailAttempt, SameJobs
<1>. QED BY <1>1, <1>2

LEMMA StallLemma ==
  ASSUME NEW table, JobTable(table), NEW id \in DOMAIN table
  PROVE  SameJobs(table, Stall(table, id))
<1>1. table[id] \in Job /\ table[id].stalls + 1 \in Nat
  BY DEF JobTable, Job
<1>2. \A st \in JobStates, n \in Nat :
        [table[id] EXCEPT !.st = st, !.stalls = n, !.owner = None] \in Job
  BY <1>1 DEF Job
<1>. QED BY ZenonT(30), <1>1, <1>2 DEF Stall, SameJobs, JobTable, JobStates, Job

LEMMA RemoveLemma ==
  ASSUME NEW table, JobTable(table), NEW id
  PROVE  /\ JobTable(Remove(table, id))
         /\ DOMAIN Remove(table, id) = DOMAIN table \ {id}
         /\ \A i \in DOMAIN table \ {id} : Remove(table, id)[i] = table[i]
BY DEF Remove, JobTable

-----------------------------------------------------------------------------
(***************************************************************************)
(* The inductive invariant.  A link is safe because of what is known before*)
(* it is made: an image job is queued by a slot that has just upserted the *)
(* product, so every image job, and every slot running one, names a        *)
(* catalogued product; and a slot about to link has just put its bytes or  *)
(* found them.  The rest says that a slot's locals are in range, which     *)
(* needs the dealer of a run to stay what it was when its job was queued.  *)
(***************************************************************************)
RowInHand(s) == /\ slots[s].mem.ver \in Versions
                /\ SheetOf(s) \in DOMAIN Rows[slots[s].mem.ver]
                /\ slots[s].mem.pos \in 1 .. Len(Rows[slots[s].mem.ver][SheetOf(s)])

SlotInv(s) ==
  /\ slots[s].step # "idle" => /\ slots[s].data \in Payload
                               /\ runs[RunOf(s)].request = "accepted"
  /\ slots[s].step = "fanout" => slots[s].mem.ver \in Versions
  /\ slots[s].step \in {"keepDrawings", "read", "row", "alias", "image"} =>
       slots[s].mem.draw \in Versions
  /\ slots[s].step \in {"row", "alias", "image"} => RowInHand(s)
  /\ slots[s].step \in {"alias", "image"} => ProductAt(s) \in Catalogued
  /\ slots[s].step \in ImageSteps => slots[s].data.product \in Catalogued
  /\ slots[s].step \in {"head", "put", "link"} => slots[s].mem.blob \in Blobs
  /\ slots[s].step = "link" => slots[s].mem.blob \in r2

JobInv(id) ==
  /\ runs[jobs[id].data.run].request = "accepted"
  /\ jobs[id].data.queue = "image" => jobs[id].data.product \in Catalogued

IInv == /\ TypeOK
        /\ \A s \in Slots : SlotInv(s)
        /\ \A id \in DOMAIN jobs : JobInv(id)
        /\ LinkedIsStored

(* Nothing the invariant relies on is ever taken back. *)
Grows == /\ Catalogued \subseteq Catalogued'
         /\ r2 \subseteq r2'
         /\ \A r \in Runs : runs[r].request = "accepted" =>
              runs'[r].request = "accepted" /\ runs'[r].dealer = runs[r].dealer

LEMMA InitInv == Init => IInv
<1>. SUFFICES ASSUME Init PROVE IInv
  OBVIOUS
<1>1. Idle \in SlotState
  BY WorkbookAssumption DEF Idle, Blank, SlotState, Memory
<1>2. TypeOK
  BY <1>1, WorkbookAssumption DEF Init, TypeOK, Run, Versions
<1>3. \A s \in Slots : SlotInv(s)
  BY DEF Init, SlotInv, Idle, ImageSteps
<1>4. (\A id \in DOMAIN jobs : JobInv(id)) /\ LinkedIsStored
  BY DEF Init, LinkedIsStored
<1>. QED BY <1>2, <1>3, <1>4 DEF IInv

(* A slot that did not move keeps its part of the invariant. *)
LEMMA KeptSlot ==
  ASSUME NEW s \in Slots, TypeOK, SlotInv(s), Grows, slots'[s] = slots[s]
  PROVE  SlotInv(s)'
<1>1. CASE slots[s].step = "idle"
  BY <1>1 DEF SlotInv, ImageSteps
<1>2. CASE slots[s].step # "idle"
  <2>1. RunOf(s) \in Runs /\ RunOf(s)' = RunOf(s)
    BY <1>2 DEF SlotInv, RunOf, Payload
  <2>2. /\ runs'[RunOf(s)].request = "accepted"
        /\ ProductAt(s)' = ProductAt(s)
    BY <1>2, <2>1 DEF SlotInv, Grows, ProductAt, DealerOf, RowAt, SheetOf
  <2>3. RowInHand(s) => RowInHand(s)'
    BY DEF RowInHand, SheetOf
  <2>. QED BY <1>2, <2>1, <2>2, <2>3 DEF SlotInv, Grows
<1>. QED BY <1>1, <1>2

LEMMA KeptJobs ==
  ASSUME IInv, Grows, NEW id \in DOMAIN jobs,
         jobs'[id].data = jobs[id].data
  PROVE  JobInv(id)'
<1>1. jobs[id].data.run \in Runs
  BY DEF IInv, TypeOK, Job, Payload
<1>. QED BY <1>1 DEF IInv, JobInv, Grows

(* All of TypeOK but the slots. *)
RestOK ==
  /\ disk \in Versions /\ runs \in [Runs -> Run] /\ JobTable(jobs)
  /\ drawings \in 0 .. MaxVersion /\ archive \in 0 .. MaxVersion
  /\ products \in [Products -> [ver : 0 .. MaxVersion, sha : 0 .. MaxVersion]]
  /\ aliases \subseteq Products /\ r2 \subseteq Blobs
  /\ links \subseteq Products \X Blobs
  /\ expired \subseteq Payload /\ faults \in 0 .. MaxFaults

LEMMA TypeParts == TypeOK <=> RestOK /\ slots \in [Slots -> SlotState]
BY DEF TypeOK, RestOK, JobTable

(* Everything but the slots and the caches is left alone. *)
LEMMA Untouched ==
  ASSUME IInv, UNCHANGED <<disk, runs, jobs, stores, expired, faults>>,
         drawings' \in 0 .. MaxVersion, archive' \in 0 .. MaxVersion
  PROVE  RestOK' /\ Grows /\ (\A id \in DOMAIN jobs' : JobInv(id)')
         /\ LinkedIsStored'
BY TypeParts DEF IInv, RestOK, JobTable, Grows, JobInv, LinkedIsStored, stores,
                 Catalogued

Steps == {"idle", "done"} \cup FileSteps \cup SheetSteps \cup ImageSteps

LEMMA MemType ==
  ASSUME TypeOK, NEW s \in Slots
  PROVE  /\ slots[s].mem \in Memory
         /\ \A v \in 0 .. MaxVersion :
              /\ [slots[s].mem EXCEPT !.ver = v] \in Memory
              /\ [slots[s].mem EXCEPT !.draw = v] \in Memory
         /\ \A n \in Nat : /\ [slots[s].mem EXCEPT !.pos = n] \in Memory
                          /\ [slots[s].mem EXCEPT !.failed = n] \in Memory
         /\ \A b \in Blobs : [slots[s].mem EXCEPT !.blob = b] \in Memory
<1>1. slots[s].mem \in Memory
  BY DEF TypeOK, SlotState
<1>. QED BY <1>1 DEF Memory

(* What SlotInv asks of a step and its locals, given the stores. *)
Ready(s, step, mem, catalogued, stored) ==
  /\ step = "fanout" => mem.ver \in Versions
  /\ step \in {"keepDrawings", "read", "row", "alias", "image"} =>
       mem.draw \in Versions
  /\ step \in {"row", "alias", "image"} =>
       /\ mem.ver \in Versions
       /\ SheetOf(s) \in DOMAIN Rows[mem.ver]
       /\ mem.pos \in 1 .. Len(Rows[mem.ver][SheetOf(s)])
  /\ step \in {"alias", "image"} =>
       <<Rows[mem.ver][SheetOf(s)][mem.pos].part, DealerOf(s)>> \in catalogued
  /\ step \in ImageSteps => slots[s].data.product \in catalogued
  /\ step \in {"head", "put", "link"} => mem.blob \in Blobs
  /\ step = "link" => mem.blob \in stored

LEMMA ReadyNow ==
  ASSUME IInv, NEW s \in Slots
  PROVE  Ready(s, slots[s].step, slots[s].mem, Catalogued, r2)
BY DEF IInv, SlotInv, Ready, RowInHand, ProductAt, RowAt

(***************************************************************************)
(* A step of one slot: if its new step is ready and what it wrote is in    *)
(* order, the invariant is kept, the other slots' parts included.          *)
(***************************************************************************)
LEMMA SlotMoves ==
  ASSUME IInv, NEW s \in Slots, NEW step \in Steps, NEW mem \in Memory,
         slots[s].step # "idle", Goto(s, step, mem),
         RestOK', Grows, \A id \in DOMAIN jobs' : JobInv(id)', LinkedIsStored',
         Ready(s, step, mem, Catalogued', r2')
  PROVE  IInv'
<1>1. slots[s] \in SlotState /\ SlotInv(s)
  BY DEF IInv, TypeOK
<1>2. [slots[s] EXCEPT !.step = step, !.mem = mem] \in SlotState
  BY <1>1 DEF SlotState, Steps
<1>3. /\ slots' \in [Slots -> SlotState]
      /\ slots'[s].step = step /\ slots'[s].mem = mem
      /\ slots'[s].job = slots[s].job /\ slots'[s].data = slots[s].data
      /\ \A t \in Slots \ {s} : slots'[t] = slots[t]
  BY <1>1, <1>2 DEF Goto, IInv, TypeOK, SlotState
<1>4. TypeOK'
  BY <1>3 DEF TypeOK, RestOK, JobTable
<1>5. SlotInv(s)'
  <2>1. RunOf(s) \in Runs /\ RunOf(s)' = RunOf(s) /\ SheetOf(s)' = SheetOf(s)
    BY <1>1, <1>3 DEF SlotInv, RunOf, Payload, SheetOf
  <2>2. DealerOf(s)' = DealerOf(s) /\ runs'[RunOf(s)].request = "accepted"
    BY <1>1, <2>1 DEF SlotInv, Grows, DealerOf
  <2>3. /\ step \in {"row", "alias", "image"} => RowInHand(s)'
        /\ step \in {"alias", "image"} => ProductAt(s)' \in Catalogued'
    BY <1>3, <2>1, <2>2 DEF Ready, RowInHand, ProductAt, RowAt
  <2>. QED BY <1>1, <1>3, <2>1, <2>2, <2>3 DEF SlotInv, Ready, Grows
<1>6. \A t \in Slots : SlotInv(t)'
  BY <1>3, <1>5, KeptSlot DEF IInv
<1>. QED BY <1>4, <1>6 DEF IInv

-----------------------------------------------------------------------------
(* parse-file.                                                              *)

LEMMA FileInv ==
  ASSUME IInv, NEW s \in Slots, FileWork(s)  PROVE IInv'
<1>. USE DEF At
<1>1. ASSUME FileStart(s) PROVE IInv'
  <2>1. RunOf(s) \in Runs /\ TypeOK /\ slots[s].mem \in Memory
    BY <1>1, MemType DEF IInv, SlotInv, RunOf, Payload, FileStart
  <2>2. runs' \in [Runs -> Run] /\ \A r \in Runs :
          runs'[r].request = runs[r].request /\ runs'[r].dealer = runs[r].dealer
    BY <1>1, <2>1 DEF FileStart, TypeOK, Run
  <2>3. RestOK' /\ Grows
    BY <1>1, <2>1, <2>2, TypeParts
    DEF FileStart, RestOK, JobTable, Grows, Catalogued, stores, caches
  <2>4. (\A id \in DOMAIN jobs' : JobInv(id)') /\ LinkedIsStored'
    BY <1>1, <2>1, <2>2 DEF FileStart, IInv, TypeOK, Job, Payload, JobInv,
                            LinkedIsStored, Catalogued, stores
  <2>5. "enumerate" \in Steps /\ slots[s].step # "idle"
        /\ Ready(s, "enumerate", slots[s].mem, Catalogued', r2')
    BY <1>1 DEF FileStart, Steps, FileSteps, Ready, ImageSteps
  <2>. QED BY <1>1, <2>1, <2>3, <2>4, <2>5, SlotMoves DEF FileStart
<1>2. ASSUME FileEnumerate(s) PROVE IInv'
  <2>1. RestOK' /\ Grows /\ (\A id \in DOMAIN jobs' : JobInv(id)')
        /\ LinkedIsStored'
    BY <1>2, Untouched DEF FileEnumerate, caches, IInv, TypeOK
  <2>. DEFINE mem == [slots[s].mem EXCEPT !.ver = disk]
  <2>2. disk \in Versions /\ disk \in 0 .. MaxVersion
    BY DEF IInv, TypeOK, Versions
  <2>3. mem \in Memory /\ mem.ver \in Versions
    BY <2>2, MemType DEF IInv, Memory
  <2>4. "fanout" \in Steps /\ slots[s].step # "idle"
        /\ Ready(s, "fanout", mem, Catalogued', r2')
    BY <1>2, <2>3 DEF FileEnumerate, Steps, FileSteps, Ready, ImageSteps
  <2>. QED BY <1>2, <2>1, <2>3, <2>4, SlotMoves DEF FileEnumerate
<1>3. ASSUME FileFanOut(s) PROVE IInv'
  <2>. DEFINE batch == FanOut(RunOf(s), slots[s].mem.ver)
  <2>1. /\ RunOf(s) \in Runs /\ runs[RunOf(s)].request = "accepted"
        /\ slots[s].mem \in Memory /\ JobTable(jobs)
        /\ slots[s].mem.ver \in Versions
    BY <1>3, MemType DEF IInv, SlotInv, RunOf, Payload, FileFanOut, TypeOK, JobTable
  <2>2. \A sh \in Sheets : /\ SheetJob(RunOf(s), sh) \in Payload
                           /\ SheetJob(RunOf(s), sh).run = RunOf(s)
                           /\ SheetJob(RunOf(s), sh).queue = "sheet"
                           /\ SheetJobId(SheetJob(RunOf(s), sh)) \in Payload
    BY <2>1 DEF SheetJob, FileJob, SheetJobId, Payload
  <2>3. DOMAIN Rows[slots[s].mem.ver] \subseteq Sheets
    BY <2>1, WorkbookAssumption
  <2>4. /\ DOMAIN batch \subseteq Payload
        /\ \A i \in DOMAIN batch : /\ batch[i] \in Payload
                                   /\ batch[i].run = RunOf(s)
                                   /\ batch[i].queue = "sheet"
    BY <2>2, <2>3 DEF FanOut
  <2>. HIDE DEF batch
  <2>5. Adds(jobs, jobs', batch)
    <3>1. jobs' = AddBulk(jobs, batch)
      BY <1>3 DEF FileFanOut, batch
    <3>2. JobTable(jobs) /\ DOMAIN batch \subseteq Payload
          /\ \A i \in DOMAIN batch : batch[i] \in Payload
      BY <2>1, <2>4
    <3>. QED BY <3>1, <3>2, AddBulkLemma
  <2>6. RestOK' /\ Grows /\ LinkedIsStored' /\ runs' = runs
    BY <1>3, <2>5, TypeParts DEF FileFanOut, IInv, RestOK, Grows, Catalogued,
                                 LinkedIsStored, stores, caches, Adds
  <2>7. \A id \in DOMAIN jobs' : JobInv(id)'
    <3>. SUFFICES ASSUME NEW id \in DOMAIN jobs' PROVE JobInv(id)'
      OBVIOUS
    <3>1. CASE id \in DOMAIN jobs
      BY <2>5, <2>6, <3>1, KeptJobs DEF Adds
    <3>2. CASE id \notin DOMAIN jobs
      BY <2>1, <2>4, <2>5, <2>6, <3>2 DEF JobInv, Adds
    <3>. QED BY <3>1, <3>2
  <2>8. "done" \in Steps /\ slots[s].step # "idle"
        /\ Ready(s, "done", slots[s].mem, Catalogued', r2')
    BY <1>3 DEF FileFanOut, Steps, Ready, ImageSteps
  <2>. QED BY <1>3, <2>1, <2>6, <2>7, <2>8, SlotMoves DEF FileFanOut
<1>. QED BY <1>1, <1>2, <1>3 DEF FileWork

-----------------------------------------------------------------------------
(* parse-sheet.                                                             *)

(* Moving to the next row, or returning, is ready whenever the sheet is in  *)
(* hand.                                                                    *)
LEMMA NextRowReady ==
  ASSUME IInv, NEW s \in Slots, NEW mem \in Memory, NextRow(s, mem),
         mem.ver \in Versions, mem.draw \in Versions,
         SheetOf(s) \in DOMAIN Rows[mem.ver],
         NEW catalogued, NEW stored
  PROVE  \E step \in Steps, m \in Memory :
           Goto(s, step, m) /\ Ready(s, step, m, catalogued, stored)
<1>. DEFINE next == [mem EXCEPT !.pos = @ + 1]
<1>1. /\ next \in Memory /\ next.ver = mem.ver /\ next.draw = mem.draw
      /\ next.pos = mem.pos + 1 /\ mem.pos \in Nat
  BY DEF Memory
<1>2. Len(Rows[mem.ver][SheetOf(s)]) \in Nat
  BY WorkbookAssumption
<1>3. "row" \in Steps /\ "done" \in Steps
  BY DEF Steps, SheetSteps
<1>4. CASE mem.pos < Len(Rows[mem.ver][SheetOf(s)])
  <2>. HIDE DEF next
  <2>1. Ready(s, "row", next, catalogued, stored)
    BY <1>1, <1>2, <1>4 DEF Ready, ImageSteps
  <2>2. Goto(s, "row", next)
    BY <1>4 DEF NextRow, next
  <2>. QED BY <1>1, <1>3, <2>1, <2>2
<1>5. CASE ~(mem.pos < Len(Rows[mem.ver][SheetOf(s)]))
  BY <1>3, <1>5 DEF NextRow, Ready, ImageSteps
<1>. QED BY <1>4, <1>5

(* What is known of a slot in the row loop. *)
LEMMA RowLoop ==
  ASSUME IInv, NEW s \in Slots, slots[s].step \in {"row", "alias", "image"}
  PROVE  /\ slots[s].step # "idle" /\ slots[s].mem \in Memory
         /\ slots[s].mem.ver \in Versions /\ slots[s].mem.draw \in Versions
         /\ SheetOf(s) \in DOMAIN Rows[slots[s].mem.ver]
         /\ RowAt(s) \in Row
         /\ RunOf(s) \in Runs /\ runs[RunOf(s)].request = "accepted"
         /\ DealerOf(s) \in Dealers \cup {None}
<1>1. SlotInv(s) /\ slots[s].mem \in Memory /\ RowInHand(s)
  BY MemType DEF IInv, SlotInv
<1>2. RowAt(s) \in Row
  BY <1>1, WorkbookAssumption DEF RowInHand, RowAt, SheetOf
<1>. QED BY <1>1, <1>2 DEF SlotInv, RowInHand, RunOf, Payload, DealerOf, IInv,
                           TypeOK, Run

LEMMA SkipRowReady ==
  ASSUME IInv, NEW s \in Slots, slots[s].step \in {"row", "alias", "image"},
         SkipRow(s), NEW catalogued, NEW stored
  PROVE  \E step \in Steps, m \in Memory :
           Goto(s, step, m) /\ Ready(s, step, m, catalogued, stored)
<1>. DEFINE mem == [slots[s].mem EXCEPT !.failed = @ + 1]
<1>1. /\ mem \in Memory /\ mem.ver = slots[s].mem.ver
      /\ mem.draw = slots[s].mem.draw
  BY RowLoop DEF Memory
<1>2. NextRow(s, mem)
  BY DEF SkipRow
<1>. HIDE DEF mem
<1>. QED BY <1>1, <1>2, RowLoop, NextRowReady

(* After the product is written: queue the picture, or the next row. *)
LEMMA IllustrateReady ==
  ASSUME IInv, NEW s \in Slots, slots[s].step \in {"row", "alias"},
         Illustrate(s), NEW catalogued, NEW stored, ProductAt(s) \in catalogued
  PROVE  \E step \in Steps, m \in Memory :
           Goto(s, step, m) /\ Ready(s, step, m, catalogued, stored)
<1>1. CASE AnchorAt(s) # {}
  <2>1. Goto(s, "image", slots[s].mem) /\ "image" \in Steps
    BY <1>1 DEF Illustrate, Steps, SheetSteps
  <2>2. Ready(s, "image", slots[s].mem, catalogued, stored)
    BY ReadyNow, RowLoop DEF Ready, ImageSteps, ProductAt, RowAt
  <2>. QED BY <2>1, <2>2, RowLoop
<1>2. CASE AnchorAt(s) = {}
  BY <1>2, RowLoop, NextRowReady DEF Illustrate
<1>. QED BY <1>1, <1>2

LEMMA SheetInv ==
  ASSUME IInv, NEW s \in Slots, SheetWork(s)  PROVE IInv'
<1>. USE DEF At
<1>0. TypeOK /\ slots[s].mem \in Memory /\ disk \in Versions
      /\ Versions \subseteq 0 .. MaxVersion
  BY MemType DEF IInv, TypeOK, Versions
<1>1. ASSUME SheetDrawings(s) PROVE IInv'
  <2>1. RestOK' /\ Grows /\ (\A id \in DOMAIN jobs' : JobInv(id)')
        /\ LinkedIsStored'
    BY <1>1, <1>0, Untouched DEF SheetDrawings, caches, TypeOK
  <2>2. \A v \in Versions :
          /\ [slots[s].mem EXCEPT !.draw = v] \in Memory
          /\ [slots[s].mem EXCEPT !.draw = v].draw = v
    BY <1>0, MemType DEF Memory
  <2>3. drawings # 0 => drawings \in Versions
    BY <1>0 DEF TypeOK, Versions
  <2>4. /\ "read" \in Steps /\ "keepDrawings" \in Steps /\ slots[s].step # "idle"
        /\ \A mem \in Memory : mem.draw \in Versions =>
             /\ Ready(s, "read", mem, Catalogued', r2')
             /\ Ready(s, "keepDrawings", mem, Catalogued', r2')
    BY <1>1 DEF SheetDrawings, Steps, SheetSteps, Ready, ImageSteps
  <2>5. CASE drawings # 0
    <3>1. Goto(s, "read", [slots[s].mem EXCEPT !.draw = drawings])
      BY <1>1, <2>5 DEF SheetDrawings
    <3>. QED BY <2>1, <2>2, <2>3, <2>4, <2>5, <3>1, SlotMoves
  <2>6. CASE drawings = 0
    <3>1. Goto(s, "keepDrawings", [slots[s].mem EXCEPT !.draw = disk])
      BY <1>1, <2>6 DEF SheetDrawings
    <3>. QED BY <1>0, <2>1, <2>2, <2>4, <3>1, SlotMoves
  <2>. QED BY <2>5, <2>6
<1>2. ASSUME SheetKeepDrawings(s) PROVE IInv'
  <2>1. RestOK' /\ Grows /\ (\A id \in DOMAIN jobs' : JobInv(id)')
        /\ LinkedIsStored'
    BY <1>2, <1>0, Untouched DEF SheetKeepDrawings, TypeOK, Memory
  <2>2. slots[s].mem.draw \in Versions
    BY <1>2 DEF SheetKeepDrawings, IInv, SlotInv
  <2>3. "read" \in Steps /\ slots[s].step # "idle"
        /\ Ready(s, "read", slots[s].mem, Catalogued', r2')
    BY <1>2, <2>2 DEF SheetKeepDrawings, Steps, SheetSteps, Ready, ImageSteps
  <2>. QED BY <1>0, <1>2, <2>1, <2>3, SlotMoves DEF SheetKeepDrawings
<1>3. ASSUME SheetRead(s) PROVE IInv'
  <2>1. RestOK' /\ Grows /\ (\A id \in DOMAIN jobs' : JobInv(id)')
        /\ LinkedIsStored'
    BY <1>3, <1>0, Untouched DEF SheetRead, caches, TypeOK
  <2>2. slots[s].mem.draw \in Versions /\ slots[s].step # "idle"
    BY <1>3 DEF SheetRead, IInv, SlotInv
  <2>. DEFINE mem == [slots[s].mem EXCEPT !.ver = disk]
  <2>3. mem \in Memory /\ mem.ver = disk /\ mem.draw = slots[s].mem.draw
    BY <1>0, MemType DEF Memory
  <2>4. \E step \in Steps, m \in Memory :
           Goto(s, step, m) /\ Ready(s, step, m, Catalogued', r2')
    <3>1. CASE SheetOf(s) \in DOMAIN Rows[disk]
      <4>1. NextRow(s, mem)
        BY <1>3, <3>1 DEF SheetRead
      <4>. HIDE DEF mem
      <4>. QED BY <1>0, <2>2, <2>3, <3>1, <4>1, NextRowReady
    <3>2. CASE SheetOf(s) \notin DOMAIN Rows[disk]
      <4>1. Goto(s, "done", slots[s].mem) /\ "done" \in Steps
        BY <1>3, <3>2 DEF SheetRead, Steps
      <4>. QED BY <1>0, <4>1 DEF Ready, ImageSteps
    <3>. QED BY <3>1, <3>2
  <2>. QED BY <2>1, <2>2, <2>4, SlotMoves
<1>4. ASSUME SheetRejectRow(s) PROVE IInv'
  <2>1. RestOK' /\ Grows /\ (\A id \in DOMAIN jobs' : JobInv(id)')
        /\ LinkedIsStored'
    BY <1>4, <1>0, Untouched DEF SheetRejectRow, caches, TypeOK
  <2>2. \E step \in Steps, m \in Memory :
           Goto(s, step, m) /\ Ready(s, step, m, Catalogued', r2')
    BY <1>4, SkipRowReady DEF SheetRejectRow
  <2>. QED BY <1>4, <2>1, <2>2, SlotMoves DEF SheetRejectRow
<1>5. ASSUME SheetUpsert(s) PROVE IInv'
  <2>1. /\ ProductAt(s) \in Products /\ slots[s].mem.ver \in Versions
        /\ runs[RunOf(s)].sha \in 0 .. MaxVersion /\ slots[s].step = "row"
    BY <1>0, <1>5, RowLoop
    DEF SheetUpsert, Rejected, ProductAt, Products, Row, TypeOK, Run
  <2>2. products' \in [Products -> [ver : 0 .. MaxVersion, sha : 0 .. MaxVersion]]
        /\ Catalogued' = Catalogued \cup {ProductAt(s)}
    BY <1>0, <1>5, <2>1 DEF SheetUpsert, TypeOK, Catalogued, Versions
  <2>3. RestOK' /\ Grows
    BY <1>5, <2>2, <1>0, TypeParts DEF SheetUpsert, RestOK, JobTable, Grows, caches
  <2>4. (\A id \in DOMAIN jobs' : JobInv(id)') /\ LinkedIsStored'
    BY <1>5, <2>2 DEF SheetUpsert, IInv, JobInv, LinkedIsStored
  <2>5. \E step \in Steps, m \in Memory :
           Goto(s, step, m) /\ Ready(s, step, m, Catalogued', r2')
    <3>1. CASE RowAt(s).alias
      <4>1. Goto(s, "alias", slots[s].mem) /\ "alias" \in Steps
        BY <1>5, <3>1 DEF SheetUpsert, Steps, SheetSteps
      <4>2. Ready(s, "alias", slots[s].mem, Catalogued', r2')
        BY <2>1, <2>2, ReadyNow DEF Ready, ImageSteps, ProductAt, RowAt
      <4>. QED BY <1>0, <4>1, <4>2
    <3>2. CASE ~RowAt(s).alias
      <4>1. Illustrate(s) /\ slots[s].step \in {"row", "alias"}
        BY <1>5, <2>1, <3>2 DEF SheetUpsert
      <4>2. ProductAt(s) \in Catalogued'
        BY <2>2
      <4>. QED BY <4>1, <4>2, IllustrateReady
    <3>. QED BY <3>1, <3>2
  <2>. QED BY <2>1, <2>3, <2>4, <2>5, SlotMoves
<1>6. ASSUME SheetAlias(s) PROVE IInv'
  <2>1. ProductAt(s) \in Catalogued /\ slots[s].step = "alias"
        /\ Catalogued' = Catalogued
    BY <1>6 DEF SheetAlias, IInv, SlotInv, Catalogued
  <2>2. RestOK' /\ Grows
    BY <1>6, <2>1, <1>0, TypeParts
    DEF SheetAlias, RestOK, JobTable, Grows, caches, Catalogued
  <2>3. (\A id \in DOMAIN jobs' : JobInv(id)') /\ LinkedIsStored'
    BY <1>6, <2>1 DEF SheetAlias, IInv, JobInv, LinkedIsStored
  <2>4. \E step \in Steps, m \in Memory :
           Goto(s, step, m) /\ Ready(s, step, m, Catalogued', r2')
    BY <1>6, <2>1, IllustrateReady DEF SheetAlias
  <2>. QED BY <2>1, <2>2, <2>3, <2>4, SlotMoves
<1>7. ASSUME SheetAddImage(s) PROVE IInv'
  <2>1. PICK image \in AnchorAt(s) :
          LET data == ImageJob(RunOf(s), image, ProductAt(s))
          IN  jobs' = Add(jobs, ImageJobId(data), data)
    BY <1>7 DEF SheetAddImage
  <2>2. slots[s].step = "image" /\ ProductAt(s) \in Catalogued
        /\ ProductAt(s) \in Products
    BY <1>7 DEF SheetAddImage, IInv, SlotInv, Catalogued
  <2>3. image \in Images
    <3>1. Anchors[slots[s].mem.draw] \in Seq(Anchor)
      BY <2>2, RowLoop, WorkbookAssumption
    <3>2. PICK i \in DOMAIN Anchors[slots[s].mem.draw] :
            image = Anchors[slots[s].mem.draw][i].image
      BY <2>1 DEF AnchorAt, PickAnchor
    <3>3. Anchors[slots[s].mem.draw][i] \in Anchor
      BY <3>1
    <3>. QED BY <3>2, <3>3 DEF Anchor
  <2>. DEFINE data  == ImageJob(RunOf(s), image, ProductAt(s))
              batch == [i \in {ImageJobId(data)} |-> data]
  <2>4. /\ data \in Payload /\ data.run = RunOf(s)
        /\ data.queue = "image" => data.product \in Catalogued
        /\ ImageJobId(data) \in Payload
    BY <2>2, <2>3, RowLoop DEF ImageJob, FileJob, ImageJobId, Payload
  <2>5. jobs' = AddBulk(jobs, batch)
    BY <2>1 DEF Add
  <2>6. /\ DOMAIN batch \subseteq Payload
        /\ \A i \in DOMAIN batch : batch[i] \in Payload /\ batch[i] = data
    BY <2>4
  <2>. HIDE DEF data, batch
  <2>7. Adds(jobs, jobs', batch)
    <3>1. JobTable(jobs)
      BY <1>0 DEF TypeOK, JobTable
    <3>. QED BY <2>5, <2>6, <3>1, AddBulkLemma
  <2>8. RestOK' /\ Grows /\ LinkedIsStored' /\ runs' = runs
        /\ Catalogued' = Catalogued /\ r2' = r2
    BY <1>7, <2>7, <1>0, TypeParts DEF SheetAddImage, IInv, RestOK, Grows,
                        Catalogued, LinkedIsStored, stores, caches, Adds
  <2>9. \A id \in DOMAIN jobs' : JobInv(id)'
    <3>. SUFFICES ASSUME NEW id \in DOMAIN jobs' PROVE JobInv(id)'
      OBVIOUS
    <3>1. CASE id \in DOMAIN jobs
      BY <2>7, <2>8, <3>1, KeptJobs DEF Adds
    <3>2. CASE id \notin DOMAIN jobs
      <4>1. jobs'[id].data = data
        BY <2>6, <2>7, <3>2 DEF Adds
      <4>. QED BY <2>2, <2>4, <2>8, <4>1, RowLoop DEF JobInv
    <3>. QED BY <3>1, <3>2
  <2>10. \E step \in Steps, m \in Memory :
           Goto(s, step, m) /\ Ready(s, step, m, Catalogued', r2')
    BY <1>0, <1>7, <2>2, RowLoop, NextRowReady DEF SheetAddImage
  <2>. QED BY <2>2, <2>8, <2>9, <2>10, SlotMoves
<1>. QED BY <1>1, <1>2, <1>3, <1>4, <1>5, <1>6, <1>7 DEF SheetWork

(* A row whose call threw is skipped. *)
LEMMA RowFailsInv ==
  ASSUME IInv, NEW s \in Slots, SheetRowFails(s)  PROVE IInv'
<1>1. RestOK' /\ Grows /\ (\A id \in DOMAIN jobs' : JobInv(id)')
      /\ LinkedIsStored'
  BY TypeParts, WorkbookAssumption
  DEF SheetRowFails, IInv, RestOK, JobTable, Grows, JobInv, LinkedIsStored,
      stores, caches, Catalogued
<1>2. \E step \in Steps, m \in Memory :
         Goto(s, step, m) /\ Ready(s, step, m, Catalogued', r2')
  BY SkipRowReady DEF SheetRowFails
<1>3. slots[s].step # "idle"
  BY DEF SheetRowFails
<1>. QED BY <1>1, <1>2, <1>3, SlotMoves

-----------------------------------------------------------------------------
(* Jobs that change state, slots that become idle.                          *)

(* The job table is updated in place, nothing else is written. *)
LEMMA JobsMove ==
  ASSUME IInv, SameJobs(jobs, jobs'), UNCHANGED <<disk, runs, stores, expired>>,
         drawings' \in 0 .. MaxVersion, archive' \in 0 .. MaxVersion,
         faults' \in 0 .. MaxFaults
  PROVE  RestOK' /\ Grows /\ (\A id \in DOMAIN jobs' : JobInv(id)')
         /\ LinkedIsStored'
<1>1. RestOK' /\ Grows /\ LinkedIsStored'
  BY TypeParts DEF IInv, RestOK, Grows, LinkedIsStored, stores, Catalogued,
                   SameJobs
<1>2. \A id \in DOMAIN jobs' : JobInv(id)'
  BY <1>1, KeptJobs DEF SameJobs
<1>. QED BY <1>1, <1>2

(* Slots are kept, become idle, or are known to be in order. *)
LEMMA SlotsKept ==
  ASSUME IInv, RestOK', Grows, \A id \in DOMAIN jobs' : JobInv(id)',
         LinkedIsStored', slots' \in [Slots -> SlotState],
         \A t \in Slots : slots'[t] \in {slots[t], Idle} \/ SlotInv(t)'
  PROVE  IInv'
<1>1. TypeOK'
  BY DEF TypeOK, RestOK, JobTable
<1>2. \A t \in Slots : slots'[t] = Idle => SlotInv(t)'
  BY DEF SlotInv, Idle, ImageSteps
<1>3. \A t \in Slots : slots'[t] = slots[t] => SlotInv(t)'
  BY KeptSlot DEF IInv
<1>. QED BY <1>1, <1>2, <1>3 DEF IInv

LEMMA IdleType == Idle \in SlotState
BY WorkbookAssumption DEF Idle, Blank, SlotState, Memory

LEMMA ThrowInv ==
  ASSUME IInv, NEW s \in Slots, Throw(s), slots[s].step # "idle",
         faults' \in 0 .. MaxFaults
  PROVE  IInv'
<1>1. SameJobs(jobs, jobs')
  BY FailAttemptLemma DEF Throw, IInv, SlotInv, TypeOK, JobTable
<1>2. RestOK' /\ Grows /\ (\A id \in DOMAIN jobs' : JobInv(id)')
      /\ LinkedIsStored'
  BY <1>1, JobsMove DEF Throw, caches, IInv, TypeOK
<1>3. /\ slots' \in [Slots -> SlotState]
      /\ \A t \in Slots : slots'[t] \in {slots[t], Idle}
  BY IdleType DEF Throw, IInv, TypeOK
<1>. QED BY <1>2, <1>3, SlotsKept

LEMMA FinishInv ==
  ASSUME IInv, NEW s \in Slots, Finish(s)  PROVE IInv'
<1>1. SameJobs(jobs, jobs')
  BY CompleteLemma, MemType DEF Finish, At, IInv, SlotInv, TypeOK, JobTable
<1>2. RestOK' /\ Grows /\ (\A id \in DOMAIN jobs' : JobInv(id)')
      /\ LinkedIsStored'
  BY <1>1, JobsMove DEF Finish, caches, IInv, TypeOK
<1>3. /\ slots' \in [Slots -> SlotState]
      /\ \A t \in Slots : slots'[t] \in {slots[t], Idle}
  BY IdleType DEF Finish, IInv, TypeOK
<1>. QED BY <1>2, <1>3, SlotsKept

(* A slot that takes an image job has its product catalogued already. *)
LEMMA TakeInv ==
  ASSUME IInv, NEW s \in Slots, Take(s)  PROVE IInv'
<1>1. PICK id \in DOMAIN jobs :
        /\ jobs[id].data.queue = QueueOf(s)
        /\ jobs' = Claim(jobs, id, s)
        /\ slots' = [slots EXCEPT ![s] =
             [step |-> FirstStep(QueueOf(s)), job |-> id,
              data |-> jobs[id].data, mem |-> Blank]]
  BY DEF Take
<1>2. SameJobs(jobs, jobs')
  BY <1>1, ClaimLemma DEF IInv, TypeOK, JobTable
<1>3. RestOK' /\ Grows /\ (\A i \in DOMAIN jobs' : JobInv(i)')
      /\ LinkedIsStored'
  BY <1>2, JobsMove DEF Take, caches, IInv, TypeOK
<1>4. /\ FirstStep(QueueOf(s)) \in {"start", "drawings", "open"}
      /\ FirstStep(QueueOf(s)) = "open" => QueueOf(s) = "image"
  BY DEF FirstStep, QueueOf
<1>5. /\ id \in Payload /\ jobs[id].data \in Payload
      /\ jobs[id].data.run \in Runs
  BY DEF IInv, TypeOK, Job, Payload
<1>6. slots' \in [Slots -> SlotState]
  <2>1. [step |-> FirstStep(QueueOf(s)), job |-> id,
         data |-> jobs[id].data, mem |-> Blank] \in SlotState
    BY <1>4, <1>5, IdleType
    DEF SlotState, FileSteps, SheetSteps, ImageSteps, Idle
  <2>. QED BY <1>1, <2>1 DEF IInv, TypeOK
<1>7. /\ slots'[s] = [step |-> FirstStep(QueueOf(s)), job |-> id,
                      data |-> jobs[id].data, mem |-> Blank]
      /\ \A t \in Slots \ {s} : slots'[t] = slots[t]
  BY <1>1 DEF IInv, TypeOK
<1>8. SlotInv(s)'
  <2>1. JobInv(id) /\ runs' = runs /\ Catalogued' = Catalogued
    BY DEF IInv, Take, stores, Catalogued
  <2>. QED BY <1>1, <1>4, <1>5, <1>7, <2>1
           DEF SlotInv, JobInv, ImageSteps, RunOf
<1>. QED BY <1>3, <1>6, <1>7, <1>8, SlotsKept

LEMMA StallInv ==
  ASSUME IInv, NEW id \in DOMAIN jobs, RecoverOrphan(id) \/ LoseLock(id)
  PROVE  IInv'
<1>1. SameJobs(jobs, jobs')
  BY StallLemma DEF RecoverOrphan, LoseLock, IInv, TypeOK, JobTable
<1>2. faults' \in 0 .. MaxFaults
  BY WorkbookAssumption DEF RecoverOrphan, LoseLock, IInv, TypeOK
<1>3. RestOK' /\ Grows /\ (\A i \in DOMAIN jobs' : JobInv(i)')
      /\ LinkedIsStored'
  BY <1>1, <1>2, JobsMove DEF RecoverOrphan, LoseLock, caches, IInv, TypeOK
<1>. QED BY <1>3, SlotsKept DEF RecoverOrphan, LoseLock, IInv, TypeOK

LEMMA ExpireInv ==
  ASSUME IInv, NEW id \in DOMAIN jobs, Expire(id)  PROVE IInv'
<1>1. /\ JobTable(jobs') /\ DOMAIN jobs' = DOMAIN jobs \ {id}
      /\ \A i \in DOMAIN jobs' : jobs'[i] = jobs[i]
  BY RemoveLemma DEF Expire, IInv, TypeOK, JobTable
<1>2. expired' \subseteq Payload
  BY DEF Expire, IInv, TypeOK, Job
<1>3. RestOK' /\ Grows /\ LinkedIsStored'
  BY <1>1, <1>2, TypeParts
  DEF Expire, IInv, RestOK, Grows, LinkedIsStored, stores, caches, Catalogued
<1>4. \A i \in DOMAIN jobs' : JobInv(i)'
  BY <1>1, <1>3, KeptJobs
<1>. QED BY <1>3, <1>4, SlotsKept DEF Expire, IInv, TypeOK

LEMMA CrashInv == ASSUME IInv, WorkerCrash PROVE IInv'
<1>1. SameJobs(jobs, jobs')
  BY DEF WorkerCrash, SameJobs, IInv, TypeOK, JobTable
<1>2. RestOK' /\ Grows /\ (\A i \in DOMAIN jobs' : JobInv(i)')
      /\ LinkedIsStored'
  BY <1>1, JobsMove, WorkbookAssumption DEF WorkerCrash, IInv, TypeOK
<1>. QED BY <1>2, SlotsKept, IdleType DEF WorkerCrash

-----------------------------------------------------------------------------
(* The API and the dealer.                                                  *)

LEMMA RequestInv ==
  ASSUME IInv, NEW r \in Runs, Request(r)  PROVE IInv'
<1>1. ASSUME NEW d \in Dealers \cup {None}, PostRun(r, d) PROVE IInv'
  <2>1. /\ runs' \in [Runs -> Run]
        /\ \A q \in Runs : runs[q].request = "accepted" => runs'[q] = runs[q]
    BY <1>1 DEF PostRun, IInv, TypeOK, Run, Versions
  <2>2. RestOK' /\ Grows /\ LinkedIsStored'
    BY <1>1, <2>1, TypeParts DEF PostRun, IInv, RestOK, JobTable, Grows,
                             Catalogued, LinkedIsStored, stores, caches
  <2>3. \A id \in DOMAIN jobs' : JobInv(id)'
    BY <1>1, <2>2, KeptJobs DEF PostRun
  <2>. QED BY <1>1, <2>2, <2>3, SlotsKept DEF PostRun, IInv, TypeOK
<1>2. ASSUME AcceptRun(r) PROVE IInv'
  <2>. DEFINE batch == [i \in {FileJobId(FileJob(r))} |-> FileJob(r)]
  <2>1. /\ FileJob(r) \in Payload /\ FileJobId(FileJob(r)) \in Payload
        /\ FileJob(r).run = r /\ FileJob(r).queue = "file"
    BY DEF FileJob, FileJobId, Payload
  <2>2. jobs' = AddBulk(jobs, batch)
    BY <1>2 DEF AcceptRun, Add
  <2>3. /\ DOMAIN batch \subseteq Payload
        /\ \A i \in DOMAIN batch : batch[i] \in Payload /\ batch[i] = FileJob(r)
    BY <2>1
  <2>. HIDE DEF batch
  <2>4. Adds(jobs, jobs', batch)
    <3>1. JobTable(jobs)
      BY DEF IInv, TypeOK, JobTable
    <3>. QED BY <2>2, <2>3, <3>1, AddBulkLemma
  <2>5. /\ runs' \in [Runs -> Run] /\ runs'[r].request = "accepted"
        /\ \A q \in Runs : runs[q].request = "accepted" =>
             /\ runs'[q].request = "accepted"
             /\ runs'[q].dealer = runs[q].dealer
    BY <1>2 DEF AcceptRun, IInv, TypeOK, Run
  <2>6. RestOK' /\ Grows /\ LinkedIsStored'
    BY <1>2, <2>4, <2>5, TypeParts DEF AcceptRun, IInv, RestOK, Grows,
                       Catalogued, LinkedIsStored, stores, caches, Adds
  <2>7. \A id \in DOMAIN jobs' : JobInv(id)'
    <3>. SUFFICES ASSUME NEW id \in DOMAIN jobs' PROVE JobInv(id)'
      OBVIOUS
    <3>1. CASE id \in DOMAIN jobs
      BY <2>4, <2>6, <3>1, KeptJobs DEF Adds
    <3>2. CASE id \notin DOMAIN jobs
      BY <2>1, <2>3, <2>4, <2>5, <3>2 DEF JobInv, Adds
    <3>. QED BY <3>1, <3>2
  <2>. QED BY <1>2, <2>6, <2>7, SlotsKept DEF AcceptRun, IInv, TypeOK
<1>3. ASSUME LoseRequest(r) PROVE IInv'
  <2>0. faults' \in 0 .. MaxFaults
    BY <1>3, WorkbookAssumption DEF LoseRequest, IInv, TypeOK
  <2>1. /\ runs' \in [Runs -> Run]
        /\ \A q \in Runs : runs[q].request = "accepted" => runs'[q] = runs[q]
    BY <1>3 DEF LoseRequest, IInv, TypeOK, Run
  <2>2. RestOK' /\ Grows /\ LinkedIsStored'
    BY <1>3, <2>0, <2>1, TypeParts DEF LoseRequest, IInv, RestOK, JobTable, Grows,
                             Catalogued, LinkedIsStored, stores, caches
  <2>3. \A id \in DOMAIN jobs' : JobInv(id)'
    BY <1>3, <2>2, KeptJobs DEF LoseRequest
  <2>. QED BY <1>3, <2>2, <2>3, SlotsKept DEF LoseRequest, IInv, TypeOK
<1>. QED BY <1>1, <1>2, <1>3 DEF Request

LEMMA ReplaceInv == ASSUME IInv, ReplaceFile PROVE IInv'
<1>1. disk' \in Versions
  BY WorkbookAssumption DEF ReplaceFile, IInv, TypeOK, Versions
<1>2. RestOK' /\ Grows /\ LinkedIsStored'
  BY <1>1, TypeParts DEF ReplaceFile, IInv, RestOK, JobTable, Grows,
                         Catalogued, LinkedIsStored, stores, caches
<1>3. \A id \in DOMAIN jobs' : JobInv(id)'
  BY <1>2, KeptJobs DEF ReplaceFile
<1>. QED BY <1>2, <1>3, SlotsKept DEF ReplaceFile, IInv, TypeOK

-----------------------------------------------------------------------------
(* upload-image.                                                            *)

LEMMA ImageInv ==
  ASSUME IInv, NEW s \in Slots, ImageWork(s)  PROVE IInv'
<1>. USE DEF At
<1>0. /\ TypeOK /\ SlotInv(s) /\ slots[s].mem \in Memory
      /\ Ready(s, slots[s].step, slots[s].mem, Catalogued, r2)
  BY MemType, ReadyNow DEF IInv
<1>a. disk \in 0 .. MaxVersion
  BY <1>0 DEF TypeOK, Versions
<1>b. {"keepArchive", "bytes", "head", "put", "link", "done"} \subseteq Steps
  BY DEF Steps, ImageSteps
<1>1. ASSUME ImageOpen(s) PROVE IInv'
  <2>1. RestOK' /\ Grows /\ (\A id \in DOMAIN jobs' : JobInv(id)')
        /\ LinkedIsStored'
    BY <1>1, <1>0, Untouched DEF ImageOpen, caches, TypeOK
  <2>2. \A v \in 0 .. MaxVersion : [slots[s].mem EXCEPT !.ver = v] \in Memory
    BY <1>0, MemType
  <2>3. slots[s].step # "idle" /\ \A mem \in Memory :
          /\ Ready(s, "bytes", mem, Catalogued', r2')
          /\ Ready(s, "keepArchive", mem, Catalogued', r2')
    BY <1>0, <1>1, <2>1 DEF ImageOpen, Ready, ImageSteps, Grows
  <2>4. CASE archive # 0
    <3>1. Goto(s, "bytes", [slots[s].mem EXCEPT !.ver = archive])
      BY <1>1, <2>4 DEF ImageOpen
    <3>2. archive \in 0 .. MaxVersion
      BY <1>0 DEF TypeOK
    <3>. QED BY <1>b, <2>1, <2>2, <2>3, <3>1, <3>2, SlotMoves
  <2>5. CASE archive = 0
    <3>1. Goto(s, "keepArchive", [slots[s].mem EXCEPT !.ver = disk])
      BY <1>1, <2>5 DEF ImageOpen
    <3>. QED BY <1>a, <1>b, <2>1, <2>2, <2>3, <3>1, SlotMoves
  <2>. QED BY <2>4, <2>5
<1>2. ASSUME ImageKeepArchive(s) PROVE IInv'
  <2>1. RestOK' /\ Grows /\ (\A id \in DOMAIN jobs' : JobInv(id)')
        /\ LinkedIsStored'
    BY <1>2, <1>0, Untouched DEF ImageKeepArchive, TypeOK, Memory
  <2>2. slots[s].step # "idle"
        /\ Ready(s, "bytes", slots[s].mem, Catalogued', r2')
    BY <1>0, <1>2, <2>1 DEF ImageKeepArchive, Ready, ImageSteps, Grows
  <2>. QED BY <1>0, <1>b, <1>2, <2>1, <2>2, SlotMoves DEF ImageKeepArchive
<1>3. ASSUME ImageSkip(s) PROVE IInv'
  <2>1. RestOK' /\ Grows /\ (\A id \in DOMAIN jobs' : JobInv(id)')
        /\ LinkedIsStored'
    BY <1>3, <1>0, Untouched DEF ImageSkip, caches, TypeOK
  <2>2. slots[s].step # "idle"
        /\ Ready(s, "done", slots[s].mem, Catalogued', r2')
    BY <1>3 DEF ImageSkip, Ready, ImageSteps
  <2>. QED BY <1>0, <1>b, <1>3, <2>1, <2>2, SlotMoves DEF ImageSkip
<1>4. ASSUME ImageBytes(s) PROVE IInv'
  <2>1. RestOK' /\ Grows /\ (\A id \in DOMAIN jobs' : JobInv(id)')
        /\ LinkedIsStored'
    BY <1>4, <1>0, Untouched DEF ImageBytes, caches, TypeOK
  <2>2. PICK b \in Blobs : Goto(s, "head", [slots[s].mem EXCEPT !.blob = b])
    BY <1>4 DEF ImageBytes
  <2>. DEFINE mem == [slots[s].mem EXCEPT !.blob = b]
  <2>3. mem \in Memory /\ mem.blob = b
    BY <1>0, MemType DEF Memory
  <2>4. slots[s].step # "idle" /\ Ready(s, "head", mem, Catalogued', r2')
    BY <1>0, <1>4, <2>1, <2>3 DEF ImageBytes, Ready, ImageSteps, Grows
  <2>. QED BY <1>b, <2>1, <2>2, <2>3, <2>4, SlotMoves
<1>5. ASSUME ImageTornRead(s) PROVE IInv'
  BY <1>0, <1>5, ThrowInv DEF ImageTornRead, TypeOK
<1>6. ASSUME ImageHeadFound(s) PROVE IInv'
  <2>1. RestOK' /\ Grows /\ (\A id \in DOMAIN jobs' : JobInv(id)')
        /\ LinkedIsStored'
    BY <1>6, <1>0, Untouched DEF ImageHeadFound, caches, TypeOK
  <2>2. slots[s].step # "idle"
        /\ Ready(s, "link", slots[s].mem, Catalogued', r2')
    BY <1>0, <1>6, <2>1 DEF ImageHeadFound, Ready, ImageSteps, Grows
  <2>. QED BY <1>0, <1>b, <1>6, <2>1, <2>2, SlotMoves DEF ImageHeadFound
<1>7. ASSUME ImageHeadAbsent(s) PROVE IInv'
  <2>1. RestOK' /\ Grows /\ (\A id \in DOMAIN jobs' : JobInv(id)')
        /\ LinkedIsStored'
    BY <1>7, <1>0, Untouched DEF ImageHeadAbsent, caches, TypeOK
  <2>2. slots[s].step # "idle"
        /\ Ready(s, "put", slots[s].mem, Catalogued', r2')
    BY <1>0, <1>7, <2>1 DEF ImageHeadAbsent, Ready, ImageSteps, Grows
  <2>. QED BY <1>0, <1>b, <1>7, <2>1, <2>2, SlotMoves DEF ImageHeadAbsent
<1>8. ASSUME ImagePut(s) PROVE IInv'
  <2>1. slots[s].mem.blob \in Blobs /\ Catalogued' = Catalogued
    BY <1>0, <1>8 DEF ImagePut, Ready, Catalogued
  <2>2. RestOK' /\ Grows
    BY <1>0, <1>8, <2>1, TypeParts DEF ImagePut, RestOK, JobTable, Grows, caches
  <2>3. (\A id \in DOMAIN jobs' : JobInv(id)') /\ LinkedIsStored'
    BY <1>8, <2>1 DEF ImagePut, IInv, JobInv, LinkedIsStored
  <2>4. slots[s].step # "idle"
        /\ Ready(s, "link", slots[s].mem, Catalogued', r2')
    BY <1>0, <1>8, <2>1 DEF ImagePut, Ready, ImageSteps
  <2>. QED BY <1>0, <1>b, <1>8, <2>2, <2>3, <2>4, SlotMoves DEF ImagePut
<1>9. ASSUME ImageLink(s) PROVE IInv'
  <2>1. /\ slots[s].data.product \in Catalogued
        /\ slots[s].mem.blob \in r2 /\ slots[s].mem.blob \in Blobs
        /\ Catalogued' = Catalogued /\ Catalogued \subseteq Products
    BY <1>0, <1>9 DEF ImageLink, Ready, ImageSteps, Catalogued
  <2>2. RestOK' /\ Grows
    BY <1>0, <1>9, <2>1, TypeParts DEF ImageLink, RestOK, JobTable, Grows, caches
  <2>3. (\A id \in DOMAIN jobs' : JobInv(id)') /\ LinkedIsStored'
    BY <1>9, <2>1 DEF ImageLink, IInv, JobInv, LinkedIsStored
  <2>4. slots[s].step # "idle"
        /\ Ready(s, "done", slots[s].mem, Catalogued', r2')
    BY <1>9 DEF ImageLink, Ready, ImageSteps
  <2>. QED BY <1>0, <1>b, <1>9, <2>2, <2>3, <2>4, SlotMoves DEF ImageLink
<1>. QED BY <1>1, <1>2, <1>3, <1>4, <1>5, <1>6, <1>7, <1>8, <1>9 DEF ImageWork

-----------------------------------------------------------------------------
LEMMA StutterInv == ASSUME IInv, UNCHANGED vars PROVE IInv'
<1>1. RestOK' /\ Grows /\ (\A id \in DOMAIN jobs' : JobInv(id)')
      /\ LinkedIsStored'
  BY Untouched DEF vars, stores, IInv, TypeOK
<1>. QED BY <1>1, SlotsKept DEF vars, IInv, TypeOK

LEMMA NextInv == ASSUME IInv, [Next]_vars PROVE IInv'
<1>1. ASSUME NEW s \in Slots, AttemptFails(s) PROVE IInv'
  <2>1. faults' \in 0 .. MaxFaults
    BY <1>1, WorkbookAssumption DEF AttemptFails, IInv, TypeOK
  <2>. QED BY <1>1, <2>1, ThrowInv DEF AttemptFails
<1>2. ASSUME NEW s \in Slots, Work(s) PROVE IInv'
  BY <1>2, FileInv, SheetInv, ImageInv, FinishInv DEF Work
<1>. QED BY <1>1, <1>2, RequestInv, ReplaceInv, TakeInv, RowFailsInv, CrashInv,
           StallInv, ExpireInv, StutterInv DEF Next

LEMMA Inductive == Spec => []IInv
BY InitInv, NextInv, PTL DEF Spec

(* Type correctness, for every instance. *)
THEOREM Typed == Spec => []TypeOK
<1>1. IInv => TypeOK
  BY DEF IInv
<1>. QED BY <1>1, Inductive, PTL

(***************************************************************************)
(* A link never points at a missing object or a missing product, whatever  *)
(* attempts crash, are retried, overlap or read a replaced file.           *)
(***************************************************************************)
THEOREM LinksSafe == Spec => []LinkedIsStored
<1>1. IInv => LinkedIsStored
  BY DEF IInv
<1>. QED BY <1>1, Inductive, PTL

-----------------------------------------------------------------------------
(* The pipeline implements the catalogue.                                   *)

(* Steps that leave the three stores alone. *)
LEMMA Quiet == UNCHANGED stores => UNCHANGED Catalog!vars
BY DEF stores, Catalog!vars, Catalogued

LEMMA UpsertImplements ==
  ASSUME IInv, NEW s \in Slots, SheetUpsert(s)  PROVE Catalog!Next
<1>1. slots[s].step = "row"
  BY DEF SheetUpsert, At
<1>2. ProductAt(s) \in Products /\ slots[s].mem.ver \in Versions
  BY <1>1, RowLoop DEF SheetUpsert, Rejected, ProductAt, Products, Row
<1>3. Catalogued' = Catalogued \cup {ProductAt(s)}
  BY <1>2 DEF SheetUpsert, IInv, TypeOK, Catalogued, Versions
<1>. QED BY <1>2, <1>3 DEF SheetUpsert, Catalog!Next, Catalog!Upsert

LEMMA ImageImplements ==
  ASSUME IInv, NEW s \in Slots, ImagePut(s) \/ ImageLink(s)
  PROVE  Catalog!Next
<1>1. SlotInv(s) /\ Catalogued \subseteq Products
  BY DEF IInv, Catalogued
<1>2. CASE ImagePut(s)
  BY <1>1, <1>2 DEF ImagePut, At, SlotInv, Catalogued, Catalog!Next, Catalog!Store
<1>3. CASE ImageLink(s)
  BY <1>1, <1>3 DEF ImageLink, At, SlotInv, ImageSteps, Catalogued,
                    Catalog!Next, Catalog!Link
<1>. QED BY <1>2, <1>3

LEMMA StepImplements ==
  ASSUME IInv, [Next]_vars  PROVE [Catalog!Next]_(Catalog!vars)
<1>1. \A r \in Runs : Request(r) => UNCHANGED stores
  BY DEF Request, PostRun, AcceptRun, LoseRequest, stores
<1>2. \A s \in Slots : Take(s) \/ Finish(s) \/ AttemptFails(s)
                       \/ SheetRowFails(s) \/ FileWork(s) => UNCHANGED stores
  BY DEF Take, Finish, AttemptFails, Throw, SheetRowFails, FileWork, FileStart,
         FileEnumerate, FileFanOut, stores
<1>3. ReplaceFile \/ WorkerCrash \/ UNCHANGED vars => UNCHANGED stores
  BY DEF ReplaceFile, WorkerCrash, vars, stores
<1>4. \A i \in DOMAIN jobs :
        RecoverOrphan(i) \/ LoseLock(i) \/ Expire(i) => UNCHANGED stores
  BY DEF RecoverOrphan, LoseLock, Expire, stores
<1>5. ASSUME NEW s \in Slots, SheetWork(s)
      PROVE  UNCHANGED Catalog!vars \/ SheetUpsert(s)
  BY <1>5, Quiet DEF SheetWork, SheetDrawings, SheetKeepDrawings, SheetRead,
       SheetRejectRow, SheetAlias, SheetAddImage, stores, Catalogued, Catalog!vars
<1>6. ASSUME NEW s \in Slots, ImageWork(s)
      PROVE  UNCHANGED Catalog!vars \/ ImagePut(s) \/ ImageLink(s)
  BY <1>6, Quiet DEF ImageWork, ImageOpen, ImageKeepArchive, ImageSkip, ImageBytes,
       ImageTornRead, Throw, ImageHeadFound, ImageHeadAbsent
<1>. QED BY <1>1, <1>2, <1>3, <1>4, <1>5, <1>6, Quiet, UpsertImplements,
           ImageImplements DEF Next, Work

(***************************************************************************)
(* Readers of the three stores see the catalogue's behaviour: objects and  *)
(* products before the links to them, and nothing ever withdrawn.          *)
(***************************************************************************)
THEOREM Refinement == Spec => CatalogueSpec
<1>1. Init => Catalog!Init
  BY DEF Init, Catalog!Init, Catalogued
<1>2. IInv /\ [Next]_vars => [Catalog!Next]_(Catalog!vars)
  BY StepImplements
<1>. QED BY <1>1, <1>2, Inductive, PTL DEF Spec, CatalogueSpec, Catalog!Spec
-----------------------------------------------------------------------------
(***************************************************************************)
(* What attempts leave behind.  A job completes with the locals of the     *)
(* slot that ran it, so what its counters or its blob are to mean later is *)
(* an invariant of the slot on its way: a sheet slot has loaded or counted *)
(* every row before the one in hand, an image slot at its end has linked   *)
(* what it read.  Neither is spoiled by another slot, for no step takes a  *)
(* product, an alias or a link back, and what was queued is remembered     *)
(* when its job is forgotten (Steady).                                     *)
(***************************************************************************)

(* Rows 1 .. n of the sheet that are not loaded. *)
Missing(data, mem, n) == {i \in 1 .. n : ~Loaded(data, mem, i)}

SheetKnown(data, mem) ==
  mem.ver \in Versions /\ data.sheet \in DOMAIN Rows[mem.ver]
SheetLen(data, mem) == Len(Rows[mem.ver][data.sheet])
AllCounted(data, mem) ==
  /\ SheetKnown(data, mem)
  /\ Cardinality(Missing(data, mem, SheetLen(data, mem))) <= mem.failed

(* In the first version, the image is anchored at a section of the product. *)
Anchored(product, image) ==
  \E sheet \in DOMAIN Rows[1] : \E i \in DOMAIN Rows[1][sheet] :
    /\ Rows[1][sheet][i].part = product[1]
    /\ image \in PickAnchor(Anchors[1], Rows[1][sheet][i].header)

OwnSteps(queue) == CASE queue = "file" -> FileSteps [] queue = "sheet" -> SheetSteps
                     [] queue = "image" -> ImageSteps

SheetAttempt(data, step, mem) ==
  /\ step \in {"drawings", "keepDrawings", "read"} => mem.ver = 0 /\ mem.pos = 0
  /\ step \in {"row", "alias", "image"} =>
       Cardinality(Missing(data, mem, mem.pos - 1)) <= mem.failed
  /\ step = "image" /\ Rows[mem.ver][data.sheet][mem.pos].alias =>
       <<Rows[mem.ver][data.sheet][mem.pos].part, runs[data.run].dealer>> \in aliases
  /\ step = "done" /\ data.queue = "sheet" /\ mem.ver # 0 => AllCounted(data, mem)

ImageAttempt(data, step, mem) ==
  /\ step \in {"open", "keepArchive", "bytes"} => mem.blob = None
  /\ step = "done" /\ data.queue = "image" /\ mem.blob # None =>
       <<data.product, mem.blob>> \in links

(* Nothing but the first version was ever read. *)
FirstVersion(data, step, mem) ==
  /\ step \in {"keepDrawings", "read", "row", "alias", "image"} => mem.draw = 1
  /\ step \in {"row", "alias", "image", "keepArchive", "bytes"} => mem.ver = 1
  /\ step \in {"head", "put", "link"} => mem.blob = Media[1][data.image]
  /\ step \in ImageSteps => Anchored(data.product, data.image)

Attempt(data, step, mem) ==
  /\ step \in OwnSteps(data.queue) \cup {"done"}
  /\ SheetAttempt(data, step, mem)
  /\ ImageAttempt(data, step, mem)
  /\ disk = 1 => FirstVersion(data, step, mem)

(* The locals are bound, so that what is known next is known of values. *)
SlotKnown(s) ==
  slots[s].step # "idle" =>
    /\ slots[s].data = slots[s].job
    /\ \A data \in {slots[s].data}, step \in {slots[s].step}, mem \in {slots[s].mem} :
         Attempt(data, step, mem)

Outcome(job) ==
  job.st = "completed" =>
    /\ job.ret \in Memory
    /\ job.data.queue = "sheet" /\ job.ret.ver # 0 => AllCounted(job.data, job.ret)
    /\ job.data.queue = "image" /\ job.ret.blob # None =>
         <<job.data.product, job.ret.blob>> \in links
JobKnown(id) ==
  /\ jobs[id].data = id
  /\ \A job \in {jobs[id]} : Outcome(job)
  /\ disk = 1 /\ jobs[id].data.queue = "image" =>
       Anchored(jobs[id].data.product, jobs[id].data.image)

FirstCaches == /\ disk = 1 => drawings \in {0, 1} /\ archive \in {0, 1}
               /\ disk = 1 => \A l \in links : \E image \in Images :
                    Anchored(l[1], image) /\ Media[1][image] = l[2]

Known == /\ IInv
         /\ \A s \in Slots : SlotKnown(s)
         /\ \A id \in DOMAIN jobs : JobKnown(id)
         /\ FirstCaches

JobsKept   == \A id \in DOMAIN jobs : id \in DOMAIN jobs' /\ jobs'[id].data = jobs[id].data

JobsSteady == /\ Queued \subseteq Queued'
              /\ \A id \in DOMAIN jobs \cap DOMAIN jobs' : jobs'[id].data = jobs[id].data

Steady == /\ Catalogued \subseteq Catalogued' /\ aliases \subseteq aliases'
          /\ links \subseteq links'
          /\ JobsSteady
          /\ \A r \in Runs : runs[r].request = "accepted" =>
               runs'[r].request = "accepted" /\ runs'[r].dealer = runs[r].dealer
          /\ disk' = 1 => disk = 1

LEMMA MissingFinite ==
  ASSUME NEW data, NEW mem, NEW n \in Int
  PROVE  /\ IsFiniteSet(Missing(data, mem, n)) /\ IsFiniteSet(Missing(data, mem, n))'
         /\ Cardinality(Missing(data, mem, n)) \in Nat
         /\ Cardinality(Missing(data, mem, n))' \in Nat
<1>1. IsFiniteSet(1 .. n)
  BY FS_Interval
<1>2. Missing(data, mem, n) \subseteq 1 .. n /\ Missing(data, mem, n)' \subseteq 1 .. n
  BY DEF Missing
<1>. QED BY <1>1, <1>2, FS_Subset, FS_CardinalityType

LEMMA MissingShrinks ==
  ASSUME Steady, NEW data \in Payload, runs[data.run].request = "accepted",
         NEW mem, NEW n \in Int
  PROVE  /\ Missing(data, mem, n)' \subseteq Missing(data, mem, n)
         /\ Cardinality(Missing(data, mem, n)') <= Cardinality(Missing(data, mem, n))
<1>1. runs'[data.run].dealer = runs[data.run].dealer
  BY DEF Steady, Payload
<1>2. ASSUME NEW i, Loaded(data, mem, i)  PROVE Loaded(data, mem, i)'
  <2>. DEFINE row     == Rows[mem.ver][data.sheet][i]
              product == <<row.part, runs[data.run].dealer>>
              images  == PickAnchor(Anchors[mem.draw], row.header)
  <2>1. /\ row.part # None /\ product \in Catalogued /\ (row.alias => product \in aliases)
        /\ \A image \in images : ImageJob(data.run, image, product) \in Queued
    BY <1>2 DEF Loaded
  <2>2. product' = product
    BY <1>1
  <2>3. product \in Catalogued' /\ (row.alias => product \in aliases')
    BY <2>1 DEF Steady
  <2>4. \A image \in images : ImageJob(data.run, image, product) \in Queued'
    BY <2>1 DEF Steady, JobsSteady
  <2>. QED BY <2>1, <2>2, <2>3, <2>4 DEF Loaded
<1>3. Missing(data, mem, n)' \subseteq Missing(data, mem, n)
  BY <1>2 DEF Missing
<1>. QED BY <1>3, MissingFinite, FS_Subset

LEMMA KeptIsSteady ==
  ASSUME JobsKept, UNCHANGED expired  PROVE JobsSteady
BY DEF JobsKept, JobsSteady, Queued

LEMMA SteadyStep == ASSUME IInv, [Next]_vars PROVE Steady
<1>. USE DEF Steady
<1>0. /\ SameJobs(jobs, jobs') /\ UNCHANGED expired => JobsSteady
      /\ UNCHANGED <<jobs, expired>> => JobsSteady
  BY KeptIsSteady DEF SameJobs, JobsKept
<1>1. \A batch : jobs' = AddBulk(jobs, batch) /\ UNCHANGED expired => JobsSteady
  BY KeptIsSteady DEF AddBulk, JobsKept
<1>2. JobTable(jobs) /\ disk \in Nat \ {0}
  BY DEF IInv, TypeOK, JobTable, Versions
<1>3. \A r \in Runs : Request(r) => Steady
  <2>1. \A r \in Runs : runs[r] \in Run
    BY DEF IInv, TypeOK
  <2>. QED BY SMTT(30), <1>0, <1>1, <2>1 DEF Request, PostRun, AcceptRun, LoseRequest, Add, stores,
                             Catalogued, Run, IInv, TypeOK
<1>4. ASSUME NEW s \in Slots, Throw(s), slots[s].step # "idle"  PROVE Steady
  BY <1>0, <1>2, <1>4, FailAttemptLemma DEF Throw, stores, Catalogued
<1>5. ASSUME NEW s \in Slots, Take(s) \/ Finish(s)  PROVE Steady
  <2>1. SameJobs(jobs, jobs')
    <3>1. CASE Take(s)
      BY <1>2, <3>1, ClaimLemma DEF Take
    <3>2. CASE Finish(s)
      BY <1>2, <3>2, CompleteLemma, MemType DEF Finish, IInv
    <3>. QED BY <1>5, <3>1, <3>2
  <2>. QED BY <1>0, <1>5, <2>1 DEF Take, Finish, stores, Catalogued
<1>6. ASSUME NEW s \in Slots, FileWork(s)  PROVE Steady
  <2>1. CASE FileStart(s)
    <3>1. RunOf(s) \in Runs
      BY <2>1 DEF FileStart, At, IInv, SlotInv, RunOf, Payload
    <3>. QED BY <1>0, <2>1, <3>1 DEF FileStart, IInv, TypeOK, Run, stores, Catalogued
  <2>. QED BY <1>0, <1>1, <1>6, <2>1 DEF FileWork, FileEnumerate, FileFanOut, stores, Catalogued
<1>7. ASSUME NEW s \in Slots, SheetUpsert(s)  PROVE Steady
  <2>1. Catalogued \subseteq Catalogued'
    <3>1. slots[s].mem.ver \in Versions
      BY <1>7, RowLoop DEF SheetUpsert, At
    <3>. QED BY <1>7, <3>1 DEF SheetUpsert, IInv, TypeOK, Catalogued, Versions
  <2>. QED BY <1>0, <1>7, <2>1 DEF SheetUpsert
<1>8. ASSUME NEW s \in Slots, SheetWork(s)  PROVE Steady
  BY <1>0, <1>1, <1>7, <1>8 DEF SheetWork, SheetDrawings, SheetKeepDrawings, SheetRead,
       SheetRejectRow, SheetAlias, SheetAddImage, Add, stores, Catalogued
<1>9. ASSUME NEW s \in Slots, ImageWork(s)  PROVE Steady
  <2>1. ImageTornRead(s) => Steady
    BY <1>4 DEF ImageTornRead, At
  <2>. QED BY <1>0, <1>9, <2>1 DEF ImageWork, ImageOpen, ImageKeepArchive, ImageSkip, ImageBytes,
       ImageHeadFound, ImageHeadAbsent, ImagePut, ImageLink, stores, Catalogued
<1>10. ASSUME NEW id \in DOMAIN jobs, RecoverOrphan(id) \/ LoseLock(id)  PROVE Steady
  BY <1>0, <1>2, <1>10, StallLemma DEF RecoverOrphan, LoseLock, stores, Catalogued
<1>11. ReplaceFile \/ WorkerCrash \/ UNCHANGED vars => Steady
  BY <1>0, <1>2 DEF ReplaceFile, WorkerCrash, vars, stores, Catalogued
<1>12. \A s \in Slots : SheetRowFails(s) \/ AttemptFails(s) => Steady
  BY <1>0, <1>4 DEF SheetRowFails, AttemptFails, stores, Catalogued
<1>13. ASSUME NEW id \in DOMAIN jobs, Expire(id)  PROVE Steady
  <2>1. JobsSteady
    <3>1. /\ DOMAIN jobs' = DOMAIN jobs \ {id}
          /\ \A i \in DOMAIN jobs' : jobs'[i] = jobs[i]
      BY <1>2, <1>13, RemoveLemma DEF Expire
    <3>2. expired' = expired \cup {jobs[id].data}
      BY <1>13 DEF Expire
    <3>. QED BY <3>1, <3>2 DEF JobsSteady, Queued
  <2>. QED BY <1>13, <2>1 DEF Expire, stores, Catalogued
<1>. QED BY <1>3, <1>5, <1>6, <1>8, <1>9, <1>10, <1>11, <1>12, <1>13
         DEF Next, Work

LEMMA LenType ==
  ASSUME NEW data, NEW mem, SheetKnown(data, mem)
  PROVE  SheetLen(data, mem) \in Nat /\ Rows[mem.ver][data.sheet] \in Seq(Row)
BY WorkbookAssumption DEF SheetKnown, SheetLen

LEMMA KeptCounted ==
  ASSUME Steady, NEW data \in Payload, runs[data.run].request = "accepted",
         NEW mem \in Memory, AllCounted(data, mem)
  PROVE  AllCounted(data, mem)'
<1>1. SheetLen(data, mem) \in Int
  BY LenType DEF AllCounted
<1>2. Cardinality(Missing(data, mem, SheetLen(data, mem))') <= mem.failed
  BY <1>1, MissingShrinks, MissingFinite DEF AllCounted, Memory
<1>. QED BY <1>2 DEF AllCounted, SheetKnown, SheetLen

LEMMA KeptAttempt ==
  ASSUME Steady, NEW data \in Payload, runs[data.run].request = "accepted",
         NEW step, NEW mem \in Memory, Attempt(data, step, mem)
  PROVE  Attempt(data, step, mem)'
<1>1. mem.pos - 1 \in Int /\ runs'[data.run].dealer = runs[data.run].dealer
  BY DEF Memory, Steady, Payload
<1>2. step \in {"row", "alias", "image"} =>
        Cardinality(Missing(data, mem, mem.pos - 1)') <= mem.failed
  <2>1. SUFFICES ASSUME step \in {"row", "alias", "image"}
                 PROVE  Cardinality(Missing(data, mem, mem.pos - 1)') <= mem.failed
    OBVIOUS
  <2>2. PICK n \in Int : n = mem.pos - 1
    BY <1>1
  <2>3. Cardinality(Missing(data, mem, n)) <= mem.failed
    BY <2>1, <2>2 DEF Attempt, SheetAttempt
  <2>4. Cardinality(Missing(data, mem, n)') <= mem.failed
    BY <2>3, MissingShrinks, MissingFinite DEF Memory
  <2>. QED BY <2>2, <2>4
<1>3. SheetAttempt(data, step, mem)'
  BY <1>1, <1>2, KeptCounted DEF Attempt, SheetAttempt, Steady
<1>4. ImageAttempt(data, step, mem)'
  BY DEF Attempt, ImageAttempt, Steady
<1>5. (disk = 1 => FirstVersion(data, step, mem))'
  BY DEF Attempt, FirstVersion, Steady
<1>. QED BY <1>3, <1>4, <1>5 DEF Attempt

LEMMA KeptOutcome ==
  ASSUME Steady, NEW job \in Job, runs[job.data.run].request = "accepted", Outcome(job)
  PROVE  Outcome(job)'
<1>1. job.data \in Payload
  BY DEF Job
<1>. QED BY <1>1, KeptCounted DEF Outcome, Steady

(* What is known of the locals of a slot. *)
LEMMA SlotFacts ==
  ASSUME IInv, NEW s \in Slots, slots[s].step # "idle"
  PROVE  /\ slots[s].data \in Payload /\ slots[s].mem \in Memory
         /\ runs[slots[s].data.run].request = "accepted"
BY MemType DEF IInv, SlotInv, RunOf

LEMMA KeptSlotKnown ==
  ASSUME IInv, Steady, NEW s \in Slots, SlotKnown(s), slots'[s] = slots[s]
  PROVE  SlotKnown(s)'
<1>1. CASE slots[s].step = "idle"
  BY <1>1 DEF SlotKnown
<1>2. CASE slots[s].step # "idle"
  <2>1. PICK data, step, mem : data = slots[s].data /\ step = slots[s].step /\ mem = slots[s].mem
    OBVIOUS
  <2>2. Attempt(data, step, mem)'
    BY <1>2, <2>1, SlotFacts, KeptAttempt DEF SlotKnown
  <2>3. slots'[s].data = slots'[s].job
    BY <1>2 DEF SlotKnown
  <2>. QED BY <2>1, <2>2, <2>3 DEF SlotKnown
<1>. QED BY <1>1, <1>2

(* A slot that works goes to a step of which as much is known. *)
LEMMA MovedKnown ==
  ASSUME Known, Steady, NEW s \in Slots, slots[s].step # "idle",
         NEW step, NEW mem, Goto(s, step, mem), NEW data, data = slots[s].data,
         Attempt(data, step, mem)'
  PROVE  \A t \in Slots : SlotKnown(t)'
<1>1. /\ slots'[s].step = step /\ slots'[s].mem = mem /\ slots'[s].data = data
      /\ slots'[s].job = slots[s].job /\ \A t \in Slots \ {s} : slots'[t] = slots[t]
  BY DEF Known, IInv, TypeOK, SlotState, Goto
<1>2. slots'[s].data = slots'[s].job
  BY <1>1 DEF Known, SlotKnown
<1>3. SlotKnown(s)'
  BY <1>1, <1>2 DEF SlotKnown
<1>. QED BY <1>1, <1>3, KeptSlotKnown DEF Known

(* The row in hand is dealt with: on to the next, or the counters are final. *)
LEMMA NextRowKnown ==
  ASSUME Known, Steady, NEW s \in Slots, slots[s].step # "idle",
         NEW data, data = slots[s].data, data.queue = "sheet",
         NEW mem \in Memory, NextRow(s, mem), SheetKnown(data, mem),
         mem.pos <= SheetLen(data, mem),
         Cardinality(Missing(data, mem, mem.pos)') <= mem.failed,
         disk' = 1 => mem.draw = 1 /\ mem.ver = 1
  PROVE  \A t \in Slots : SlotKnown(t)'
<1>1. PICK len \in Nat : len = SheetLen(data, mem)
  BY LenType
<1>2. mem.pos \in Nat /\ mem.failed \in Nat
  BY DEF Memory
<1>3. CASE mem.pos < len
  <2>1. PICK next : next = [mem EXCEPT !.pos = @ + 1]
    OBVIOUS
  <2>2. /\ next.ver = mem.ver /\ next.draw = mem.draw /\ next.failed = mem.failed
        /\ next.pos = mem.pos + 1
    BY <2>1 DEF Memory
  <2>3. Missing(data, next, mem.pos)' = Missing(data, mem, mem.pos)'
    <3>1. \A i : Loaded(data, next, i)' <=> Loaded(data, mem, i)'
      BY <2>2 DEF Loaded
    <3>. QED BY <3>1 DEF Missing
  <2>4. next.pos - 1 = mem.pos
    BY <1>2, <2>2
  <2>5. Attempt(data, "row", next)'
    BY <2>2, <2>3, <2>4
    DEF Attempt, SheetAttempt, ImageAttempt, FirstVersion, OwnSteps, SheetSteps, ImageSteps
  <2>6. Goto(s, "row", next)
    BY <1>1, <1>3, <2>1 DEF NextRow, SheetOf, SheetLen
  <2>. QED BY <2>5, <2>6, MovedKnown
<1>4. CASE ~(mem.pos < len)
  <2>1. mem.pos = len
    BY <1>1, <1>2, <1>4
  <2>2. AllCounted(data, mem)'
    BY <1>1, <2>1 DEF AllCounted, SheetKnown, SheetLen
  <2>3. Attempt(data, "done", mem)'
    BY <2>2
    DEF Attempt, SheetAttempt, ImageAttempt, FirstVersion, OwnSteps, SheetSteps, ImageSteps
  <2>4. Goto(s, "done", mem)
    BY <1>1, <1>4 DEF NextRow, SheetOf, SheetLen
  <2>. QED BY <2>3, <2>4, MovedKnown
<1>. QED BY <1>3, <1>4

-----------------------------------------------------------------------------
(* The rows of a sheet.                                                     *)

LEMMA AnchorType ==
  ASSUME NEW v \in Versions, NEW i \in DOMAIN Anchors[v]
  PROVE  i \in Nat /\ Anchors[v][i].row \in Nat /\ Anchors[v][i].image \in Images
<1>1. Anchors[v] \in Seq(Anchor)
  BY WorkbookAssumption
<1>2. Len(Anchors[v]) \in Nat /\ DOMAIN Anchors[v] = 1 .. Len(Anchors[v])
      /\ Anchors[v][i] \in Anchor
  BY <1>1
<1>. QED BY <1>2 DEF Anchor

(* At most one picture is picked for a header. *)
LEMMA OneImage ==
  ASSUME NEW v \in Versions, NEW h \in Nat,
         NEW i \in PickAnchor(Anchors[v], h), NEW j \in PickAnchor(Anchors[v], h)
  PROVE  i = j
<1>. DEFINE Above == {a \in DOMAIN Anchors[v] : Anchors[v][a].row <= h - 1}
            Nearest(a) == \A b \in Above :
              \/ Anchors[v][b].row < Anchors[v][a].row
              \/ Anchors[v][b].row = Anchors[v][a].row /\ a <= b
<1>1. PICK a \in Above : i = Anchors[v][a].image /\ Nearest(a)
  BY DEF PickAnchor
<1>2. PICK b \in Above : j = Anchors[v][b].image /\ Nearest(b)
  BY DEF PickAnchor
<1>3. a = b
  BY <1>1, <1>2, AnchorType
<1>. QED BY <1>1, <1>2, <1>3

(* A row that is loaded leaves no more missing than there were before it. *)
LEMMA RowLoaded ==
  ASSUME Steady, NEW data \in Payload, runs[data.run].request = "accepted",
         NEW mem \in Memory, Cardinality(Missing(data, mem, mem.pos - 1)) <= mem.failed,
         Loaded(data, mem, mem.pos)'
  PROVE  Cardinality(Missing(data, mem, mem.pos)') <= mem.failed
<1>1. PICK n \in Int : n = mem.pos - 1
  BY DEF Memory
<1>2. mem.pos \in Nat /\ mem.failed \in Nat
  BY DEF Memory
<1>3. Missing(data, mem, mem.pos)' \subseteq Missing(data, mem, n)'
  BY <1>1, <1>2 DEF Missing
<1>4. Missing(data, mem, mem.pos)' \subseteq Missing(data, mem, n)
  BY <1>3, MissingShrinks
<1>5. Cardinality(Missing(data, mem, mem.pos)') <= Cardinality(Missing(data, mem, n))
  BY <1>4, MissingFinite, FS_Subset
<1>6. Cardinality(Missing(data, mem, n)) <= mem.failed
  BY <1>1
<1>. QED BY <1>2, <1>5, <1>6, MissingFinite

(* A row that is not loaded is one more missing, and one more counted. *)
LEMMA RowCounted ==
  ASSUME Steady, NEW data \in Payload, runs[data.run].request = "accepted",
         NEW mem \in Memory, Cardinality(Missing(data, mem, mem.pos - 1)) <= mem.failed,
         NEW next, next.ver = mem.ver, next.draw = mem.draw, next.pos = mem.pos,
         next.failed = mem.failed + 1
  PROVE  Cardinality(Missing(data, next, next.pos)') <= next.failed
<1>1. PICK n \in Int : n = mem.pos - 1
  BY DEF Memory
<1>2. mem.pos \in Nat /\ mem.failed \in Nat
  BY DEF Memory
<1>3. \A i : Loaded(data, next, i)' <=> Loaded(data, mem, i)'
  BY DEF Loaded
<1>4. Missing(data, next, next.pos)' \subseteq Missing(data, mem, n)' \cup {mem.pos}
  BY <1>1, <1>2, <1>3 DEF Missing
<1>5. Missing(data, next, next.pos)' \subseteq Missing(data, mem, n) \cup {mem.pos}
  BY <1>4, MissingShrinks
<1>6. Cardinality(Missing(data, next, next.pos)') <=
        Cardinality(Missing(data, mem, n) \cup {mem.pos})
  BY <1>5, MissingFinite, FS_Subset, FS_AddElement
<1>7. Cardinality(Missing(data, mem, n) \cup {mem.pos}) <= Cardinality(Missing(data, mem, n)) + 1
  <2>1. PICK S : S = Missing(data, mem, n)
    OBVIOUS
  <2>2. IsFiniteSet(S) /\ Cardinality(S) \in Nat
    BY <2>1, MissingFinite
  <2>3. Cardinality(S \cup {mem.pos}) \in {Cardinality(S), Cardinality(S) + 1}
    BY <2>2, FS_AddElement
  <2>. QED BY <2>1, <2>2, <2>3
<1>8. Cardinality(Missing(data, mem, n)) <= mem.failed
  BY <1>1
<1>9. Cardinality(Missing(data, mem, n) \cup {mem.pos}) \in Nat
  BY MissingFinite, FS_AddElement, FS_CardinalityType
<1>10. Cardinality(Missing(data, next, next.pos)') \in Nat
  BY MissingFinite, <1>2
<1>. QED BY <1>2, <1>6, <1>7, <1>8, <1>9, <1>10, MissingFinite

(* What a busy slot has in hand. *)
LEMMA InHand ==
  ASSUME Known, NEW s \in Slots, NEW step, slots[s].step = step, step # "idle"
  PROVE  \E data \in Payload, mem \in Memory :
           /\ data = slots[s].data /\ mem = slots[s].mem
           /\ Attempt(data, step, mem)
           /\ runs[data.run].request = "accepted"
BY SlotFacts DEF Known, SlotKnown

(* ... while its rows are written. *)
LEMMA RowKnown ==
  ASSUME Known, Steady, NEW s \in Slots, NEW step \in {"row", "alias", "image"},
         slots[s].step = step
  PROVE  \E data \in Payload, mem \in Memory :
           /\ data = slots[s].data /\ mem = slots[s].mem
           /\ Attempt(data, step, mem) /\ Attempt(data, step, mem)'
           /\ runs[data.run].request = "accepted"
           /\ data.queue = "sheet" /\ SheetKnown(data, mem) /\ mem.draw \in Versions
           /\ mem.pos \in 1 .. SheetLen(data, mem)
           /\ Rows[mem.ver][data.sheet][mem.pos] \in Row
           /\ runs'[data.run].dealer = runs[data.run].dealer
           /\ Cardinality(Missing(data, mem, mem.pos - 1)) <= mem.failed
           /\ disk' = 1 => mem.draw = 1 /\ mem.ver = 1
<1>1. PICK data \in Payload, mem \in Memory :
           /\ data = slots[s].data /\ mem = slots[s].mem
           /\ Attempt(data, step, mem)
           /\ runs[data.run].request = "accepted"
  BY InHand
<1>2. data.queue = "sheet"
  BY <1>1 DEF Attempt, OwnSteps, FileSteps, ImageSteps, Payload
<1>3. SheetKnown(data, mem) /\ mem.draw \in Versions /\ mem.pos \in 1 .. SheetLen(data, mem)
  BY <1>1 DEF Known, IInv, SlotInv, RowInHand, SheetOf, SheetKnown, SheetLen
<1>4. Rows[mem.ver][data.sheet][mem.pos] \in Row
  BY <1>3, LenType DEF SheetLen
<1>5. runs'[data.run].dealer = runs[data.run].dealer /\ (disk' = 1 => disk = 1)
  BY <1>1 DEF Steady, Payload
<1>6. Attempt(data, step, mem)'
  BY <1>1, KeptAttempt
<1>. QED BY ZenonT(30), <1>1, <1>2, <1>3, <1>4, <1>5, <1>6 DEF Attempt, SheetAttempt, FirstVersion

LEMMA SkipRowKnown ==
  ASSUME Known, Steady, NEW s \in Slots, NEW step \in {"row", "alias", "image"},
         slots[s].step = step, SkipRow(s)
  PROVE  \A t \in Slots : SlotKnown(t)'
<1>1. PICK data \in Payload, mem \in Memory :
           /\ data = slots[s].data /\ mem = slots[s].mem
           /\ runs[data.run].request = "accepted"
           /\ data.queue = "sheet" /\ SheetKnown(data, mem)
           /\ mem.pos \in 1 .. SheetLen(data, mem)
           /\ Cardinality(Missing(data, mem, mem.pos - 1)) <= mem.failed
           /\ disk' = 1 => mem.draw = 1 /\ mem.ver = 1
  BY RowKnown
<1>2. PICK next : next = [mem EXCEPT !.failed = @ + 1]
  OBVIOUS
<1>3. /\ next \in Memory /\ next.ver = mem.ver /\ next.draw = mem.draw
      /\ next.pos = mem.pos /\ next.failed = mem.failed + 1
  BY <1>2 DEF Memory
<1>4. Cardinality(Missing(data, next, next.pos)') <= next.failed
  BY <1>1, <1>3, RowCounted
<1>5. NextRow(s, next)
  BY <1>1, <1>2 DEF SkipRow
<1>6. SheetKnown(data, next) /\ next.pos <= SheetLen(data, next)
  BY <1>1, <1>3, LenType DEF SheetKnown, SheetLen
<1>7. disk' = 1 => next.draw = 1 /\ next.ver = 1
  BY <1>1, <1>3
<1>. QED BY <1>1, <1>3, <1>4, <1>5, <1>6, <1>7, NextRowKnown

LEMMA RowDoneKnown ==
  ASSUME Known, Steady, NEW s \in Slots, NEW step \in {"row", "alias", "image"},
         slots[s].step = step, NextRow(s, slots[s].mem),
         NEW data, data = slots[s].data, NEW mem, mem = slots[s].mem,
         Loaded(data, mem, mem.pos)'
  PROVE  \A t \in Slots : SlotKnown(t)'
<1>1. /\ data \in Payload /\ mem \in Memory
      /\ runs[data.run].request = "accepted"
      /\ data.queue = "sheet" /\ SheetKnown(data, mem)
      /\ mem.pos \in 1 .. SheetLen(data, mem)
      /\ Cardinality(Missing(data, mem, mem.pos - 1)) <= mem.failed
      /\ disk' = 1 => mem.draw = 1 /\ mem.ver = 1
  BY RowKnown
<1>2. Cardinality(Missing(data, mem, mem.pos)') <= mem.failed
  BY <1>1, RowLoaded
<1>3. mem.pos <= SheetLen(data, mem)
  BY <1>1, LenType
<1>. QED BY <1>1, <1>2, <1>3, NextRowKnown

(* The product and its alias are there: its picture is next, if it has one. *)
LEMMA IllustrateKnown ==
  ASSUME Known, Steady, NEW s \in Slots, NEW step \in {"row", "alias"},
         slots[s].step = step, Illustrate(s), RowAt(s).part # None,
         ProductAt(s) \in Catalogued', RowAt(s).alias => ProductAt(s) \in aliases'
  PROVE  \A t \in Slots : SlotKnown(t)'
<1>1. PICK data \in Payload, mem \in Memory :
           /\ data = slots[s].data /\ mem = slots[s].mem
           /\ Attempt(data, step, mem)'
           /\ data.queue = "sheet"
           /\ runs'[data.run].dealer = runs[data.run].dealer
  BY RowKnown
<1>2. PICK row : row = Rows[mem.ver][data.sheet][mem.pos]
  OBVIOUS
<1>3. row = RowAt(s) /\ ProductAt(s) = <<row.part, runs'[data.run].dealer>>
  BY <1>1, <1>2 DEF RowAt, SheetOf, ProductAt, DealerOf, RunOf
<1>4. CASE AnchorAt(s) # {}
  <2>1. Goto(s, "image", mem)
    BY <1>1, <1>4 DEF Illustrate
  <2>2. Attempt(data, "image", mem)'
    BY <1>1, <1>2, <1>3
    DEF Attempt, SheetAttempt, ImageAttempt, FirstVersion, OwnSteps, SheetSteps, ImageSteps
  <2>. QED BY <1>1, <2>1, <2>2, MovedKnown
<1>5. CASE AnchorAt(s) = {}
  <2>1. NextRow(s, slots[s].mem)
    BY <1>5 DEF Illustrate
  <2>2. PickAnchor(Anchors[mem.draw], row.header) = {}
    BY <1>1, <1>3, <1>5 DEF AnchorAt
  <2>3. Loaded(data, mem, mem.pos)'
    BY <1>2, <1>3, <2>2 DEF Loaded
  <2>. QED BY <1>1, <2>1, <2>3, RowDoneKnown
<1>. QED BY <1>4, <1>5

LEMMA SheetKnownNext ==
  ASSUME Known, Steady, NEW s \in Slots, SheetWork(s)
  PROVE  \A t \in Slots : SlotKnown(t)'
<1>. USE DEF At
<1>0. disk \in Versions /\ drawings \in 0 .. MaxVersion
  BY DEF Known, IInv, TypeOK
<1>1. CASE SheetDrawings(s)
  <2>1. PICK data \in Payload, mem \in Memory :
           /\ data = slots[s].data /\ mem = slots[s].mem
           /\ Attempt(data, "drawings", mem)
    BY <1>1, InHand DEF SheetDrawings
  <2>2. PICK next : next = [mem EXCEPT !.draw = IF drawings # 0 THEN drawings ELSE disk]
    OBVIOUS
  <2>3. PICK step \in {"read", "keepDrawings"} : Goto(s, step, next)
    BY <1>1, <2>1, <2>2 DEF SheetDrawings
  <2>4. /\ next.ver = mem.ver /\ next.pos = mem.pos /\ next.blob = mem.blob
        /\ disk' = 1 => next.draw = 1
    BY <2>1, <2>2 DEF Memory, Steady, Known, FirstCaches
  <2>5. data.queue = "sheet" /\ mem.ver = 0 /\ mem.pos = 0
    BY <2>1 DEF Attempt, SheetAttempt, OwnSteps, FileSteps, ImageSteps, Payload
  <2>6. Attempt(data, step, next)'
    BY <2>5, <2>4
    DEF Attempt, SheetAttempt, ImageAttempt, FirstVersion, OwnSteps, SheetSteps, ImageSteps
  <2>. QED BY <1>1, <2>1, <2>3, <2>6, MovedKnown DEF SheetDrawings
<1>2. CASE SheetKeepDrawings(s)
  <2>1. PICK data \in Payload, mem \in Memory :
           /\ data = slots[s].data /\ mem = slots[s].mem
           /\ Attempt(data, "keepDrawings", mem)
    BY <1>2, InHand DEF SheetKeepDrawings
  <2>2. /\ data.queue = "sheet" /\ mem.ver = 0 /\ mem.pos = 0
        /\ disk' = 1 => mem.draw = 1
    BY <2>1
    DEF Attempt, SheetAttempt, FirstVersion, OwnSteps, FileSteps, ImageSteps, Payload, Steady
  <2>3. Attempt(data, "read", mem)'
    BY <2>2
    DEF Attempt, SheetAttempt, ImageAttempt, FirstVersion, OwnSteps, SheetSteps, ImageSteps
  <2>. QED BY <1>2, <2>1, <2>3, MovedKnown DEF SheetKeepDrawings
<1>3. CASE SheetRead(s)
  <2>1. PICK data \in Payload, mem \in Memory :
           /\ data = slots[s].data /\ mem = slots[s].mem
           /\ Attempt(data, "read", mem) /\ runs[data.run].request = "accepted"
    BY <1>3, InHand DEF SheetRead
  <2>2. data.queue = "sheet" /\ mem.ver = 0 /\ mem.pos = 0 /\ (disk' = 1 => mem.draw = 1)
    BY <2>1
    DEF Attempt, SheetAttempt, FirstVersion, OwnSteps, FileSteps, ImageSteps, Payload, Steady
  <2>3. CASE data.sheet \in DOMAIN Rows[disk]
    <3>1. PICK next : next = [mem EXCEPT !.ver = disk]
      OBVIOUS
    <3>2. /\ next \in Memory /\ next.ver = disk /\ next.pos = 0
          /\ next.draw = mem.draw /\ next.failed = mem.failed /\ mem.failed \in Nat
      BY <1>0, <2>2, <3>1 DEF Memory, Versions
    <3>3. NextRow(s, next)
      BY <1>3, <2>1, <2>3, <3>1 DEF SheetRead, SheetOf
    <3>4. SheetKnown(data, next)
      BY <1>0, <2>3, <3>2 DEF SheetKnown
    <3>5. Cardinality(Missing(data, next, next.pos)') <= next.failed
      <4>1. Missing(data, next, next.pos)' = {}
        BY <3>2 DEF Missing
      <4>. QED BY <3>2, <4>1, FS_EmptySet
    <3>6. next.pos <= SheetLen(data, next)
      BY <3>2, <3>4, LenType
    <3>7. disk' = 1 => next.draw = 1 /\ next.ver = 1
      BY <2>2, <3>2 DEF Steady
    <3>. QED BY <1>3, <2>1, <2>2, <3>2, <3>3, <3>4, <3>5, <3>6, <3>7, NextRowKnown
             DEF SheetRead
  <2>4. CASE data.sheet \notin DOMAIN Rows[disk]
    <3>1. Goto(s, "done", mem)
      BY <1>3, <2>1, <2>4 DEF SheetRead, SheetOf
    <3>2. Attempt(data, "done", mem)'
      BY <2>2
      DEF Attempt, SheetAttempt, ImageAttempt, FirstVersion, OwnSteps, SheetSteps, ImageSteps
    <3>. QED BY <1>3, <2>1, <3>1, <3>2, MovedKnown DEF SheetRead
  <2>. QED BY <2>3, <2>4
<1>4. CASE SheetRejectRow(s)
  BY <1>4, SkipRowKnown DEF SheetRejectRow
<1>5. CASE SheetUpsert(s)
  <2>1. PICK data \in Payload, mem \in Memory :
           /\ data = slots[s].data /\ mem = slots[s].mem
           /\ Attempt(data, "row", mem)' /\ data.queue = "sheet"
           /\ mem.ver \in Versions
    BY <1>5, RowKnown DEF SheetUpsert, SheetKnown
  <2>2. ProductAt(s) \in Catalogued'
    <3>1. ProductAt(s) \in Products
      BY <1>5, RowLoop DEF Known, SheetUpsert, Rejected, ProductAt, Products, Row
    <3>. QED BY <1>5, <2>1, <3>1 DEF SheetUpsert, Known, IInv, TypeOK, Catalogued, Versions
  <2>3. CASE RowAt(s).alias
    <3>1. Goto(s, "alias", mem)
      BY <1>5, <2>1, <2>3 DEF SheetUpsert
    <3>2. Attempt(data, "alias", mem)'
      BY <2>1
      DEF Attempt, SheetAttempt, ImageAttempt, FirstVersion, OwnSteps, SheetSteps, ImageSteps
    <3>. QED BY <1>5, <2>1, <3>1, <3>2, MovedKnown DEF SheetUpsert
  <2>4. CASE ~RowAt(s).alias
    BY <1>5, <2>2, <2>4, IllustrateKnown DEF SheetUpsert, Rejected
  <2>. QED BY <2>3, <2>4
<1>6. CASE SheetAlias(s)
  <2>1. ProductAt(s) \in Catalogued
    BY <1>6 DEF SheetAlias, Known, IInv, SlotInv
  <2>2. RowAt(s).part # None
    BY <2>1, NameAssumption DEF ProductAt, Catalogued, Products
  <2>. QED BY <1>6, <2>1, <2>2, IllustrateKnown DEF SheetAlias, Steady
<1>7. CASE SheetAddImage(s)
  <2>1. PICK data \in Payload, mem \in Memory :
           /\ data = slots[s].data /\ mem = slots[s].mem
           /\ Attempt(data, "image", mem)' /\ data.queue = "sheet"
           /\ Rows[mem.ver][data.sheet][mem.pos] \in Row /\ mem.draw \in Versions
           /\ runs'[data.run].dealer = runs[data.run].dealer
    BY <1>7, RowKnown DEF SheetAddImage
  <2>2. PICK row \in Row : row = Rows[mem.ver][data.sheet][mem.pos]
    BY <2>1
  <2>3. row = RowAt(s) /\ ProductAt(s) = <<row.part, runs'[data.run].dealer>>
    BY <2>1, <2>2 DEF RowAt, SheetOf, ProductAt, DealerOf, RunOf
  <2>4. ProductAt(s) \in Catalogued /\ ProductAt(s) \in Catalogued'
    BY <1>7 DEF SheetAddImage, Known, IInv, SlotInv, Steady
  <2>5. row.part # None
    BY <2>3, <2>4, NameAssumption DEF Catalogued, Products
  <2>6. row.alias => ProductAt(s) \in aliases'
    BY <2>1, <2>2, <2>3 DEF Attempt, SheetAttempt
  <2>7. \A image \in PickAnchor(Anchors[mem.draw], row.header) :
          ImageJob(data.run, image, ProductAt(s)) \in Queued'
    <3>1. PICK picked \in AnchorAt(s) :
            jobs' = Add(jobs, ImageJobId(ImageJob(RunOf(s), picked, ProductAt(s))),
                        ImageJob(RunOf(s), picked, ProductAt(s)))
      BY <1>7 DEF SheetAddImage
    <3>2. PICK job : job = ImageJob(data.run, picked, ProductAt(s))
      OBVIOUS
    <3>3. jobs' = Add(jobs, job, job)
      BY <2>1, <3>1, <3>2 DEF RunOf, ImageJobId, ImageJob, FileJob
    <3>4. job \in Queued'
      BY <3>3 DEF Add, AddBulk, Fresh, Known, JobKnown, Queued
    <3>5. \A image \in PickAnchor(Anchors[mem.draw], row.header) : image = picked
      BY <2>1, <2>2, <2>3, <3>1, OneImage DEF AnchorAt, Row
    <3>. QED BY <3>2, <3>4, <3>5
  <2>8. Loaded(data, mem, mem.pos)'
    BY <2>2, <2>3, <2>4, <2>5, <2>6, <2>7 DEF Loaded
  <2>. QED BY <1>7, <2>1, <2>8, RowDoneKnown DEF SheetAddImage
<1>. QED BY <1>1, <1>2, <1>3, <1>4, <1>5, <1>6, <1>7 DEF SheetWork

LEMMA ImageKnownNext ==
  ASSUME Known, Steady, NEW s \in Slots, ImageWork(s), ~ImageTornRead(s)
  PROVE  \A t \in Slots : SlotKnown(t)'
<1>. USE DEF At
<1>0. disk \in Versions /\ archive \in 0 .. MaxVersion
  BY DEF Known, IInv, TypeOK
<1>1. PICK step : step = slots[s].step
  OBVIOUS
<1>2. step \in ImageSteps /\ step # "idle"
  BY <1>1 DEF ImageWork, ImageOpen, ImageKeepArchive, ImageSkip, ImageBytes, ImageTornRead,
              ImageHeadFound, ImageHeadAbsent, ImagePut, ImageLink, ImageSteps
<1>3. PICK data \in Payload, mem \in Memory :
           /\ data = slots[s].data /\ mem = slots[s].mem
           /\ Attempt(data, step, mem)
  BY <1>1, <1>2, InHand
<1>4. data.queue = "image"
  BY <1>2, <1>3 DEF Attempt, OwnSteps, FileSteps, SheetSteps, ImageSteps, Payload
<1>5. \A next : \A to \in ImageSteps \cup {"done"} :
        ImageAttempt(data, to, next)' /\ (disk' = 1 => FirstVersion(data, to, next))
          => Attempt(data, to, next)'
  BY <1>4 DEF Attempt, SheetAttempt, OwnSteps, ImageSteps, FirstVersion
<1>a. disk' = 1 => Anchored(data.product, data.image)
  BY <1>2, <1>3 DEF Attempt, FirstVersion, Steady
<1>6. ASSUME NEW next, NEW to \in ImageSteps \cup {"done"}, Goto(s, to, next),
             ImageAttempt(data, to, next)', disk' = 1 => FirstVersion(data, to, next)
      PROVE  \A t \in Slots : SlotKnown(t)'
  BY <1>1, <1>2, <1>3, <1>5, <1>6, MovedKnown
<1>7. ASSUME ImageOpen(s) PROVE \A t \in Slots : SlotKnown(t)'
  <2>1. PICK next : next = [mem EXCEPT !.ver = IF archive # 0 THEN archive ELSE disk]
    OBVIOUS
  <2>2. PICK to \in {"bytes", "keepArchive"} : Goto(s, to, next)
    BY <1>3, <1>7, <2>1 DEF ImageOpen
  <2>3. next.blob = mem.blob /\ mem.blob = None /\ (disk' = 1 => next.ver = 1)
    BY <1>1, <1>3, <1>7, <2>1
    DEF ImageOpen, Attempt, ImageAttempt, Memory, Steady, Known, FirstCaches
  <2>4. ImageAttempt(data, to, next)' /\ (disk' = 1 => FirstVersion(data, to, next))
    BY <1>a, <2>3 DEF ImageAttempt, FirstVersion
  <2>. QED BY <1>6, <2>2, <2>4 DEF ImageSteps
<1>8. ASSUME ImageKeepArchive(s) PROVE \A t \in Slots : SlotKnown(t)'
  <2>1. Goto(s, "bytes", mem)
    BY <1>3, <1>8 DEF ImageKeepArchive
  <2>2. ImageAttempt(data, "bytes", mem)' /\ (disk' = 1 => FirstVersion(data, "bytes", mem))
    BY <1>1, <1>3, <1>8, <1>a
    DEF ImageKeepArchive, Attempt, ImageAttempt, FirstVersion, Steady
  <2>. QED BY <1>6, <2>1, <2>2 DEF ImageSteps
<1>9. ASSUME ImageSkip(s) PROVE \A t \in Slots : SlotKnown(t)'
  <2>1. Goto(s, "done", mem)
    BY <1>3, <1>9 DEF ImageSkip
  <2>2. ImageAttempt(data, "done", mem)' /\ FirstVersion(data, "done", mem)
    BY <1>1, <1>3, <1>9 DEF ImageSkip, Attempt, ImageAttempt, FirstVersion, ImageSteps
  <2>. QED BY <1>6, <2>1, <2>2
<1>10. ASSUME ImageBytes(s) PROVE \A t \in Slots : SlotKnown(t)'
  <2>1. PICK b \in Blobs : /\ mem.ver = disk => b = Media[mem.ver][data.image]
                           /\ Goto(s, "head", [mem EXCEPT !.blob = b])
    BY <1>3, <1>10 DEF ImageBytes, MediaAt
  <2>2. PICK next : next = [mem EXCEPT !.blob = b]
    OBVIOUS
  <2>3. next.blob = b
    BY <2>2 DEF Memory
  <2>4. disk' = 1 => b = Media[1][data.image]
    BY <1>1, <1>3, <1>10, <2>1 DEF ImageBytes, Attempt, FirstVersion, Steady
  <2>5. ImageAttempt(data, "head", next)' /\ (disk' = 1 => FirstVersion(data, "head", next))
    BY <1>a, <2>3, <2>4 DEF ImageAttempt, FirstVersion
  <2>. QED BY <1>6, <2>1, <2>2, <2>5 DEF ImageSteps
<1>11. ASSUME ImageHeadFound(s) \/ ImageHeadAbsent(s) \/ ImagePut(s)
       PROVE  \A t \in Slots : SlotKnown(t)'
  <2>1. PICK to \in {"put", "link"} : Goto(s, to, mem)
    BY <1>3, <1>11 DEF ImageHeadFound, ImageHeadAbsent, ImagePut
  <2>2. disk' = 1 => mem.blob = Media[1][data.image]
    BY <1>1, <1>3, <1>11
    DEF ImageHeadFound, ImageHeadAbsent, ImagePut, Attempt, FirstVersion, Steady
  <2>3. ImageAttempt(data, to, mem)' /\ (disk' = 1 => FirstVersion(data, to, mem))
    BY <1>a, <2>2 DEF ImageAttempt, FirstVersion
  <2>. QED BY <1>6, <2>1, <2>3 DEF ImageSteps
<1>12. ASSUME ImageLink(s) PROVE \A t \in Slots : SlotKnown(t)'
  <2>1. Goto(s, "done", mem)
    BY <1>3, <1>12 DEF ImageLink
  <2>2. <<data.product, mem.blob>> \in links'
    BY <1>3, <1>12 DEF ImageLink
  <2>3. ImageAttempt(data, "done", mem)' /\ FirstVersion(data, "done", mem)
    BY <2>2 DEF ImageAttempt, FirstVersion, ImageSteps
  <2>. QED BY <1>6, <2>1, <2>3
<1>. QED BY <1>7, <1>8, <1>9, <1>10, <1>11, <1>12 DEF ImageWork

LEMMA FileKnownNext ==
  ASSUME Known, Steady, NEW s \in Slots, FileWork(s)
  PROVE  \A t \in Slots : SlotKnown(t)'
<1>. USE DEF At
<1>1. PICK step : step = slots[s].step
  OBVIOUS
<1>2. step \in FileSteps /\ step # "idle"
  BY <1>1 DEF FileWork, FileStart, FileEnumerate, FileFanOut, FileSteps
<1>3. PICK data \in Payload, mem \in Memory :
           /\ data = slots[s].data /\ mem = slots[s].mem
           /\ Attempt(data, step, mem)
  BY <1>1, <1>2, InHand
<1>4. data.queue = "file"
  BY <1>2, <1>3 DEF Attempt, OwnSteps, FileSteps, SheetSteps, ImageSteps, Payload
<1>5. PICK next, to : to \in {"enumerate", "fanout", "done"} /\ Goto(s, to, next)
  BY DEF FileWork, FileStart, FileEnumerate, FileFanOut
<1>6. Attempt(data, to, next)'
  BY <1>4, <1>5
  DEF Attempt, SheetAttempt, ImageAttempt, FirstVersion, OwnSteps, FileSteps, ImageSteps
<1>. QED BY <1>1, <1>2, <1>3, <1>5, <1>6, MovedKnown

LEMMA TakeKnown ==
  ASSUME Known, Steady, NEW s \in Slots, Take(s)
  PROVE  \A t \in Slots : SlotKnown(t)'
<1>1. PICK id \in DOMAIN jobs :
        /\ jobs[id].data.queue = QueueOf(s)
        /\ slots' = [slots EXCEPT ![s] = [step |-> FirstStep(QueueOf(s)), job |-> id,
                                          data |-> jobs[id].data, mem |-> Blank]]
  BY DEF Take
<1>2. PICK data, step : data = jobs[id].data /\ step = FirstStep(QueueOf(s))
  OBVIOUS
<1>3. Attempt(data, step, Blank)'
  <2>1. disk' = 1 /\ data.queue = "image" => Anchored(data.product, data.image)
    BY <1>2 DEF Known, JobKnown, Steady
  <2>2. /\ data.queue = QueueOf(s) /\ QueueOf(s) \in {"file", "sheet", "image"}
        /\ step = FirstStep(data.queue)
    BY <1>1, <1>2 DEF QueueOf
  <2>3. /\ step \in {"start", "drawings", "open"} /\ step \in OwnSteps(data.queue)
        /\ step \in ImageSteps => data.queue = "image"
    BY <2>2 DEF FirstStep, OwnSteps, FileSteps, SheetSteps, ImageSteps
  <2>. QED BY <2>1, <2>3 DEF Attempt, SheetAttempt, ImageAttempt, FirstVersion, Blank
<1>4. /\ slots'[s].step = step /\ slots'[s].mem = Blank /\ slots'[s].data = data
      /\ slots'[s].job = id /\ \A t \in Slots \ {s} : slots'[t] = slots[t]
  BY <1>1, <1>2 DEF Known, IInv, TypeOK
<1>5. slots'[s].data = slots'[s].job
  BY <1>2, <1>4 DEF Known, JobKnown
<1>6. SlotKnown(s)'
  BY <1>3, <1>4, <1>5 DEF SlotKnown
<1>. QED BY <1>4, <1>6, KeptSlotKnown DEF Known

(* Slots that stay where they are, or give their job back. *)
LEMMA StillKnown ==
  ASSUME Known, Steady, \A t \in Slots : slots'[t] \in {slots[t], Idle}
  PROVE  \A t \in Slots : SlotKnown(t)'
<1>1. ASSUME NEW t \in Slots, slots'[t] = Idle PROVE SlotKnown(t)'
  BY <1>1 DEF SlotKnown, Idle
<1>. QED BY <1>1, KeptSlotKnown DEF Known

LEMMA SlotsKnownNext ==
  ASSUME Known, Steady, [Next]_vars
  PROVE  \A t \in Slots : SlotKnown(t)'
<1>0. slots \in [Slots -> SlotState]
  BY DEF Known, IInv, TypeOK
<1>1. \A r \in Runs : Request(r) => slots' = slots
  BY DEF Request, PostRun, AcceptRun, LoseRequest
<1>2. ASSUME NEW s \in Slots, Finish(s) \/ AttemptFails(s) \/ ImageTornRead(s)
      PROVE  \A t \in Slots : slots'[t] \in {slots[t], Idle}
  BY <1>0, <1>2 DEF Finish, AttemptFails, ImageTornRead, Throw
<1>3. WorkerCrash => \A t \in Slots : slots'[t] \in {slots[t], Idle}
  BY DEF WorkerCrash
<1>4. ReplaceFile \/ UNCHANGED vars => slots' = slots
  BY DEF ReplaceFile, vars
<1>5. \A id : RecoverOrphan(id) \/ LoseLock(id) \/ Expire(id) => slots' = slots
  BY DEF RecoverOrphan, LoseLock, Expire
<1>6. ASSUME NEW s \in Slots, SheetRowFails(s) PROVE \A t \in Slots : SlotKnown(t)'
  BY <1>6, SkipRowKnown DEF SheetRowFails
<1>7. CASE slots' = slots
  BY <1>7, StillKnown
<1>. QED BY <1>1, <1>2, <1>3, <1>4, <1>5, <1>6, <1>7, StillKnown, TakeKnown, FileKnownNext,
            SheetKnownNext, ImageKnownNext DEF Next, Work, ImageWork

-----------------------------------------------------------------------------
(* The jobs.                                                                *)

(* A job that does not complete in this step. *)
LEMMA KeptJobKnown ==
  ASSUME Known, Steady, NEW id \in DOMAIN jobs, id \in DOMAIN jobs',
         jobs'[id].st = "completed" => jobs'[id] = jobs[id]
  PROVE  JobKnown(id)'
<1>1. PICK job \in Job : job = jobs[id]
  BY DEF Known, IInv, TypeOK
<1>2. /\ Outcome(job) /\ runs[job.data.run].request = "accepted"
      /\ jobs'[id].data = job.data /\ job.data = id
      /\ disk' = 1 => disk = 1
  BY <1>1 DEF Known, JobKnown, IInv, JobInv, Steady, JobsSteady
<1>3. \A new \in {jobs'[id]} : Outcome(new)'
  <2>1. CASE jobs'[id].st = "completed"
    BY <1>1, <1>2, <2>1, KeptOutcome
  <2>2. CASE jobs'[id].st # "completed"
    BY <2>2 DEF Outcome
  <2>. QED BY <2>1, <2>2
<1>4. disk = 1 /\ job.data.queue = "image" => Anchored(job.data.product, job.data.image)
  BY <1>1 DEF Known, JobKnown
<1>. QED BY <1>2, <1>3, <1>4 DEF JobKnown

(* New jobs: their ids are their payloads, and a picture is anchored. *)
LEMMA AddedKnown ==
  ASSUME Known, Steady, NEW batch, jobs' = AddBulk(jobs, batch),
         \A id \in DOMAIN batch :
           /\ batch[id] = id
           /\ disk' = 1 /\ id.queue = "image" => Anchored(id.product, id.image)
  PROVE  \A id \in DOMAIN jobs' : JobKnown(id)'
<1>1. ASSUME NEW id \in DOMAIN jobs PROVE JobKnown(id)'
  <2>1. id \in DOMAIN jobs' /\ jobs'[id] = jobs[id]
    BY DEF AddBulk
  <2>. QED BY <2>1, KeptJobKnown
<1>2. ASSUME NEW id \in DOMAIN jobs', id \notin DOMAIN jobs PROVE JobKnown(id)'
  <2>1. id \in DOMAIN batch /\ jobs'[id] = Fresh(id)
    BY <1>2 DEF AddBulk
  <2>2. jobs'[id].data = id /\ jobs'[id].st = "wait"
    BY <2>1 DEF Fresh
  <2>3. \A job \in {jobs'[id]} : Outcome(job)'
    BY <2>2 DEF Outcome
  <2>. QED BY <2>1, <2>2, <2>3 DEF JobKnown
<1>. QED BY <1>1, <1>2

LEMMA FinishKnown ==
  ASSUME Known, Steady, NEW s \in Slots, Finish(s)
  PROVE  \A id \in DOMAIN jobs' : JobKnown(id)'
<1>1. PICK data \in Payload, mem \in Memory :
           /\ data = slots[s].data /\ mem = slots[s].mem
           /\ Attempt(data, "done", mem)
           /\ runs[data.run].request = "accepted"
  BY InHand DEF Finish, At
<1>2. PICK job : job = slots[s].job
  OBVIOUS
<1>3. data = job /\ (job \in DOMAIN jobs => jobs[job].data = job)
  BY <1>1, <1>2 DEF Finish, At, Known, SlotKnown, JobKnown
<1>4. jobs' = Complete(jobs, job, s, mem)
  BY <1>1, <1>2 DEF Finish
<1>5. DOMAIN jobs' = DOMAIN jobs /\ \A id \in DOMAIN jobs \ {job} : jobs'[id] = jobs[id]
  BY <1>4 DEF Complete
<1>6. ASSUME job \in DOMAIN jobs PROVE JobKnown(job)'
  <2>1. CASE jobs'[job] = jobs[job]
    BY <1>5, <1>6, <2>1, KeptJobKnown
  <2>2. CASE jobs'[job] # jobs[job]
    <3>1. /\ jobs'[job].data = data /\ jobs'[job].ret = mem
      BY <1>3, <1>4, <1>6, <2>2 DEF Complete, Known, IInv, TypeOK, Job
    <3>2. Attempt(data, "done", mem)'
      BY <1>1, KeptAttempt
    <3>3. \A new \in {jobs'[job]} : Outcome(new)'
      BY <1>1, <3>1, <3>2 DEF Outcome, Attempt, SheetAttempt, ImageAttempt
    <3>4. disk' = 1 /\ data.queue = "image" => Anchored(data.product, data.image)
      BY <1>3, <1>6 DEF Known, JobKnown, Steady
    <3>. QED BY <1>3, <3>1, <3>3, <3>4 DEF JobKnown
  <2>. QED BY <2>1, <2>2
<1>7. \A id \in DOMAIN jobs \ {job} : JobKnown(id)'
  BY <1>5, KeptJobKnown
<1>. QED BY <1>5, <1>6, <1>7

(* The picture a sheet job queues is anchored at the row's section. *)
LEMMA ImageAdded ==
  ASSUME Known, Steady, NEW s \in Slots, SheetAddImage(s)
  PROVE  \A id \in DOMAIN jobs' : JobKnown(id)'
<1>1. PICK picked \in AnchorAt(s) :
        jobs' = Add(jobs, ImageJobId(ImageJob(RunOf(s), picked, ProductAt(s))),
                    ImageJob(RunOf(s), picked, ProductAt(s)))
  BY DEF SheetAddImage
<1>2. PICK job : job = ImageJob(RunOf(s), picked, ProductAt(s))
  OBVIOUS
<1>3. /\ job.queue = "image" /\ job.image = picked /\ job.product = ProductAt(s)
      /\ ImageJobId(job) = job
  BY <1>2 DEF ImageJob, FileJob, ImageJobId
<1>4. PICK data \in Payload, mem \in Memory :
           /\ data = slots[s].data /\ mem = slots[s].mem
           /\ SheetKnown(data, mem) /\ mem.pos \in 1 .. SheetLen(data, mem)
           /\ disk' = 1 => mem.draw = 1 /\ mem.ver = 1
  BY RowKnown DEF SheetAddImage, At
<1>5. disk' = 1 => Anchored(job.product, job.image)
  <2>1. SUFFICES ASSUME disk' = 1 PROVE Anchored(job.product, job.image)
    OBVIOUS
  <2>2. data.sheet \in DOMAIN Rows[1] /\ mem.pos \in DOMAIN Rows[1][data.sheet]
    BY <1>4, <2>1, LenType DEF SheetKnown, SheetLen
  <2>3. /\ Rows[1][data.sheet][mem.pos].part = job.product[1]
        /\ job.image \in PickAnchor(Anchors[1], Rows[1][data.sheet][mem.pos].header)
    <3>1. RowAt(s) = Rows[1][data.sheet][mem.pos] /\ mem.draw = 1
      BY <1>4, <2>1 DEF RowAt, SheetOf
    <3>2. job.product[1] = RowAt(s).part
      BY <1>3 DEF ProductAt
    <3>3. job.image \in PickAnchor(Anchors[1], RowAt(s).header)
      BY <1>1, <1>3, <1>4, <3>1 DEF AnchorAt
    <3>. QED BY <3>1, <3>2, <3>3
  <2>. QED BY <2>2, <2>3 DEF Anchored
<1>6. PICK batch : batch = [i \in {job} |-> job]
  OBVIOUS
<1>7. jobs' = AddBulk(jobs, batch)
  BY <1>1, <1>2, <1>3, <1>6 DEF Add
<1>. QED BY <1>5, <1>6, <1>7, AddedKnown

LEMMA JobsKnownNext ==
  ASSUME Known, Steady, [Next]_vars
  PROVE  \A id \in DOMAIN jobs' : JobKnown(id)'
<1>0. JobTable(jobs) /\ TypeOK
  BY DEF Known, IInv, TypeOK, JobTable
<1>1. CASE UNCHANGED jobs
  BY <1>1, KeptJobKnown
<1>2. ASSUME NEW r \in Runs, AcceptRun(r) PROVE \A id \in DOMAIN jobs' : JobKnown(id)'
  <2>1. PICK batch : batch = [i \in {FileJob(r)} |-> FileJob(r)]
    OBVIOUS
  <2>2. jobs' = AddBulk(jobs, batch)
    BY <1>2, <2>1 DEF AcceptRun, Add, FileJobId, FileJob
  <2>3. \A id \in DOMAIN batch : batch[id] = id /\ id.queue # "image"
    BY <2>1 DEF FileJob
  <2>. QED BY <2>2, <2>3, AddedKnown
<1>3. ASSUME NEW s \in Slots, FileFanOut(s) PROVE \A id \in DOMAIN jobs' : JobKnown(id)'
  <2>1. PICK batch : batch = FanOut(RunOf(s), slots[s].mem.ver)
    OBVIOUS
  <2>2. jobs' = AddBulk(jobs, batch)
    BY <1>3, <2>1 DEF FileFanOut
  <2>3. \A sh : SheetJobId(SheetJob(RunOf(s), sh)) = SheetJob(RunOf(s), sh)
                /\ SheetJob(RunOf(s), sh).queue # "image"
    BY DEF SheetJobId, SheetJob, FileJob
  <2>4. \A id \in DOMAIN batch : batch[id] = id /\ id.queue # "image"
    BY <2>1, <2>3 DEF FanOut
  <2>. QED BY <2>2, <2>4, AddedKnown
<1>4. ASSUME NEW s \in Slots, Take(s) PROVE \A id \in DOMAIN jobs' : JobKnown(id)'
  <2>1. PICK id \in DOMAIN jobs : jobs' = Claim(jobs, id, s)
    BY <1>4 DEF Take
  <2>2. DOMAIN jobs' = DOMAIN jobs /\ \A i \in DOMAIN jobs :
          jobs'[i].st = "completed" => jobs'[i] = jobs[i]
    BY <1>0, <2>1 DEF Claim, TypeOK, Job
  <2>. QED BY <2>2, KeptJobKnown
<1>5. ASSUME NEW s \in Slots, slots[s].step # "idle", Throw(s)
      PROVE  \A id \in DOMAIN jobs' : JobKnown(id)'
  <2>1. DOMAIN jobs' = DOMAIN jobs /\ \A i \in DOMAIN jobs :
          jobs'[i].st = "completed" => jobs'[i] = jobs[i]
    BY <1>0, <1>5 DEF Throw, FailAttempt, Holds, TypeOK, Job
  <2>. QED BY <2>1, KeptJobKnown
<1>6. ASSUME NEW id \in DOMAIN jobs, RecoverOrphan(id) \/ LoseLock(id)
      PROVE  \A i \in DOMAIN jobs' : JobKnown(i)'
  <2>1. DOMAIN jobs' = DOMAIN jobs /\ \A i \in DOMAIN jobs :
          jobs'[i].st = "completed" => jobs'[i] = jobs[i]
    BY <1>0, <1>6 DEF RecoverOrphan, LoseLock, Stall, TypeOK, Job
  <2>. QED BY <2>1, KeptJobKnown
<1>13. ASSUME NEW id \in DOMAIN jobs, Expire(id)
       PROVE  \A i \in DOMAIN jobs' : JobKnown(i)'
  <2>1. \A i \in DOMAIN jobs' : i \in DOMAIN jobs /\ jobs'[i] = jobs[i]
    BY <1>0, <1>13, RemoveLemma DEF Expire
  <2>. QED BY <2>1, KeptJobKnown
<1>7. \A r \in Runs : Request(r) => AcceptRun(r) \/ UNCHANGED jobs
  BY DEF Request, PostRun, LoseRequest
<1>8. \A s \in Slots : FileWork(s) => FileFanOut(s) \/ UNCHANGED jobs
  BY DEF FileWork, FileStart, FileEnumerate
<1>9. \A s \in Slots : SheetWork(s) => SheetAddImage(s) \/ UNCHANGED jobs
  BY DEF SheetWork, SheetDrawings, SheetKeepDrawings, SheetRead, SheetRejectRow,
         SheetUpsert, SheetAlias
<1>10. \A s \in Slots : ImageWork(s) => UNCHANGED jobs \/ (Throw(s) /\ slots[s].step # "idle")
  BY DEF ImageWork, ImageOpen, ImageKeepArchive, ImageSkip, ImageBytes, ImageTornRead,
         ImageHeadFound, ImageHeadAbsent, ImagePut, ImageLink, At
<1>11. \A s \in Slots : AttemptFails(s) => Throw(s) /\ slots[s].step # "idle"
  BY DEF AttemptFails
<1>12. ReplaceFile \/ WorkerCrash \/ UNCHANGED vars \/ (\E s \in Slots : SheetRowFails(s))
         => UNCHANGED jobs
  BY DEF ReplaceFile, WorkerCrash, SheetRowFails, vars
<1>. QED BY <1>1, <1>2, <1>3, <1>4, <1>5, <1>6, <1>7, <1>8, <1>9, <1>10, <1>11, <1>12,
            <1>13, FinishKnown, ImageAdded DEF Next, Work

-----------------------------------------------------------------------------
(* The caches and the links of a workbook that was never replaced.          *)

LEMMA AnchoredImage ==
  ASSUME NEW product, NEW image, Anchored(product, image)  PROVE image \in Images
<1>1. 1 \in Versions
  BY WorkbookAssumption DEF Versions
<1>. QED BY <1>1, AnchorType DEF Anchored, PickAnchor

LEMMA FirstLinks ==
  ASSUME Known, Steady, [Next]_vars, disk' = 1, NEW l \in links'
  PROVE  \E image \in Images : Anchored(l[1], image) /\ Media[1][image] = l[2]
<1>1. disk = 1
  BY DEF Steady
<1>2. CASE l \in links
  BY <1>1, <1>2 DEF Known, FirstCaches
<1>3. CASE l \notin links
  <2>1. PICK s \in Slots : ImageLink(s)
    <3>1. ASSUME NEW s \in Slots, FileWork(s) \/ SheetWork(s)  PROVE links' = links
      BY <3>1 DEF FileWork, FileStart, FileEnumerate, FileFanOut, SheetWork, SheetDrawings,
         SheetKeepDrawings, SheetRead, SheetRejectRow, SheetUpsert, SheetAlias, SheetAddImage,
         stores
    <3>2. ASSUME NEW s \in Slots, ImageWork(s), ~ImageLink(s)  PROVE links' = links
      BY <3>2 DEF ImageWork, ImageOpen, ImageKeepArchive, ImageSkip, ImageBytes, ImageTornRead,
         Throw, ImageHeadFound, ImageHeadAbsent, ImagePut, stores
    <3>3. ASSUME NEW s \in Slots, Take(s) \/ Finish(s) \/ AttemptFails(s) \/ SheetRowFails(s)
          PROVE  links' = links
      BY <3>3 DEF Take, Finish, AttemptFails, SheetRowFails, Throw, stores
    <3>4. CASE (\E r \in Runs : Request(r)) \/ ReplaceFile \/ WorkerCrash
               \/ (\E id \in DOMAIN jobs : RecoverOrphan(id) \/ LoseLock(id) \/ Expire(id))
               \/ UNCHANGED vars
      BY <1>3, <3>4 DEF Request, PostRun, AcceptRun, LoseRequest, ReplaceFile, WorkerCrash,
         RecoverOrphan, LoseLock, Expire, vars, stores
    <3>. QED BY <1>3, <3>1, <3>2, <3>3, <3>4 DEF Next, Work
  <2>2. PICK data \in Payload, mem \in Memory :
           /\ data = slots[s].data /\ mem = slots[s].mem
           /\ Attempt(data, "link", mem)
    BY <2>1, InHand DEF ImageLink, At
  <2>3. Anchored(data.product, data.image) /\ mem.blob = Media[1][data.image]
    BY <1>1, <2>2 DEF Attempt, FirstVersion, ImageSteps
  <2>4. l = <<data.product, mem.blob>>
    BY <1>3, <2>1, <2>2 DEF ImageLink
  <2>. QED BY <2>3, <2>4, AnchoredImage
<1>. QED BY <1>2, <1>3

LEMMA CachesKnownNext ==
  ASSUME Known, Steady, [Next]_vars  PROVE FirstCaches'
<1>1. ASSUME disk' = 1 PROVE drawings' \in {0, 1} /\ archive' \in {0, 1}
  <2>1. disk = 1 /\ drawings \in {0, 1} /\ archive \in {0, 1}
    BY <1>1 DEF Steady, Known, FirstCaches
  <2>2. ASSUME NEW s \in Slots, SheetKeepDrawings(s) PROVE drawings' = 1 /\ archive' = archive
    BY <1>1, <2>1, <2>2, InHand DEF SheetKeepDrawings, At, Attempt, FirstVersion
  <2>3. ASSUME NEW s \in Slots, ImageKeepArchive(s) PROVE archive' = 1 /\ drawings' = drawings
    BY <1>1, <2>1, <2>3, InHand DEF ImageKeepArchive, At, Attempt, FirstVersion
  <2>4. ASSUME NEW s \in Slots, FileWork(s)  PROVE caches' = caches
    BY <2>4 DEF FileWork, FileStart, FileEnumerate, FileFanOut, caches
  <2>5. ASSUME NEW s \in Slots, SheetWork(s), ~SheetKeepDrawings(s)  PROVE caches' = caches
    BY <2>5 DEF SheetWork, SheetDrawings, SheetRead, SheetRejectRow, SheetUpsert, SheetAlias,
       SheetAddImage, caches
  <2>6. ASSUME NEW s \in Slots, ImageWork(s), ~ImageKeepArchive(s)  PROVE caches' = caches
    BY <2>6 DEF ImageWork, ImageOpen, ImageSkip, ImageBytes, ImageTornRead, Throw, ImageHeadFound,
       ImageHeadAbsent, ImagePut, ImageLink, caches
  <2>7. ASSUME NEW s \in Slots, Take(s) \/ Finish(s) \/ AttemptFails(s) \/ SheetRowFails(s)
        PROVE  caches' = caches
    BY <2>7 DEF Take, Finish, AttemptFails, SheetRowFails, Throw, caches
  <2>8. ASSUME NEW s \in Slots, Work(s) \/ Take(s) \/ AttemptFails(s) \/ SheetRowFails(s)
        PROVE  drawings' \in {0, 1} /\ archive' \in {0, 1}
    BY <2>1, <2>2, <2>3, <2>4, <2>5, <2>6, <2>7, <2>8 DEF Work, caches
  <2>9. CASE (\E r \in Runs : Request(r)) \/ ReplaceFile
             \/ (\E id \in DOMAIN jobs : RecoverOrphan(id) \/ LoseLock(id) \/ Expire(id))
             \/ UNCHANGED vars
    BY <2>1, <2>9 DEF Request, PostRun, AcceptRun, LoseRequest, ReplaceFile, RecoverOrphan,
       LoseLock, Expire, vars, caches
  <2>10. CASE WorkerCrash
    BY <2>10 DEF WorkerCrash
  <2>. QED BY <2>8, <2>9, <2>10 DEF Next
<1>. QED BY <1>1, FirstLinks DEF FirstCaches

-----------------------------------------------------------------------------
LEMMA KnownInit == Init => Known
<1>. SUFFICES ASSUME Init PROVE Known
  OBVIOUS
<1>. QED BY InitInv DEF Init, Known, SlotKnown, FirstCaches, Idle

LEMMA KnownNext == ASSUME Known, [Next]_vars PROVE Known'
<1>1. Steady /\ IInv'
  BY SteadyStep, NextInv DEF Known
<1>. QED BY <1>1, SlotsKnownNext, JobsKnownNext, CachesKnownNext DEF Known

LEMMA AlwaysKnown == Spec => []Known
BY KnownInit, KnownNext, PTL DEF Spec

(***************************************************************************)
(* A sheet job that completed has loaded or counted every row it read: no  *)
(* failed, repeated or overlapping attempt loses one.                      *)
(***************************************************************************)
THEOREM NothingLost == Spec => []NoRowLost
<1>1. Known => NoRowLost
  <2>1. SUFFICES ASSUME Known, NEW id \in DOMAIN jobs, jobs[id].st = "completed",
                        jobs[id].data.queue = "sheet", jobs[id].ret.ver # 0
                 PROVE  Cardinality({i \in DOMAIN Rows[jobs[id].ret.ver][jobs[id].data.sheet] :
                                       ~Loaded(jobs[id].data, jobs[id].ret, i)}) <= jobs[id].ret.failed
    BY DEF NoRowLost
  <2>2. PICK data, ret : data = jobs[id].data /\ ret = jobs[id].ret
    OBVIOUS
  <2>3. AllCounted(data, ret)
    BY <2>1, <2>2 DEF Known, JobKnown, Outcome
  <2>4. DOMAIN Rows[ret.ver][data.sheet] = 1 .. SheetLen(data, ret)
    BY <2>3, LenType DEF AllCounted, SheetLen
  <2>5. {i \in DOMAIN Rows[ret.ver][data.sheet] : ~Loaded(data, ret, i)}
          = Missing(data, ret, SheetLen(data, ret))
    BY <2>4 DEF Missing
  <2>. QED BY <2>2, <2>3, <2>5 DEF AllCounted
<1>. QED BY <1>1, AlwaysKnown, PTL

(***************************************************************************)
(* An image job that completed with bytes in hand has linked its product   *)
(* to them.                                                                *)
(***************************************************************************)
THEOREM ImagesLinked == Spec => []CompletedImageIsLinked
<1>1. Known => CompletedImageIsLinked
  BY DEF Known, JobKnown, Outcome, CompletedImageIsLinked
<1>. QED BY <1>1, AlwaysKnown, PTL

(***************************************************************************)
(* The picture picked for a header lies above it, in the section's own     *)
(* rows and last among its pictures, unless another sheet's anchor lies    *)
(* between the two headers or the section has none.                        *)
(***************************************************************************)
LEMMA PickedIllustrates ==
  ASSUME NEW s \in DOMAIN Rows[1], NEW i \in DOMAIN Rows[1][s],
         NEW image \in PickAnchor(Anchors[1], Rows[1][s][i].header)
  PROVE  \E a \in DOMAIN Anchors[1] : /\ Anchors[1][a].image = image
                                      /\ Illustrates(a, s, Rows[1][s][i].header)
<1>. DEFINE header == Rows[1][s][i].header
<1>1. 1 \in Versions
  BY WorkbookAssumption DEF Versions
<1>2. \A j \in DOMAIN Rows[1][s] : Rows[1][s][j].header \in Nat
  <2>1. Rows[1][s] \in Seq(Row)
    BY <1>1, WorkbookAssumption
  <2>2. \A j \in DOMAIN Rows[1][s] : Rows[1][s][j] \in Row
    BY <2>1
  <2>. QED BY <2>2 DEF Row
<1>3. \A a \in DOMAIN Anchors[1] : Anchors[1][a].row \in Nat
  BY <1>1, AnchorType
<1>4. PICK a \in DOMAIN Anchors[1] :
        /\ image = Anchors[1][a].image /\ Anchors[1][a].row <= header - 1
        /\ \A b \in DOMAIN Anchors[1] : Anchors[1][b].row <= header - 1 =>
             Anchors[1][b].row < Anchors[1][a].row \/ Anchors[1][b].row = Anchors[1][a].row
  BY DEF PickAnchor
<1>5. Anchors[1][a].row < header
  BY <1>2, <1>3, <1>4
<1>6. \A b \in Band(s, header) : Anchors[1][b].row <= Anchors[1][a].row
  BY <1>2, <1>3, <1>4 DEF Band
<1>7. ASSUME Unmixed(s, header) PROVE a \in Band(s, header)
  <2>1. PICK b \in Band(s, header) : TRUE
    BY <1>7 DEF Unmixed
  <2>2. \A j \in DOMAIN Rows[1][s] : Rows[1][s][j].header < header =>
          Rows[1][s][j].header <= Anchors[1][b].row
    BY <2>1 DEF Band
  <2>3. Anchors[1][b].row <= Anchors[1][a].row /\ b \in DOMAIN Anchors[1]
    BY <1>6, <2>1 DEF Band
  <2>. QED BY <1>2, <1>3, <1>5, <2>2, <2>3 DEF Band
<1>. QED BY <1>4, <1>5, <1>6, <1>7 DEF Illustrates

(***************************************************************************)
(* While the workbook was never replaced, a link attaches a picture of a   *)
(* section that lists the product: its own last one when it has one and no *)
(* other sheet has one between its header and the header above.            *)
(***************************************************************************)
THEOREM PicturesAnchored == Spec => []LinkIsAnchored
<1>1. Known => LinkIsAnchored
  <2>1. SUFFICES ASSUME Known, disk = 1, NEW l \in links
                 PROVE  \E s \in DOMAIN Rows[1] : \E i \in DOMAIN Rows[1][s] :
                          /\ Rows[1][s][i].part = l[1][1]
                          /\ \E a \in DOMAIN Anchors[1] :
                               /\ Media[1][Anchors[1][a].image] = l[2]
                               /\ Illustrates(a, s, Rows[1][s][i].header)
    BY DEF LinkIsAnchored
  <2>2. PICK image \in Images : Anchored(l[1], image) /\ Media[1][image] = l[2]
    BY <2>1 DEF Known, FirstCaches
  <2>3. PICK s \in DOMAIN Rows[1] : \E i \in DOMAIN Rows[1][s] :
          /\ Rows[1][s][i].part = l[1][1]
          /\ image \in PickAnchor(Anchors[1], Rows[1][s][i].header)
    BY <2>2 DEF Anchored
  <2>4. PICK i \in DOMAIN Rows[1][s] :
          /\ Rows[1][s][i].part = l[1][1]
          /\ image \in PickAnchor(Anchors[1], Rows[1][s][i].header)
    BY <2>3
  <2>. QED BY <2>2, <2>4, PickedIllustrates
<1>. QED BY <1>1, AlwaysKnown, PTL
=============================================================================
