--------------------------- MODULE IngestPipeline ---------------------------
(***************************************************************************)
(* Batch ingestion in track-a-jd-native: POST /runs records a run and      *)
(* queues a parse-file job, which fans out one parse-sheet job per sheet,  *)
(* which upserts the sheet's rows and queues one upload-image job per      *)
(* illustrated product.  One worker process runs all the slots; PostgreSQL,*)
(* Redis (the job table) and R2 survive its crashes, its caches do not.    *)
(*                                                                         *)
(* A workbook lives at one path and its dealer may overwrite it there      *)
(* (`disk' is the version on disk).  The content of each version is given  *)
(* by constants: rows with their section's header row, the drawing         *)
(* anchors of each sheet, and the bytes of each embedded picture.          *)
(***************************************************************************)
EXTENDS JobQueue, Integers, Sequences, FiniteSets

CONSTANTS
  Runs,        \* ids of the rows of ingest_runs
  Dealers,     \* tenants; a request without x-dealer-id carries None
  Parts,       \* part_number_norm values
  Sheets,      \* sheet names
  Images,      \* file names under xl/media/
  Blobs,       \* picture contents, which is what the R2 key is derived from
  FileSlots, SheetSlots, ImageSlots, \* concurrency of the three workers
  MaxVersion,  \* bound: how often the dealer saves the file, plus one
  MaxFaults,   \* bound on crashes, failed calls and lost locks together
  MaxExpired,  \* bound on the jobs that Redis forgets
  Rows,        \* version -> sheet -> sequence of rows
  Anchors,     \* version -> sequence of the drawing anchors of all its sheets
  Media        \* version -> image -> blob, None if the zip has no such entry

Versions == 1 .. MaxVersion
Products == Parts \X Dealers          \* UNIQUE (part_number_norm, source_dealer_id)
Slots    == FileSlots \cup SheetSlots \cup ImageSlots

Row    == [part : Parts \cup {None},  \* None: normaliseRow rejects the row
           alias : BOOLEAN,           \* the row has an OLD PART NUMBER
           header : Nat \ {0}]        \* headerRowIndex of its section, from 1
Anchor == [sheet : Sheets, row : Nat, image : Images]  \* row counts from 0

(***************************************************************************)
(* The constants describe workbooks: a version has some of the sheets, a   *)
(* picture for each image or none, and slots of the three workers differ.  *)
(***************************************************************************)
ASSUME WorkbookAssumption ==
  /\ MaxVersion \in Nat \ {0}
  /\ MaxFaults \in Nat /\ MaxExpired \in Nat
  /\ DOMAIN Rows = Versions
  /\ \A v \in Versions : /\ DOMAIN Rows[v] \subseteq Sheets
                         /\ \A s \in DOMAIN Rows[v] : Rows[v][s] \in Seq(Row)
  /\ DOMAIN Anchors = Versions
  /\ \A v \in Versions : Anchors[v] \in Seq(Anchor)
  /\ Media \in [Versions -> [Images -> Blobs \cup {None}]]

ASSUME NameAssumption ==
  /\ None \notin Runs \cup Dealers \cup Parts \cup Sheets \cup Images \cup Blobs
  /\ None \notin Products \cup Slots
  /\ FileSlots \cap SheetSlots = {}
  /\ FileSlots \cap ImageSlots = {}
  /\ SheetSlots \cap ImageSlots = {}

VARIABLES
  disk,       \* version of the workbook now at the path
  runs,       \* ingest_runs, and how far the POST /runs request got
  jobs,       \* the BullMQ job table (all three queues)
  slots,      \* what each worker slot is executing
  drawings,   \* parse-sheet's drawingsCache: version parsed, 0 if empty
  archive,    \* upload-image's archives: version whose directory is open, or 0
  products,   \* products: version the row was read from, run's source_sha256
  aliases,    \* part_number_aliases
  r2,         \* objects in the bucket
  links,      \* product_images
  expired,    \* payloads of the jobs that were removed (history)
  faults      \* faults spent so far

stores == <<products, aliases, r2, links>>
caches == <<drawings, archive>>
vars   == <<disk, runs, jobs, slots, drawings, archive,
            products, aliases, r2, links, expired, faults>>

-----------------------------------------------------------------------------
(* Job ids and payloads.  A payload has all the fields; an id names a job.  *)

Payload == [queue : {"file", "sheet", "image"}, run : Runs,
            sheet : Sheets \cup {None}, image : Images \cup {None},
            product : Products \cup {None}]

FileJob(r)        == [queue |-> "file", run |-> r, sheet |-> None,
                      image |-> None, product |-> None]
SheetJob(r, s)    == [FileJob(r) EXCEPT !.queue = "sheet", !.sheet = s]
ImageJob(r, i, p) == [FileJob(r) EXCEPT !.queue = "image", !.image = i,
                                        !.product = p]

(* jobId: run.runId *)
FileJobId(data) == FileJob(data.run)

(* jobId: `${runId}:${sheetName}` *)
SheetJobId(data) == SheetJob(data.run, data.sheet)

(* Mutant: the product is left out of the id. *)
ImageJobIdPerRun(data) == ImageJob(data.run, data.image, None)

(* jobId: `${runId}:${imageFile}:${productId}` *)
ImageJobId(data) == ImageJob(data.run, data.image, data.product)

(***************************************************************************)
(* A slot: the step its processor awaits, the job, and the processor's     *)
(* locals: version being read, drawings index in hand, row position,       *)
(* rowsFailed, and the bytes to upload.                                    *)
(***************************************************************************)
FileSteps  == {"start", "enumerate", "fanout"}
SheetSteps == {"drawings", "keepDrawings", "read", "row", "alias", "image"}
ImageSteps == {"open", "keepArchive", "bytes", "head", "put", "link"}

Memory == [ver : 0 .. MaxVersion, draw : 0 .. MaxVersion, pos : Nat,
           failed : Nat, blob : Blobs \cup {None}]

SlotState ==
  [step : {"idle", "done"} \cup FileSteps \cup SheetSteps \cup ImageSteps,
   job : Payload \cup {None}, data : Payload \cup {None}, mem : Memory]

Blank == [ver |-> 0, draw |-> 0, pos |-> 0, failed |-> 0, blob |-> None]
Idle  == [step |-> "idle", job |-> None, data |-> None, mem |-> Blank]

QueueOf(s) == IF s \in FileSlots THEN "file"
              ELSE IF s \in SheetSlots THEN "sheet" ELSE "image"

FirstStep(queue) == CASE queue = "file"  -> "start"
                      [] queue = "sheet" -> "drawings"
                      [] queue = "image" -> "open"

At(s, step) == slots[s].step = step

(* Slot s moves on to `step' with memory `mem'. *)
Goto(s, step, mem) ==
  slots' = [slots EXCEPT ![s] = [@ EXCEPT !.step = step, !.mem = mem]]

RunOf(s)     == slots[s].data.run
DealerOf(s)  == runs[RunOf(s)].dealer

-----------------------------------------------------------------------------
Init ==
  /\ disk = 1
  /\ runs = [r \in Runs |-> [status |-> "none", dealer |-> None, sha |-> 0,
                             request |-> "none"]]
  /\ jobs = [i \in {} |-> Fresh(i)]
  /\ slots = [s \in Slots |-> Idle]
  /\ drawings = 0 /\ archive = 0
  /\ products = [p \in Products |-> [ver |-> 0, sha |-> 0]]
  /\ aliases = {} /\ r2 = {} /\ links = {}
  /\ expired = {} /\ faults = 0

-----------------------------------------------------------------------------
(* The API process. *)

(* createRun: the row is committed before anything is queued.  The caller  *)
(* computed the hash of the file it uploaded; the dealer may be missing.   *)
PostRun(r, d) ==
  /\ runs[r].request = "none"
  /\ runs' = [runs EXCEPT ![r] = [status |-> "QUEUED", dealer |-> d,
                                  sha |-> disk, request |-> "recorded"]]
  /\ UNCHANGED <<disk, jobs, slots, caches, stores, expired, faults>>

(* parseFileQueue.add, then 202. *)
AcceptRun(r) ==
  /\ runs[r].request = "recorded"
  /\ runs' = [runs EXCEPT ![r].request = "accepted"]
  /\ jobs' = Add(jobs, FileJobId(FileJob(r)), FileJob(r))
  /\ UNCHANGED <<disk, slots, caches, stores, expired, faults>>

(* The API dies or Redis refuses between the insert and the add. *)
LoseRequest(r) ==
  /\ faults < MaxFaults
  /\ runs[r].request = "recorded"
  /\ runs' = [runs EXCEPT ![r].request = "lost"]
  /\ faults' = faults + 1
  /\ UNCHANGED <<disk, jobs, slots, caches, stores, expired>>

(* The dealer saves a new version of the workbook over the old one. *)
ReplaceFile ==
  /\ disk < MaxVersion
  /\ disk' = disk + 1
  /\ UNCHANGED <<runs, jobs, slots, caches, stores, expired, faults>>

-----------------------------------------------------------------------------
(* What the three workers have in common: taking a job and ending it.       *)

Take(s) ==
  /\ At(s, "idle")
  /\ \E id \in DOMAIN jobs :
       /\ Waiting(jobs, id)
       /\ jobs[id].data.queue = QueueOf(s)
       /\ jobs' = Claim(jobs, id, s)
       /\ slots' = [slots EXCEPT ![s] =
            [step |-> FirstStep(QueueOf(s)), job |-> id,
             data |-> jobs[id].data, mem |-> Blank]]
  /\ UNCHANGED <<disk, runs, caches, stores, expired, faults>>

(* Mutant: a slot that lost its lock is not given back. *)
FinishOnlyAsHolder(s) ==
  /\ At(s, "done") /\ Holds(jobs, slots[s].job, s)
  /\ jobs' = Complete(jobs, slots[s].job, s, slots[s].mem)
  /\ slots' = [slots EXCEPT ![s] = Idle]
  /\ UNCHANGED <<disk, runs, caches, stores, expired, faults>>

(* The processor returned its counters. *)
Finish(s) ==
  /\ At(s, "done")
  /\ jobs' = Complete(jobs, slots[s].job, s, slots[s].mem)
  /\ slots' = [slots EXCEPT ![s] = Idle]
  /\ UNCHANGED <<disk, runs, caches, stores, expired, faults>>

(* An awaited call of the processor threw and nothing catches it. *)
Throw(s) ==
  /\ jobs' = FailAttempt(jobs, slots[s].job, s)
  /\ slots' = [slots EXCEPT ![s] = Idle]
  /\ UNCHANGED <<disk, runs, caches, stores, expired>>

(* PostgreSQL, Redis, R2 or the disk refuses a call outside the try block  *)
(* of the row loop.                                                        *)
AttemptFails(s) ==
  /\ faults < MaxFaults
  /\ slots[s].step \notin {"idle", "done", "row", "alias", "image"}
  /\ Throw(s)
  /\ faults' = faults + 1

(* The process exits (SIGTERM does not wait for the workers): slots and     *)
(* caches are gone, the jobs they ran stay active under their old locks.    *)
WorkerCrash ==
  /\ faults < MaxFaults
  /\ slots' = [s \in Slots |-> Idle]
  /\ drawings' = 0 /\ archive' = 0
  /\ faults' = faults + 1
  /\ UNCHANGED <<disk, runs, jobs, stores, expired>>

Running(id) == \E s \in Slots : Holds(jobs, id, s) /\ slots[s].job = id

(* The lock of a job nobody runs any more expires. *)
RecoverOrphan(id) ==
  /\ id \in DOMAIN jobs
  /\ jobs[id].st = "active" /\ ~Running(id)
  /\ jobs' = Stall(jobs, id)
  /\ UNCHANGED <<disk, runs, slots, caches, stores, expired, faults>>

(* The event loop is blocked past the lock duration: the job is taken away  *)
(* while its slot goes on executing it.                                     *)
LoseLock(id) ==
  /\ faults < MaxFaults
  /\ id \in DOMAIN jobs
  /\ jobs[id].st = "active" /\ Running(id)
  /\ jobs' = Stall(jobs, id)
  /\ faults' = faults + 1
  /\ UNCHANGED <<disk, runs, slots, caches, stores, expired>>

(* Redis forgets a job that has settled; a sheet job that is run again adds *)
(* the image jobs it added before, and those forgotten run again, too.      *)
Expire(id) ==
  /\ id \in DOMAIN jobs /\ Settled(jobs[id])
  /\ Cardinality(expired \cup {jobs[id].data}) <= MaxExpired
  /\ jobs' = Remove(jobs, id)
  /\ expired' = expired \cup {jobs[id].data}
  /\ UNCHANGED <<disk, runs, slots, caches, stores, faults>>

-----------------------------------------------------------------------------
(* parse-file worker (concurrency 1).                                       *)

FileStart(s) ==
  /\ At(s, "start")
  /\ runs' = [runs EXCEPT ![RunOf(s)].status = "RUNNING"]
  /\ Goto(s, "enumerate", slots[s].mem)
  /\ UNCHANGED <<disk, jobs, caches, stores, expired, faults>>

FileEnumerate(s) ==
  /\ At(s, "enumerate")
  /\ Goto(s, "fanout", [slots[s].mem EXCEPT !.ver = disk])
  /\ UNCHANGED <<disk, runs, jobs, caches, stores, expired, faults>>

FanOut(r, v) ==
  LET payloads == {SheetJob(r, sh) : sh \in DOMAIN Rows[v]}
  IN  [i \in {SheetJobId(d) : d \in payloads} |->
         CHOOSE d \in payloads : SheetJobId(d) = i]

FileFanOut(s) ==
  /\ At(s, "fanout")
  /\ jobs' = AddBulk(jobs, FanOut(RunOf(s), slots[s].mem.ver))
  /\ Goto(s, "done", slots[s].mem)
  /\ UNCHANGED <<disk, runs, caches, stores, expired, faults>>

-----------------------------------------------------------------------------
(* parse-sheet worker.                                                      *)

(* drawingsCache.get, else parseAllDrawings. *)
SheetDrawings(s) ==
  /\ At(s, "drawings")
  /\ IF drawings # 0
     THEN Goto(s, "read", [slots[s].mem EXCEPT !.draw = drawings])
     ELSE Goto(s, "keepDrawings", [slots[s].mem EXCEPT !.draw = disk])
  /\ UNCHANGED <<disk, runs, jobs, caches, stores, expired, faults>>

SheetKeepDrawings(s) ==
  /\ At(s, "keepDrawings")
  /\ drawings' = slots[s].mem.draw
  /\ Goto(s, "read", slots[s].mem)
  /\ UNCHANGED <<disk, runs, jobs, archive, stores, expired, faults>>

SheetOf(s) == slots[s].data.sheet
RowAt(s)   == Rows[slots[s].mem.ver][SheetOf(s)][slots[s].mem.pos]
ProductAt(s) == <<RowAt(s).part, DealerOf(s)>>

(* On to the next row of the sheet, or the counters are returned. *)
NextRow(s, mem) ==
  IF mem.pos < Len(Rows[mem.ver][SheetOf(s)])
  THEN Goto(s, "row", [mem EXCEPT !.pos = @ + 1])
  ELSE Goto(s, "done", mem)

(* streamWorkbook with a sheet filter: all rows are collected before the   *)
(* first is written.  A sheet that is gone is not an error.                *)
SheetRead(s) ==
  /\ At(s, "read")
  /\ LET mem == slots[s].mem IN
     IF SheetOf(s) \in DOMAIN Rows[disk]
     THEN NextRow(s, [mem EXCEPT !.ver = disk])
     ELSE Goto(s, "done", mem)
  /\ UNCHANGED <<disk, runs, jobs, caches, stores, expired, faults>>

(* Mutant: headerRowIndex is taken for 0-based. *)
PickAnchorUnconverted(anchors, headerRowIndex) ==
  LET above == {i \in DOMAIN anchors : anchors[i].row <= headerRowIndex}
  IN  {anchors[i].image : i \in {i \in above : \A j \in above :
         \/ anchors[j].row < anchors[i].row
         \/ anchors[j].row = anchors[i].row /\ i <= j}}

(***************************************************************************)
(* pickAnchorForSection over pickAnchorsForSheet: the nearest anchor at or *)
(* above the header among the anchors of every sheet, the first of equals. *)
(* The set holds the one picture found, or nothing.                        *)
(***************************************************************************)
PickAnchor(anchors, headerRowIndex) ==
  LET headerRow0 == headerRowIndex - 1
      above == {i \in DOMAIN anchors : anchors[i].row <= headerRow0}
  IN  {anchors[i].image : i \in {i \in above : \A j \in above :
         \/ anchors[j].row < anchors[i].row
         \/ anchors[j].row = anchors[i].row /\ i <= j}}

(* Mutant: the catch block forgets rowsFailed++. *)
SkipRowUncounted(s) == NextRow(s, slots[s].mem)

(* rowsFailed++ for the row in hand. *)
SkipRow(s) == NextRow(s, [slots[s].mem EXCEPT !.failed = @ + 1])

(* Mutant: source_dealer_id is nullable. *)
RejectedByParser(s) == RowAt(s).part = None

(* normaliseRow rejects the row, or source_dealer_id is NOT NULL. *)
Rejected(s) == RowAt(s).part = None \/ DealerOf(s) = None

SheetRejectRow(s) ==
  /\ At(s, "row")
  /\ Rejected(s)
  /\ SkipRow(s)
  /\ UNCHANGED <<disk, runs, jobs, caches, stores, expired, faults>>

AnchorAt(s) == PickAnchor(Anchors[slots[s].mem.draw], RowAt(s).header)

(* The product is written: queue its picture if its section has one. *)
Illustrate(s) == IF AnchorAt(s) # {} THEN Goto(s, "image", slots[s].mem)
                 ELSE NextRow(s, slots[s].mem)

(* INSERT INTO products ... ON CONFLICT DO UPDATE. *)
SheetUpsert(s) ==
  /\ At(s, "row")
  /\ ~Rejected(s)
  /\ products' = [products EXCEPT ![ProductAt(s)] =
                    [ver |-> slots[s].mem.ver, sha |-> runs[RunOf(s)].sha]]
  /\ IF RowAt(s).alias THEN Goto(s, "alias", slots[s].mem) ELSE Illustrate(s)
  /\ UNCHANGED <<disk, runs, jobs, caches, aliases, r2, links, expired, faults>>

(* The OLD PART NUMBER, in a statement of its own. *)
SheetAlias(s) ==
  /\ At(s, "alias")
  /\ aliases' = aliases \cup {ProductAt(s)}
  /\ Illustrate(s)
  /\ UNCHANGED <<disk, runs, jobs, caches, products, r2, links, expired, faults>>

SheetAddImage(s) ==
  /\ At(s, "image")
  /\ \E image \in AnchorAt(s) :
       LET data == ImageJob(RunOf(s), image, ProductAt(s))
       IN  jobs' = Add(jobs, ImageJobId(data), data)
  /\ NextRow(s, slots[s].mem)
  /\ UNCHANGED <<disk, runs, caches, stores, expired, faults>>

(* One of the three awaited calls of a row throws: caught and counted. *)
SheetRowFails(s) ==
  /\ faults < MaxFaults
  /\ slots[s].step \in {"row", "alias", "image"}
  /\ RowAt(s).part # None
  /\ SkipRow(s)
  /\ faults' = faults + 1
  /\ UNCHANGED <<disk, runs, jobs, caches, stores, expired>>

-----------------------------------------------------------------------------
(* upload-image worker.                                                     *)

ImageOpen(s) ==
  /\ At(s, "open")
  /\ IF archive # 0
     THEN Goto(s, "bytes", [slots[s].mem EXCEPT !.ver = archive])
     ELSE Goto(s, "keepArchive", [slots[s].mem EXCEPT !.ver = disk])
  /\ UNCHANGED <<disk, runs, jobs, caches, stores, expired, faults>>

ImageKeepArchive(s) ==
  /\ At(s, "keepArchive")
  /\ archive' = slots[s].mem.ver
  /\ Goto(s, "bytes", slots[s].mem)
  /\ UNCHANGED <<disk, runs, jobs, drawings, stores, expired, faults>>

MediaAt(s) == Media[slots[s].mem.ver][slots[s].data.image]

(* The entry is looked up in the directory that was opened. *)
ImageSkip(s) ==
  /\ At(s, "bytes")
  /\ MediaAt(s) = None
  /\ Goto(s, "done", slots[s].mem)
  /\ UNCHANGED <<disk, runs, jobs, caches, stores, expired, faults>>

(* ... and its bytes are read at the offset the directory says.  If the    *)
(* file was replaced since, the bytes are those read before, or whatever   *)
(* lies there now, or the read throws.                                     *)
ImageBytes(s) ==
  /\ At(s, "bytes")
  /\ MediaAt(s) # None
  /\ \E b \in Blobs :
       /\ slots[s].mem.ver = disk => b = MediaAt(s)
       /\ Goto(s, "head", [slots[s].mem EXCEPT !.blob = b])
  /\ UNCHANGED <<disk, runs, jobs, caches, stores, expired, faults>>

ImageTornRead(s) ==
  /\ At(s, "bytes")
  /\ MediaAt(s) # None /\ slots[s].mem.ver # disk
  /\ Throw(s)
  /\ UNCHANGED faults

(* Mutant: an object that exists is taken to be linked already. *)
ImageHeadFoundIsDone(s) ==
  /\ At(s, "head")
  /\ slots[s].mem.blob \in r2
  /\ Goto(s, "done", slots[s].mem)
  /\ UNCHANGED <<disk, runs, jobs, caches, stores, expired, faults>>

(* objectExists: 200 skips the PUT. *)
ImageHeadFound(s) ==
  /\ At(s, "head")
  /\ slots[s].mem.blob \in r2
  /\ Goto(s, "link", slots[s].mem)
  /\ UNCHANGED <<disk, runs, jobs, caches, stores, expired, faults>>

(* Mutant: a 403 counts as an object that is there. *)
ImageHeadForbiddenIsFound(s) ==
  /\ At(s, "head")
  /\ Goto(s, "link", slots[s].mem)
  /\ UNCHANGED <<disk, runs, jobs, caches, stores, expired, faults>>

(* 404, or 403 whether the object is there or not. *)
ImageHeadAbsent(s) ==
  /\ At(s, "head")
  /\ Goto(s, "put", slots[s].mem)
  /\ UNCHANGED <<disk, runs, jobs, caches, stores, expired, faults>>

(* Mutant: upload.done() is not awaited. *)
ImagePutNotAwaited(s) ==
  /\ At(s, "put")
  /\ Goto(s, "link", slots[s].mem)
  /\ UNCHANGED <<disk, runs, jobs, caches, stores, expired, faults>>

ImagePut(s) ==
  /\ At(s, "put")
  /\ r2' = r2 \cup {slots[s].mem.blob}
  /\ Goto(s, "link", slots[s].mem)
  /\ UNCHANGED <<disk, runs, jobs, caches, products, aliases, links, expired, faults>>

(* INSERT INTO product_images ... ON CONFLICT DO NOTHING. *)
ImageLink(s) ==
  /\ At(s, "link")
  /\ links' = links \cup {<<slots[s].data.product, slots[s].mem.blob>>}
  /\ Goto(s, "done", slots[s].mem)
  /\ UNCHANGED <<disk, runs, jobs, caches, products, aliases, r2, expired, faults>>

-----------------------------------------------------------------------------
Request(r) == \/ \E d \in Dealers \cup {None} : PostRun(r, d)
              \/ AcceptRun(r)
              \/ LoseRequest(r)

FileWork(s)  == FileStart(s) \/ FileEnumerate(s) \/ FileFanOut(s)

SheetWork(s) == \/ SheetDrawings(s) \/ SheetKeepDrawings(s) \/ SheetRead(s)
                \/ SheetRejectRow(s) \/ SheetUpsert(s) \/ SheetAlias(s)
                \/ SheetAddImage(s)

ImageWork(s) == \/ ImageOpen(s) \/ ImageKeepArchive(s)
                \/ ImageSkip(s) \/ ImageBytes(s) \/ ImageTornRead(s)
                \/ ImageHeadFound(s) \/ ImageHeadAbsent(s)
                \/ ImagePut(s) \/ ImageLink(s)

(* Whatever an awaited call that answers makes the slot do next. *)
Work(s) == FileWork(s) \/ SheetWork(s) \/ ImageWork(s) \/ Finish(s)

Next == \/ \E r \in Runs : Request(r)
        \/ ReplaceFile
        \/ \E s \in Slots : \/ Take(s) \/ Work(s)
                            \/ AttemptFails(s) \/ SheetRowFails(s)
        \/ WorkerCrash
        \/ \E id \in DOMAIN jobs : RecoverOrphan(id) \/ LoseLock(id) \/ Expire(id)

Spec == Init /\ [][Next]_vars

(***************************************************************************)
(* The API answers, idle slots poll their queue, awaited calls come back,  *)
(* and the stalled-job check runs.  Nothing makes a dealer post a run, a   *)
(* fault happen, the process crash or Redis forget a job.                  *)
(***************************************************************************)
Fairness == /\ \A r \in Runs : WF_vars(AcceptRun(r) \/ LoseRequest(r))
            /\ \A s \in Slots : WF_vars(Take(s)) /\ WF_vars(Work(s))
            /\ WF_vars(\E id \in DOMAIN jobs : RecoverOrphan(id))

LiveSpec == Spec /\ Fairness
-----------------------------------------------------------------------------
(* Properties.                                                              *)

Job == [st : JobStates, tries : Nat, stalls : Nat, owner : Slots \cup {None},
        ret : Memory \cup {None}, data : Payload]

Run == [status : {"none", "QUEUED", "RUNNING"}, dealer : Dealers \cup {None},
        sha : 0 .. MaxVersion,
        request : {"none", "recorded", "accepted", "lost"}]

(* Every variable keeps its type; job ids are payloads, links join a        *)
(* product and a blob.                                                      *)
TypeOK ==
  /\ disk \in Versions
  /\ runs \in [Runs -> Run]
  /\ DOMAIN jobs \subseteq Payload
  /\ jobs \in [DOMAIN jobs -> Job]
  /\ slots \in [Slots -> SlotState]
  /\ drawings \in 0 .. MaxVersion
  /\ archive \in 0 .. MaxVersion
  /\ products \in [Products -> [ver : 0 .. MaxVersion, sha : 0 .. MaxVersion]]
  /\ aliases \subseteq Products
  /\ r2 \subseteq Blobs
  /\ links \subseteq Products \X Blobs
  /\ expired \subseteq Payload
  /\ faults \in 0 .. MaxFaults

Catalogued == {p \in Products : products[p].ver # 0}

(* product_images never points at an object the bucket lacks or at a        *)
(* product that is not there, whatever crashed, was retried or ran twice    *)
(* (upload-image puts before it links; parse-sheet queues after upserting). *)
LinkedIsStored ==
  \A l \in links : l[1] \in Catalogued /\ l[2] \in r2

(* Everything that was ever added to a queue. *)
Queued == {jobs[id].data : id \in DOMAIN jobs} \cup expired

(* Row i of what a sheet job read has been dealt with: product and alias    *)
(* are there, and its image job was queued.                                 *)
Loaded(data, mem, i) ==
  LET row     == Rows[mem.ver][data.sheet][i]
      product == <<row.part, runs[data.run].dealer>>
      images  == PickAnchor(Anchors[mem.draw], row.header)
  IN  /\ row.part # None
      /\ product \in Catalogued
      /\ row.alias => product \in aliases
      /\ \A image \in images : ImageJob(data.run, image, product) \in Queued

(* A parse-sheet job that completed has lost no row: each row it read is    *)
(* loaded with its alias and its picture queued, or was counted in the      *)
(* rowsFailed it returned, whatever attempts failed or overlapped before    *)
(* (parse-sheet.worker.ts:80-131).                                          *)
NoRowLost ==
  \A id \in DOMAIN jobs :
    LET job == jobs[id] IN
    job.st = "completed" /\ job.data.queue = "sheet" /\ job.ret.ver # 0 =>
      Cardinality({i \in DOMAIN Rows[job.ret.ver][job.data.sheet] :
                     ~Loaded(job.data, job.ret, i)}) <= job.ret.failed

(* An upload-image job that completed without skipping has linked its       *)
(* product to the bytes it read, also when HEAD found them already stored.  *)
CompletedImageIsLinked ==
  \A id \in DOMAIN jobs :
    LET job == jobs[id] IN
    job.st = "completed" /\ job.data.queue = "image" /\ job.ret.blob # None =>
      <<job.data.product, job.ret.blob>> \in links

(* The anchors, of whatever sheet, in the rows of the first version that    *)
(* belong to a section of sheet s: below the header above, above its own.   *)
Band(s, header) ==
  {a \in DOMAIN Anchors[1] :
     /\ Anchors[1][a].row < header
     /\ \A i \in DOMAIN Rows[1][s] :
          Rows[1][s][i].header < header =>
            Rows[1][s][i].header <= Anchors[1][a].row}

(* A section with a picture, where no other sheet has one in its rows. *)
Unmixed(s, header) ==
  /\ Band(s, header) # {}
  /\ \A a \in Band(s, header) : Anchors[1][a].sheet = s

(* Anchor a may illustrate the section: it is anchored above the header,    *)
(* and where the pictures do not mix it is the last one of the section.     *)
Illustrates(a, s, header) ==
  /\ Anchors[1][a].row < header
  /\ Unmixed(s, header) =>
       /\ a \in Band(s, header)
       /\ \A b \in Band(s, header) : Anchors[1][b].row <= Anchors[1][a].row

(* While the workbook was never replaced, a product has only pictures of a  *)
(* section that lists it.  With pictures of its own and no anchor of        *)
(* another sheet between the two headers, the section's own last one is     *)
(* linked, never a neighbour's; otherwise some picture anchored above the   *)
(* header (parse-sheet.worker.ts:170-203).  No cache, retry, overlapping    *)
(* attempt or expired job id ever attaches another one.                     *)
LinkIsAnchored ==
  disk = 1 =>
    \A l \in links : \E s \in DOMAIN Rows[1] : \E i \in DOMAIN Rows[1][s] :
      /\ Rows[1][s][i].part = l[1][1]
      /\ \E a \in DOMAIN Anchors[1] :
           /\ Media[1][Anchors[1][a].image] = l[2]
           /\ Illustrates(a, s, Rows[1][s][i].header)

(* drawing-parser.ts:9-12: `the schematic image for a section is anchored   *)
(* to the row just before that section's header', and mapping one to the    *)
(* other is the difference to `random images anchored to the wrong parts':  *)
(* a picture is anchored on the sheet and in the rows of a section that     *)
(* lists its product.                                                       *)
SectionPictureIsOwn ==
  disk = 1 =>
    \A l \in links : \E s \in DOMAIN Rows[1] : \E i \in DOMAIN Rows[1][s] :
      /\ Rows[1][s][i].part = l[1][1]
      /\ \E a \in Band(s, Rows[1][s][i].header) :
           /\ Anchors[1][a].sheet = s
           /\ Media[1][Anchors[1][a].image] = l[2]

(* The three stores implement the catalogue promised to readers.            *)
Catalog == INSTANCE Catalogue WITH
             Product <- Products, Blob <- Blobs,
             catalogued <- Catalogued, stored <- r2, linked <- links

CatalogueSpec == Catalog!Spec

(* Every accepted run's jobs settle for good: nothing stays active under a  *)
(* dead lock, waits for ever, or is retried for ever.                       *)
AllSettled(r) ==
  \A id \in DOMAIN jobs : jobs[id].data.run = r => Settled(jobs[id])

AcceptedRunsSettle ==
  \A r \in Runs : runs[r].request = "accepted" ~> []AllSettled(r)

(* runs.repo.ts:4-6: `UPDATE on status transitions, finalise on             *)
(* completion': an accepted run reaches a final status.                     *)
RunFinalised ==
  \A r \in Runs : runs[r].request = "accepted" ~>
                     runs[r].status \notin {"none", "QUEUED", "RUNNING"}

(* docs/TRACK_A.md:1185: every row carries source_file_sha256, which with   *)
(* ingest_runs gives `full row-to-run lineage': the hash a product carries  *)
(* is the hash of the file its values were read from.                       *)
LineageHolds ==
  \A p \in Products : products[p].ver = products[p].sha
=============================================================================
