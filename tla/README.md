# Formal model of inventoryflow-catalog-ingest

TLA+ modules, TLC configurations and TLAPS proofs for the two ingestion tracks of
this repository. Track A (`src/track-a-jd-native`, TypeScript: Fastify, BullMQ on
Redis, PostgreSQL, R2) turns a dealer's workbook into catalogue rows and pictures;
Track B (`src/track-b-data-engineering`, Python: Dagster, Iceberg) does the same
over medallion tables and adds vision enrichment; `src/shared/vision-mlx` reads the
pictures on a machine of one's own. Paths below are relative to
`src/track-a-jd-native/` (A), `src/track-b-data-engineering/` (B) or
`src/shared/vision-mlx/` (M).

## 1. Inventory

| part | state it keeps | operations | talks to |
|---|---|---|---|
| runs API (A `src/api/routes/runs.routes.ts`, `runs.repo.ts`) | rows of `ingest_runs` | `POST /runs`: insert the row, add the parse-file job | PostgreSQL, parse-file queue |
| job queues (A `src/queue/queues.ts`; BullMQ) | job table in Redis: state, attempts, lock, stalled count | add, addBulk, take, complete, fail, stalled check, removal after 24 h / 7 d | all workers |
| parse-file worker | — | status RUNNING, enumerate sheets, add one job per sheet | file, PostgreSQL, parse-sheet queue |
| parse-sheet worker | `drawingsCache` per process | read drawings, read sheet, per row: upsert, alias, add image job | file, PostgreSQL, upload-image queue |
| upload-image worker, R2 uploader | `archives` per process, objects in R2 | open zip, read bytes, HEAD, PUT, link | file, R2, PostgreSQL |
| worker process (A `workers/main.ts`) | the slots of all workers | start, SIGTERM, crash | Redis |
| events API, stream-inventory worker | `stream_events`, `stream_outbox`, `products.data_quality`, NOTIFY | post, enqueue, update / mark / notify | PostgreSQL, stream queues |
| dispatch loop (A `src/cli/dispatch-loop.ts`) | `dealer_pattern_bindings.last_run_*`, SKIPPED rows | load bindings, evaluate, hash, add job, record | PostgreSQL, file, parse-file queue |
| vision chain (B `dagster_project/ai/`) | quota counters and file, cache index and JSONL | cached lookup, tiers in order, count, save | vision services |
| vision providers, batch script (B `ai/*_vision.py`, `scripts/vision_extract_all.py`) | `_last_fire` under a lock, a semaphore, the cache, the results file | gather, pace, POST, back off, cache, write | vision services, files |
| ingest CLI (A `src/cli/ingest.ts`) | counters of one run | the whole ingest in sequence, `finaliseRun` | PostgreSQL, R2 |
| enrichment (A `src/cli/enrich.ts`, `src/ai/`; B `dagster_project/cli/enrich.py`, `ai/cached.py`) | cache JSONL, handoff task and result files, `products.name_en` | read candidates, ask, record the audit, write back | PostgreSQL, files |
| parsers: sections, rows, fitment (A `src/ingest/`, B `parser/`), parity check | none (pure), a CSV or upserts | rows to sections to products, first or last of a part | — |
| medallion assets (B `assets.py`, `asset_checks.py`, `scripts/materialize_all.py`, `iceberg_roundtrip.py`) | Iceberg tables bronze, silver, callouts, gold | load, overwrite, drop and create, check | Iceberg REST catalog |
| MLX batch (M) | JSONL files of four phases, `image_callouts` | slice, resume, refine, merge, grade, integrate | files, PostgreSQL |
| registry CLIs, row level security, remaining LLM providers, streaming demo | static tables or external services | one-shot statements, DDL, HTTP calls | PostgreSQL, services |

What is hard in it, and what makes each part correct:

* **Ingest pipeline.** Three queues fan out from one request; every job may run
  twice (retry, stalled lock), two of them at once, and the process may die
  between any two awaits. Rows must not get lost, a link must not dangle, a section must
  get its own picture, an accepted run must settle. The two per-process caches
  outlive the file they were read from, and Redis forgets jobs after a while.
* **Streaming.** Commit and enqueue are two steps, the worker's three statements
  are not a transaction, attempts overlap. A listener must hear only of what is
  recorded; an accepted event must not stay PENDING; a level must come from an event
  about that part.
* **Dispatch.** Loops started by cron overlap, decide on a snapshot, and record a
  hash that nothing ties to what the job later reads. No change may be lost, nothing
  loaded twice, and a run that a freshness SLA calls for must take place.
* **Vision chain.** The quota is checked before an await and counted after it, all
  requests of an asset are gathered, files are rewritten in place. The overshoot
  must be bounded, an answer in the cache final, and every request answered.
* **Vision providers.** All calls of a batch queue for one lock that is held over a
  sleep, retries sleep outside it, one exception ends the batch. Calls must be
  paced, a paid answer must survive whatever ends the run, and the run must end.
* **Enrichment and ingest CLI.** Rows are selected once and written one by one while
  an ingest upserts them; two tracks share a cache file that each process reads
  once, and a pair of handoff files. A name must be a translation of the row's own
  text, one text must get one name, an operator's answer must be used, a fill must not overwrite a
  name, and SUCCESS must mean that all was done.
* **Parsers.** Two ports of one parser decide separately where a section ends, what
  its title is and which rows count, and what a cell that is no plain text says. Every
  row must be read once, under its own header, and both tracks must come to the same parts.
* **Medallion.** Each asset reads the tables below it as they are, and replaces its
  own by an optimistic commit or, when columns are new, by drop and create. A mart
  must be made of one parse, and what is published must stay readable.
* **MLX batch.** Processes started by hand share files of one line per picture and
  may die inside a line. A slice that ends must be complete, failures must be read
  again, and no grade may end up better than the checks gave.

`PROJECT.json` lists each hazard with its line and the properties that cover it.

## 2. Modules

| module | models | abstracts |
|---|---|---|
| `Values` | null and what is put in its place | |
| `JobQueue` | the BullMQ contract used under `src/`: a table of jobs | order among waiting jobs, rate limiter, backoff times |
| `Catalogue` | abstract: what a reader of products, objects and links may rely on | queues, workers, failures |
| `IngestPipeline` | runs API, three workers, worker process, caches, stores, ids that Redis forgets | workbook content is a constant: rows, anchors, media per version |
| `IngestPipelineProofs` | theorems about `IngestPipeline` | |
| `StockLedger` | abstract: where a stock level may come from | events API, worker, retries |
| `StreamEvents` | events API, outbox, stream-inventory worker | a level is named by its event |
| `StreamEventsProofs` | theorems about `StreamEvents` | |
| `DispatchLoop` | dispatch loops, their bindings, the queue they feed | a hash is the content, durations are ticks, a load is read then write |
| `DispatchLoopProofs` | theorems about `DispatchLoop` | |
| `FallbackChain` | cached provider, chain, quota tracker | a response is a number of callouts or null |
| `FallbackChainProofs` | theorems about `FallbackChain` | |
| `VisionCalls` | the four vision providers behind the batch script: semaphore, pacing lock, 429 retries, gather, reruns | HTTP; a response is one of the cases the code tells apart |
| `VisionCallsProofs` | theorems about `VisionCalls` | |
| `SheetParser` | both parsers on one workbook, Track B's CSV, Track A's upserts, the parity check's summary | a cell has a kind, a text and, if numeric, its whole-number form; one column stands for all that are copied |
| `Medallion` | the Iceberg assets and the four programs that write them | rows are what the parser lists; a vision answer is opaque |
| `MedallionProofs` | theorems about `Medallion` | |
| `MlxBatch` | extraction, sliced workers with resume, phases 2 to 4, integration | a reading is one of a few lists of callouts |
| `WorkbookProofs` | theorems about what is read from a workbook: its rows (`SheetParser`), its pictures (`MlxBatch`) | |
| `Enrichment` | A's ingest CLI, A's fill and audit, B's enrich, cache file, handoff files | a name is a model value, a row has one section |
| `EnrichmentProofs` | theorems about `Enrichment` | |
| `MC*` | instances for TLC | |

**How actions correspond to code.** One action is one awaited call with the
synchronous code up to the next await: that is the grain at which Node and asyncio
interleave. `PROJECT.json` maps each definition to its lines.

* `IngestPipeline`: `slots[s]` is what one worker slot is executing: `step` is the
  call it awaits, `data` the job's payload, `mem` the processor's locals. A step that
  throws ends the attempt (`Throw`), except the three calls of a row, which the code
  catches and counts (`SkipRow`). `WorkerCrash` drops slots and caches; the jobs stay
  active until `RecoverOrphan`. `LoseLock` takes a job from a slot that goes on
  executing it. `Expire` removes a job that has settled, after which its id can be added
  again; `expired` is history. A row carries the 1-based number of its header, an
  anchor a 0-based row and its sheet; `PickAnchor` converts the one and does not look at
  the other, as the code does.
* `StreamEvents`: the worker's three statements are `Update`, `Mark` and `Notify`.
* `DispatchLoop`: a process goes evaluate, hash, add, update for each binding and
  ends with the SKIPPED rows (`Audit`).
* `FallbackChain`: a task moves from one provider call to the next in one step
  (`Escalate`, `NullResult`, `Answer`), since nothing but that call is awaited;
  `answered` counts what providers returned and is a history variable.
* `VisionCalls` opens up what `FallbackChain` takes as one await. `Enter` passes the
  semaphore, `Acquire` takes the pacing lock and fires or sleeps with it, `Fire`
  wakes up, fires and releases it; `Null`, `TooMany`, `Result` and `Raises` are what
  a provider makes of each of the `Responses` (the table `GroqOutcome` to
  `OllamaOutcome`; the providers differ in four of the eight). `Raises` leaves
  `gather` and ends the process. Time is kept as what is left of a sleep and the age
  of an event, so that it needs no bound.
* `SheetParser`: what a track makes of a cell is stated for each of them from its own
  files: `CellToStringA` and `CellToStringB`, `StringA` and `StringB` (the `String(v)`
  and `str(v)` with which titles are looked for), `ParseCalloutA` and `ParseCalloutB`,
  and hence the sheets they see, `Shown` and `Texts`. Over these,
  `DetectSections` (a section for each header row) and
  `Resolve` are the same line by line in both languages and are stated once. What is accepted
  and what is written is again stated twice: `Accepted` and `ToProduct` are Track B's,
  `AcceptedByTrackA` and `ToUpsert` Track A's. A step is a turn of the innermost
  loop: `ParseRow` takes Track B to the next row of a section, of the next section, or of
  the next sheet, and `WriteCsv` ends it; `IngestRow(n)` is the same for one sheet
  in Track A, whose sheets are jobs that run at once. Properties compare with a
  reference definition that knows no sections (`Numbered`, `Listed`: a row belongs to the nearest
  header above it).
* `Medallion`: a run's `step` is the catalogue call it is about to make: `Load`,
  then `Overwrite`, or `Drop`, `Create` and `AppendRows`. A commit holds only if the
  table is still the one, at the snapshot, that was loaded (`Stale`). The programs
  differ in `Plan` and `Columns`; `Begin` reads the tables below, `Check` is what
  `materialize_all.py` and `iceberg_roundtrip.py` verify at the end.
* `MlxBatch`: a file is the set of its records and whether it ends in half a line;
  the record appended to half a line does not parse. `StartBatch` covers a fresh
  start and `--resume`, `StartPhase2` computes what is left to refine when it starts,
  and each stage is a read (`LoadPhase1`, `LoadFinal`, `LoadGraded`) and a later
  write (`Phase3`, `Phase4`, `Integrate`).
* `Enrichment`: a slot is a terminal that runs programs one after the other. `Ask`
  looks into the index read at the start, `ModelReplies` and `HandoffReplies` are the
  upstream and the append to the cache file, `RecordAudit` and `Update` the two
  statements that follow; `IngestRow` and `LinkRow` are the ingest. `Load` sets aside the
  names of white space that the loop only counts, and `StatusOf` compares the counts as the
  code does. `goal`, `answered`, `overlapped` and `unsaved` are history.

**Composition.** `IngestPipeline`, `StreamEvents` and `DispatchLoop` extend
`JobQueue` and share its operators, each with a table of its own. The streaming
model contains the one action of the ingest that it depends on (`Ingest`: a product
comes into being); the dispatch model reduces a parse-file job to reading a file and
loading what was read. `Enrichment` composes the ingest CLI with both tracks'
enrichment over one products table and the shared files; `SheetParser` composes both
tracks over one workbook; `Medallion` composes four programs over one catalogue.
`IngestPipeline` is shown to implement `Catalogue`, and `StreamEvents` to implement
`StockLedger`, by `INSTANCE ... WITH`.

**Mutant definitions.** A definition whose comment starts with `Mutant:` is never
used by a specification. It is a plausible bug of the definition it precedes;
putting it in that definition's place makes TLC refute the property
listed with it in `PROJECT.json`, which shows that the property depends on the code.

**Type invariants.** Every module of a component states one (`TypeOK`; `ParityTypeOK` in
`SheetParser`), and each is a theorem. The runs `ingest` and `stream` check theirs; the others hold under the same
configurations (add the name to the `INVARIANTS` line) and are left out of the listed
runs, which have more telling properties to check. That of `VisionCalls` is also where the
attempts of a task are bounded by `MaxRetries`.

## 3. Runs

Run one with `tlc -config X.cfg M` in this directory.

| run | module, cfg | shows |
|---|---|---|
| `ingest` | `MCIngestPipeline`, `IngestPipeline.cfg` | types; links never dangle; no row lost; completed image jobs linked; a section gets its own last picture, not a neighbour's, unless another sheet has an anchor in its rows; the pipeline implements `Catalogue` |
| `ingest_replaced` | `MCIngestPipeline`, `IngestReplaced.cfg` | the workbook overwritten in the middle: every accepted run settles (liveness) |
| `stream` | `MCStreamEvents`, `StreamEvents.cfg` | types; listeners hear of recorded events only; completed jobs told them; implements `StockLedger`; accepted inventory events resolve (liveness) |
| `dispatch` | `MCDispatchLoop`, `DispatchLoop.cfg` | two overlapping loops: a recorded hash was queued, an unchanged file is loaded once, the record converges (liveness) |
| `dispatch_freshness` | `MCDispatchLoop`, `DispatchFreshness.cfg` | a watched binding, then one scheduled by its SLA: recorded runs of the latter are that far apart |
| `fallback` | `MCFallbackChain`, `FallbackChain.cfg` | overshoot bounded, cached answers final, awaiting tasks answered (liveness) |
| `vision_calls` | `MCVisionCalls`, `VisionCalls.cfg` | for each provider: first POSTs are the interval apart, a result once written is every later run's, and a run ends (liveness) |
| `sheet_parser` | `MCSheetParser`, `SheetParser.cfg` | the CSV holds each part's last appearance and no other row; a section's title is its own; where both tracks show the cells alike they list the same parts, and read a part that one sheet lists alike, but for rich texts and formulas in a title or a callout |
| `medallion` | `MCMedallion`, `Medallion.cfg` | gold is made of one parse unless processes ran at once; a run alone leaves its tables equal to its parse; what has rows stays readable |
| `mlx` | `MCMlxBatch`, `MlxBatch.cfg` | a finished slice is complete; what phase 2 does not record was read well; a file has one record of a picture, an output one row of it; no grade is raised by any order of stages and deaths |
| `enrichment` | `MCEnrichment`, `Enrichment.cfg` | names are translations of their own text; one text, one name; answers are used; an ingest that ends as SUCCESS has upserted and linked every row, an enrichment that skipped nothing and ends so has done all |
| `cache_shared` | `MCEnrichment`, `CacheShared.cfg` | ends in a violation, see below |

Several properties name the race they leave out, and the name is a finding of its
own: `GoldIsOfOneParse` (`mixed`: two processes at once do blend), `PublishedStays`
(`drifted`: the roundtrip's layout makes the next run drop the table),
`SameTextSameName` (`overlapped`: two enrichments at once ask twice; `unsaved`: a line of the
cache was lost), `EnrichSuccessIsComplete` (nothing `skipped`), `LinkIsAnchored` (no
other sheet's anchor between the two headers), `TracksAgree` (`ShownAlike`: no error value and no
formula with white space), `FinishedSliceIsComplete` (`swallowed`: the
record after half a line is lost), `OvershootBounded` (a torn quota file).

### Where documents and code differ

Each of these configurations checks one sentence of the repository against the code and
ends in a violation within a minute. `CacheShared` is one of the listed runs; the others are
run by hand, with the command above.

| cfg, module | the sentence | what the code does |
|---|---|---|
| `CacheShared`, `MCEnrichment` | B `dagster_project/ai/cached.py:3-4`: an entry written by Track A is found by Track B | keys of names that are not ASCII differ, and lines of Track A have other field names and are skipped |
| `SectionPictures`, `MCIngestPipeline` | A `drawing-parser.ts:9-12`: a section's image is anchored just before its header, and mapping the two avoids random images | anchors of all sheets are pooled (`parse-sheet.worker.ts:170-182`) and the nearest row number wins: another sheet's picture is linked |
| `WatchedOverdue`, `MCDispatchLoop` | `docs/decisions/ADR-014`:98-100, 166: an SLA that is over forces a run, whatever the schedule | an unchanged watched file is SKIPPED before the SLA is looked at (`dispatch-loop.ts:153-168`); the seeded binding is one (`seed-mdcp.ts:101-105`) |
| `DroppedRun`, `MCDispatchLoop` | the same, and A `dispatch-loop.ts:170`: run if the SLA has elapsed | the id of the job is the content: while the queue knows it, the add is dropped, and the run is recorded all the same |
| `SuccessSkipped`, `MCEnrichment` | A `schema.ts:199`, `docs/TRACK_A.md:269`: a run is SUCCESS or PARTIAL | `enrich.ts:221` adds the skipped rows to those done, but they were not attempted: one skipped and one unanswered make a SUCCESS |
| `FillOverwrites`, `MCEnrichment` | A `enrich.ts:52`: fill translates rows without a name | the row is updated by id minutes after it was selected, and the name an ingest gave it meanwhile is lost |
| `CellsMirrored`, `MCSheetParser` | B `cell_utils.py:17`: mirrors `cellToString` | a formula's result is trimmed by B only, and dropped by it when empty, an error value is dropped by A only: the parts differ |
| `RowsMirrored`, `MCSheetParser` | B `row_normalizer.py:54`: mirrors `normaliseRow` | `String(v)` makes `[object Object]` of a rich text or a formula in the callout's column (`row-normalizer.ts:119`) |
| `RunFinalised`, `MCIngestPipeline` | A `runs.repo.ts:4-6`: runs are finalised on completion | no worker calls `finaliseRun`; a posted run stays RUNNING |
| `Lineage`, `MCIngestPipeline` | `docs/TRACK_A.md:1185`: full row-to-run lineage by hash | a row carries the hash of the request, not of what was read |
| `StreamIsolation`, `MCStreamEvents` | A `stream-inventory.worker.ts:5`: match by part and dealer | the UPDATE matches the part only |
| `SourceIsLoaded`, `MCDispatchLoop` | A `dispatch-loop.ts:12-14`: skipped if unchanged, else enqueued | after A, B, A the record says A, and the products show B for ever |
| `QuotaEnforced`, `MCFallbackChain` | B `fallback_chain.py:13`: the tracker enforces the quota | concurrent requests pass the check together |
| `WeakIsRetried`, `MCFallbackChain` | B `fallback_chain.py:115-116`: caller skips the cache and retries tomorrow | the caller caches every non-null response |
| `RecoveredMerged`, `MCMlxBatch` | M `phase3_verify.py:8`, `phase2_refine.py:14-17`: phase 1 and phase 2 are merged | the merge walks phase 1's records; what phase 2 read of a picture without one is dropped |

Smaller ones, met while translating and visible in the definitions:

* `SheetParser`: `row-normalizer.ts` accepts a column label as a part number,
  though `row_normalizer.py:54` says that it mirrors it; `row-normalizer.ts:8` says that
  empty strings become null, but an empty or blank result of a formula stays
  (`cell-utils.ts:28-30`), and an empty one keeps an engine row from its old number; a title in
  a rich text or a formula is `[object Object]` in Track A (`section-detector.ts:244`), though
  `detect_sections` says that it mirrors it; a year without a model is
  "low" and `UNKNOWN` in Track A, "medium" and null in Track B; Track A keeps an older name
  where the new row has none (`COALESCE`) and the first spelling of a part number,
  Track B takes the last row whole; `diff_summary` passes over a fitment that one
  side lacks.
* `Medallion`: the ingest CLI sets `SOURCE_XLSX_PATH` and `DEMO_DEALER_ID`, which
  nothing reads, so that bronze parses the default file whatever was given; a null
  fitment passes the asset check.
* `MlxBatch`: `phase3_verify.py:16` has a list of under three callouts graded "low", the
  code grades it "medium" (94-96); nothing reads the output of an unsliced phase 1 or of a sliced phase
  2; the phase-4 file is preferred even when it is older than phase 3's.
* `VisionCalls`: retries after a 429 are not paced (`groq_vision.py:120`); an answer
  without its list of choices is an empty result for Groq and Ollama, and cached, and a
  null for the other two; a `Retry-After` that is a date raises in the Gemini provider.
* `Enrichment`: `enrich.ts:53` and `:86` say that an audit takes the rows that have an English
  name, but its query has no such condition (91-107); the key omits the prompt template version that
  `cached.provider.ts:4` lists; an audit that hits a line of Track B fails on a
  NOT NULL column (`schema.ts:231`) and ends; an empty answer is cached for good; a row
  whose link fails is counted as succeeded and as failed; `verified` is not reset
  when a name changes; an ingest that is killed leaves its run RUNNING.

### Bounds, and why they are enough

* `ingest`: two sections follow one another, and their products share a picture. The first
  section has a product with an alias and a row that does not normalise; another
  picture begins in the row below the first header, where an off-by-one finds it. Two
  sheet slots let two attempts of the one sheet job overlap, with an image slot next
  to them; two faults are what it takes to lose a lock and then crash, or to fail an
  attempt and lose a row in the next; one job is forgotten and may be added again
  (`MaxExpired`). Sheet slots are symmetric, and the run checks no liveness.
* `ingest_replaced`: one replacement (`MaxVersion` 2), sheet renamed, picture gone,
  so a cache may be older than the file, and a sheet job may find no sheet.
  One fault, one forgotten job; no symmetry, as it checks liveness.
* `stream`: two events race for one part in two slots. Three faults: an attempt
  fails, its retry loses the lock, and the third run overlaps with it.
* `dispatch`: one binding suffices for two loops to race for its row; `MaxSaves` 1
  changes the file in between, `MaxExpired` 1 frees an id, `MaxFaults` 1 kills a
  loop between add and update. The first content is arbitrary, also missing.
* `dispatch_freshness`: the watched binding comes first, so that the clock can move
  between the loading of the second row and its evaluation. `MaxTime` 2 is one SLA.
* `fallback`: two requests are in flight over two tiers of one call each, so both
  pass the check on the last call; one midnight, two restarts, two failed writes.
* `vision_calls`: three images behind a semaphore of two, so that one waits for the
  semaphore while another waits for the lock; an interval of two ticks, so that a
  sleeper may be overtaken in the middle; two attempts; back-offs of none or one
  tick; every kind of response; two runs, with any of the four providers and with or
  without a key, one failed write.
* `sheet_parser`: all sheets of a header, or a title and a header, with up to two rows out of
  nine kinds below, or of a header, a row and a title with up to one row below, so that a header may follow a header,
  a title or data; a title from one to five rows above its header, one more than the
  window; pairs of sheets of a section each, where a part is in both, spelled twice,
  unnamed, or numbered in the old column only; and sheets with a rich text, a formula (also one
  with an empty result, and one with white space) or an error value for a column label, a title, a
  callout, a name or a part number. The sheet names give a range and a year,
  a year only, or a reserved word.
* `medallion`: three processes (`materialize_all.py`, the ingest CLI with or without
  `--dry-run`, the roundtrip), so that one may overlap with a second and the third
  comes after; two workbooks with different parts, one replaced by the other once
  (`MaxSaves`); one kill (`MaxKills`), between any two catalogue calls. One picture is two
  files on two sheets, one is of no type that is read.
* `mlx`: three pictures on two sheets; two slices for two workers in phase 1, one in
  phase 2; four starts cover two slices, a resume and phase 2; three stages cover
  phases 3 and 4 and the integration, or one of them twice; one kill. Readings give
  every grade. Workers are symmetric, and the run checks no liveness.
* `enrichment`: the first part is called by white space, and further down by a name that the
  second shares; a later workbook has a row without a part number, which leaves its ingest
  PARTIAL, and renames and names the second part. One terminal
  fills from the handoff files, any number of times, fills from a model, and audits; the other
  ingests both workbooks, in either order and with or without a stored picture, and runs Track
  B's enrich; one fault. One of the Chinese names is ASCII, so that the tracks' keys meet.

Deadlock is checked in the dispatch runs, where cron always starts the next loop, and
in `medallion`, where only ended processes rest. Elsewhere the system comes to rest
when all jobs have settled, or whenever the operator stops.

### Fairness

Weak fairness only, of: the API's second call or its failure; idle slots polling; an
awaited call coming back; the stalled-job check (BullMQ runs it on every worker); cron
starting loops; the event loop starting tasks, and providers answering, since each has a
timeout; in `VisionCalls` also the passing of time (`Tick`) and the writing of the
results; in `Enrichment` a running program's next step. Nothing is assumed of dealers, operators, clocks, midnight
or faults; faults are bounded, so retries run out of them. That an exhausted retry
is a result and not a success is part of the properties: a run settles when its
jobs completed *or failed for good*, an event resolves when it is marked or its job
is kept as failed. `SheetParser`, `Medallion` and `MlxBatch` check safety only and
state no fairness: their programs are started by hand.

## 4. Proofs

The modules `*Proofs` prove, for every value of the constants (workbooks, versions,
slots, processes, tiers, limits, requests, intervals, faults and all other bounds):

| module | theorem | statement |
|---|---|---|
| `IngestPipelineProofs` | `Typed` | `Spec => []TypeOK` |
| | `LinksSafe` | `Spec => []LinkedIsStored` |
| | `NothingLost` | `Spec => []NoRowLost` |
| | `ImagesLinked` | `Spec => []CompletedImageIsLinked` |
| | `PicturesAnchored` | `Spec => []LinkIsAnchored` |
| | `Refinement` | `Spec => CatalogueSpec` |
| `StreamEventsProofs` | `StreamTyped` | `Spec => []TypeOK` |
| | `ToldSafe` | `Spec => []ToldIsRecorded` |
| | `CompletedTold` | `Spec => []CompletedIsTold` |
| | `LedgerRefined` | `Spec => LedgerSpec` |
| `DispatchLoopProofs` | `DispatchTyped` | `Spec => []TypeOK` |
| | `HashQueued` | `Spec => []RecordedWasQueued` |
| | `LoadedOnce` | `Spec => []UnchangedLoadedOnce` |
| | `RunsSpaced` | `Spec => RunsAreSpaced`, with at most one loop |
| `FallbackChainProofs` | `ChainTyped` | `Spec => []TypeOK` |
| | `Overshoot` | `Spec => []OvershootBounded` |
| | `AnswersFinal` | `Spec => KeptIsFinal` |
| `VisionCallsProofs` | `CallsTyped` | `Spec => []TypeOK` |
| | `CallsSpaced` | `Spec => FirstCallsSpaced` |
| | `ResultsKept` | `Spec => []ResultsAreKept` |
| `MedallionProofs` | `GoldOfOneParse` | `Spec => []GoldIsOfOneParse` |
| | `PublishedKept` | `Spec => PublishedStays` |
| | `LonePublished` | `Spec => LoneRunPublishes` |
| | `TablesTyped` | `Spec => []TypeOK` |
| `WorkbookProofs` | `ParityTypeCorrect` | `ParitySpec => []ParityTypeOK` |
| | `FileHoldsLast` | `ParitySpec => []LastAppearanceKept` |
| | `SectionsNamedByOwnTitle` | `ParitySpec => []TitleIsOwn` |
| | `TracksListSameParts` | `ParitySpec => []SamePartNumbers` |
| | `TracksReadAlike` | `ParitySpec => []TracksAgree` |
| | `GradesNotRaised` | `Spec => []NoGradeIsRaised` |
| | `SlicesComplete` | `Spec => FinishedSliceIsComplete` |
| | `AllRefined` | `Spec => RefinedOrRead` |
| | `PicturesOnce` | `Spec => []OneOfEach` |
| | `BatchTypeCorrect` | `Spec => []TypeOK` |
| `EnrichmentProofs` | `TypesKept` | `Spec => []TypeOK` |
| | `NamesOwned` | `Spec => []NamesAreOwn` |
| | `IngestSuccessComplete` | `Spec => []IngestSuccessIsComplete` |
| | `EnrichSuccessComplete` | `Spec => []EnrichSuccessIsComplete` |
| | `AnswersUsed` | `Spec => []AnswersAreUsed` |
| | `TextsNamedOnce` | `Spec => []SameTextSameName` |

They assume what the modules state of their constants and TLC evaluates in every run:
`WorkbookAssumption` and `NameAssumption` (the constants are workbooks, `None` is no
name, the slots of the three workers differ), `StreamAssumption` (parts and dealers are
finite, so that a number of updated rows is one), `DispatchAssumption`,
`ChainAssumption` (finitely many requests, limits of at least one),
`VisionCallsAssumption`, `ParserAssumption` (a workbook is a list of sheets, at least
one, a sheet a list of rows, a row a list of cells, and no number is shown as an empty text), `MedallionAssumption` (the parse of a workbook lists at
least one product: of no rows Arrow makes a table of no columns, and what the catalog
does with that is not modelled), `MlxBatchAssumption` (a workbook is a list of sheets, a
sheet has a list of pictures, `None` is no number), `EnrichmentAssumption` and
`ProgramAssumption` (parts and slots are finite, an operator answers with names, rows
have the parts and Chinese names of the model or none, and a slot runs the programs
there are) and `LineAssumption` (a line of the cache file is not null). Each proof has the same shape: an inductive invariant, one
lemma per action, and the property read off the invariant.

### The ingest pipeline

`LinkedIsStored` is not inductive: `ImageLink` writes a link from a slot's locals,
of which it says nothing. `IInv` adds to it and to `TypeOK` what is known along
the way from row to link: a job's run is accepted, hence its dealer fixed (`JobInv`,
`SlotInv`); a slot in the row loop holds a row that exists; past the upsert its
product is catalogued; hence every image job, and every slot running one, names a
catalogued product; and a slot about to link has bytes that are in the bucket.
The proof of a step has two parts. `Grows` collects what no step takes back
(catalogued products, objects, the dealer of an accepted run), so slots
and jobs that did not move keep their part (`KeptSlot`, `KeptJobs`). What is left is
the slot that moved, one lemma per worker and one step per action. The job table
enters only through lemmas on the operators of `JobQueue` (`AddBulkLemma` to
`RemoveLemma`).

`Refinement` maps
upserts to `Upsert`, `ImagePut` to `Store`, `ImageLink` to `Link`, whose guards are
what `IInv` says of a slot at that step, and every other step to a stutter.

The three invariants about what a finished job has done need `Known`, which adds the
locals to `IInv`. A slot's payload is that of its job, and a job's payload never changes
(`SlotKnown`). In a sheet attempt the rows behind the cursor are upserted or counted
(`SheetAttempt`); in an image attempt the bytes in hand are those of the job's picture,
and past the link the link is there (`ImageAttempt`); what a completed job returns are
the locals of the attempt that ended it (`Outcome`), also when the lock was lost on the
way and two attempts ran at once. For `LinkIsAnchored` the two caches, every slot and
every image job speak of the first version of the workbook while there is no second
(`FirstVersion`, `FirstCaches`), and what `PickAnchor` finds over the pooled anchors is the last one
of the section's own rows whenever one of them is there and no other sheet's is
(`PickedIllustrates`). A row whose image job was added stays accounted for when Redis
forgets that job, because its payload is in `expired`. Nothing a row or a link has gained
is taken back (`Steady`), so again only the slot that moved is at stake.

### Streaming

`SInv` follows an event from its row to the NOTIFY. A job exists only for a recorded
event, whose part is fixed (`Recorded`); what a slot has updated are products of that
part which are there and have a level; a slot about to notify has marked its event
(`SlotInv`). None of this is ever taken back (`Grows`: parts, marks, products, levels,
notifications), so an overlapping attempt cannot spoil it, and a step has to account
only for its own slot, notification or completed job (`Assemble`). `LedgerRefined` maps
the transaction of a POST to `Record`, the UPDATE to `Apply`, the rest to a stutter.

### Dispatch

`DInv` says of a process what its row and its file said when it looked: past the
hash it has a content in hand, past the add the job under that content is queued
(`ProcInv`), whatever others did since. That gives `HashQueued` as it stands.
`LoadedOnce` needs more: while no file has been saved, every id of a binding has the
one content of its file, so a binding has one id; a slot that loads is the owner of an
active job (`ReadInv`), which therefore is not a completed one; and a binding that
has been loaded has a completed job while ids do not expire.

`RunsSpaced` is about the time between looking and recording. With at most one loop,
which may die and be started again, the rows it loaded are still those of the table from
the binding it is at onwards (`Current`), and a binding once found due stays due until
the run is recorded (`Ripe`), since the clock only moves on. The hypothesis is needed:
a second loop records between the load and the update of the first one.

### Vision chain and providers

`QuotaInv`: while no write has failed, the counters in memory, in the file and in the
history agree, so a request that joins a tier has found fewer answers than the limit;
those that wait with it are among the other requests, which bounds the sum.
`CacheInv`: an answer in the file is in the index of the process, and its request is
idle or done with that very answer, so no later answer can take its place.

`PaceInv`: only the holder of the pacing lock sleeps, and its remaining sleep and the
age of the last call add up to the interval at least; a first call is at least as old
as the last call of any sort. `KeepInv`: while no write has failed, file and index
agree, a task past the lookup has no answer in either, and each result is in the cache.

### The parsers

Two loops over a workbook, neither with a bound, and no recursion: the row a loop has
come to is the state, and the next one is the earliest after it (`Earliest`, which is
there because row positions are triples of numbers, `EarliestOne`). `DataRowsLemma` says
that the rows of the sections are those below a header and not headers themselves, each
once and each under its nearest header, which is where a wrong `DataEnd` would show
(`SectionRow`); `OrderLemma` that the order of the loops is the order of sheets and
rows; `TurnLemma` that no row is passed over between two turns. `ParserInv` then says of
Track B that its products are those of the listed rows it has come past, in that order.
`LastAppearanceKept` speaks of the csv only; it is `ParserInv` at the last row, with
`LastPerPart` taking the greatest index and hence the latest row (`LastProduct`).

`StoreInv` is about Track A and any interleaving of its jobs. An entry of the catalogue
has the values of a row that some job has come past, and no later row of the same sheet
has its key (`Latest`); its spelling is that of such a row, too, but maybe another
(`Spelled`); and each row come past has an entry. Across sheets nothing is said of which row is
last, because the jobs race: `TracksAgree` is therefore about parts of one sheet.

Each of the two invariants is about the cells as its own track shows them (`ShownGrid`: a grid of
the same shape), and nothing in them relates the tracks. `AlikeLemma` does, when all cells are
shown alike: then headers, numbered rows and part numbers are the same.
The texts in which titles are looked for may differ all the same: `SameTitle` shows that where the four rows
above a header read alike, or only as two numbers, the same title is found, and
`SameCallout` compares the two conversions of a callout, an object excepted.

### Medallion tables

`MInv` says of a table that it is empty or holds rows its asset makes, in the layout of
the assets, which only gold leaves, after the roundtrip has created it (`TableInv`). Of a
process it says that what it is about to write is such rows, never none (`Ready`), and
that it drops gold only (`RunInv`). That alone would let gold blend two parses: `Passed`
adds that a run past bronze or silver finds them filled, and that while no two processes
have run at once silver is made of bronze as it is now; so is the silver that gold has
read and holds on to. Every call of the catalog is shown to keep `MInv` and the rows
that are there (`Kept`, the body of `PublishedStays`), and `OthersKept` carries a
process across the steps of another one.

`LonePublished` is about a run that nothing ran beside. `LInv` says that no other
process moves while it does, that the tables of the assets it has finished are what the
workbook at the path comes to, whatever earlier runs left in them, and that what it
holds for the next call comes from them (`Own`). An asset without rows is left out of
the first part: callouts of a workbook without images are not written, and keep
their rows. A workbook saved meanwhile ends the
run's being alone, and a run that succeeds has nothing left in its plan (`Succeeds`).

`TypeOK` is not inductive: `TInv` adds that a run that is at no asset holds none, that one
that has nothing to write holds no rows, the roundtrip excepted, which holds on to gold
(`Tidy`), and that no table has an id beyond those handed out.

### MLX batch

`BInv` follows a grade: a record in a file of phase 1 or 2 is something the model was
heard to answer (`FilesHeard`), a stage holds such records (`StageHeard`), and what
phases 3 and 4 write, and the integration inserts, has a grade no better than the
checks give that answer (`OutputsGraded`), which is a case analysis of the grading.

`WInv` follows a picture. One that a worker started for is still on its list, has a
record, had its record swallowed by a half line (`Sliced`), or was read well by phase 1
(`Refines`); no two workers have one file, so nobody truncates or tears it meanwhile.
That a fresh start or a resume establishes this is about lists: what of a list is kept
(`OnlyLemma`), taken at given places (`PlacesLemma`), or flattened (`FlattenLemma`) still
has each member that should be there, so a slice has each picture at its places
(`WholeSlice`). These are statements about recursive functions for every list, proved
without an induction rule, from the least counterexample (`LeastFailure`).

`DInv` shows that nothing is there twice (`OneOfEach`). A worker has no picture twice on
its list, and none that its file has a record of (`Ahead`), because what a resume leaves
out is what it can read back; so an append is the first record of its picture
(`FileOnce`). Phase 3 takes one record of each, the last file's (`StageOnce`), and every
output after it is made of those, an upsert replacing the row it finds (`OutputsOnce`). The
lemmas say of lists without repetitions what `OnlyLemma` and `PlacesLemma` say of
lists (`OnlyOnce`, `PlacesOnce`, `ImagesOnce`).

### Enrichment

`EInv` binds the two halves of a program's way through a row. `Chain` is about the text:
the candidate in hand has a Chinese name that a workbook gives its part, the reply is
for the key of that name, and every line of the file or of an index holds a
translation of a text with its key. Hence `NamesAreOwn`, which is part of the
invariant. The rest is about counts: while as many succeeded as were attempted, all
candidates behind the cursor are done (`Worked`), which is why `EnrichSuccessComplete` needs
that none was skipped; while no row failed, all rows behind
the cursor are there and linked (`Ingested`). `Used` carries an operator's answer
from the file through the memo to the reply; where a null is served all the same, the cache
has an empty line for that text. A name, once
there, stays there (`Grown`), which carries all this over the steps of other processes.

`SInv` gives `SameTextSameName`: while enrichments neither overlap nor lose a line, a
program of Track A has every line of the file in its index and asks only for a text without
one (`Informed`), so the file has one answer of Track A for a text (`OneLine`); and each name
is a workbook's or such an answer (`Sourced`). Two products may still have one name
without sharing a text, when a workbook writes what is the translation of another text or two texts
have one translation; the property excepts names that do not tell their text
(`Telling`), since nothing in the code rules them out.

### Only model-checked

Every invariant and action property of the runs is a theorem, and so are both refinements.
Left are the **liveness properties** (`AcceptedRunsSettle`, `AcceptedEventsResolve`,
`RecordConverges`, `RequestsAnswered`, `RunsEnd`): liveness under fairness
and ENABLED are out of the prover's reach.

## 5. What the models leave out

* **BullMQ** is external, modelled by what the code relies on. Its own checks on
  custom ids are not modelled: an id is taken as accepted, although the ids of this
  code contain `:` (`${runId}:${sheetName}`), which some versions of the library
  refuse. Stalled jobs come back once (`maxStalledCount` 1, the default).
* **Expiry of job ids** is in `IngestPipeline` and `DispatchLoop`: any job that has settled may be
  forgotten, whatever its age and the 5000 completed ones that are kept. In
  `StreamEvents` an id is that of an event and is added once.
* **Parsing** is data in `IngestPipeline`, `Medallion` and `Enrichment`: what the
  parser returns is a constant there, and `SheetParser` is about the parser. The
  choice of an anchor is in `IngestPipeline`. Of the kinds of cells, dates, booleans, links and formulas without a
  stored result are not modelled, nor are prices and quantities or the
  reader of the xlsx file. Two attempts of one sheet job at once are in `IngestPipeline`, not
  in `SheetParser`, where a job passes its rows once.
* **One path.** All runs of `IngestPipeline` read the same path, so that the caches matter.
* **Options that make a program do less**: `--dry-run` and `--binding-id` of the
  dispatch loop; `--limit`, `--sheet`, `--dump-tasks` and `--dry-run` of the CLIs of
  Track A. Track B's ingest `--dry-run` is in `Medallion`.
* **Providers**: `FallbackChain` takes a call as one step; its pacing and retries are in
  `VisionCalls`. The text of prompts and answers, the consensus label of an audit,
  costs, and the polling of the Anthropic batch API inside one call are left out.
  `extract_unique_images` makes requests unique by hash, so no request is in
  flight twice.
* **Durations**: an ISO 8601 period is a number of ticks; that a period in days is read
  as 0 ms (A `dispatch-loop.ts:222`) is not modelled.
* **Iceberg, the object store and PostgreSQL** are external: a commit, a PUT and a
  statement are atomic.
* Reads (`GET`), validation, logging, server start-up and shutdown order beyond the
  loss of jobs.

Not modelled:

* **registry and reference CLIs**: one-shot statements with no interleaving of their
  own.
* **row level security and migrations**: static DDL; the application does not set the
  tenant that the policies read.
* **streaming demo and benchmarks**: a seeding script, views for external services,
  and measurements.

## 6. Plan

Done: the ingest pipeline, streaming, dispatch, the vision chain and its providers, the
parsers, the medallion tables, the MLX batch and enrichment; every invariant and every
action property that a run checks is a theorem.

Worth doing next, in this order:

1. overlapping attempts of a sheet job in `SheetParser`, and which anchor a section gets in
   both tracks;
2. prices, quantities, dates and links cell by cell, whose formats the two parsers read
   separately.
