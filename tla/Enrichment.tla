------------------------------ MODULE Enrichment ------------------------------
(***************************************************************************)
(* The command lines that share the products table and the files of the    *)
(* LLM providers: track-a's ingest (src/cli/ingest.ts), its enrich         *)
(* (src/cli/enrich.ts, which fills missing English names or audits the     *)
(* ones there are) and track-b's enrich (dagster_project/cli/enrich.py,    *)
(* which audits the gold mart).  Both tracks ask a provider behind a       *)
(* CachedLLMProvider on one JSON-lines file, and hand tasks to an operator *)
(* through the same two handoff files.                                     *)
(*                                                                         *)
(* One action is one awaited call with the code up to the next; those that *)
(* touch nothing another process sees (the ingest_runs row, the workbook,  *)
(* the bucket) are part of the action before them.  A slot is a terminal:  *)
(* it runs one program after the other.  The consensus label of an audit   *)
(* is left out; what it was computed from is not.  --limit, --sheet and    *)
(* --dump-tasks, which only make a run do less, are left out.              *)
(***************************************************************************)
EXTENDS Integers, Sequences, FiniteSets, SequencesExt, Values

CONSTANTS
  Blank,           \* the empty string
  Parts, Chinese,  \* part numbers, Chinese names
  Ascii,           \* Chinese names that are plain ASCII, such as "ECU"
  Spaces,          \* Chinese names that are white space, as a formula may give
  Workbooks,       \* sequences of rows [part, cn, en]; part is None if it is missing
  Replies,         \* upstream -> Chinese name -> results it may give
  Slots, Programs, \* terminals; bound: each runs its programs once, HandoffFill often
  MaxFaults        \* bound: processes killed, statements and file writes that fail

(* The answers an operator writes are texts.                               *)
ASSUME EnrichmentAssumption ==
  /\ Ascii \cup Spaces \subseteq Chinese /\ MaxFaults \in Nat
  /\ IsFiniteSet(Parts) /\ IsFiniteSet(Slots)
  /\ None \notin Parts \cup Chinese \cup {Blank} /\ Blank \notin Chinese
  /\ "handoff" \in DOMAIN Replies
  /\ \A c \in Chinese : Replies["handoff"][c] \cap {None, Blank} = {}

(* A workbook has part numbers and Chinese names, or lacks them; a program *)
(* is an ingest of a workbook, a fill or an audit, or the audit of a mart, *)
(* all of whose rows have Chinese names.                                   *)
ASSUME ProgramAssumption ==
  /\ \A book \in Workbooks : /\ book \in Seq(ToSet(book))
                             /\ \A row \in ToSet(book) : /\ row.part \in Parts \cup {None}
                                                         /\ row.cn \in Chinese \cup {None, Blank}
  /\ \A s \in Slots : \A program \in Programs[s] :
       \/ program.tool = "ingest" /\ program.rows \in Workbooks
       \/ /\ program.tool = "enrich" /\ program.mode \in {"fill", "audit"}
          /\ program.upstream \in DOMAIN Replies
       \/ /\ program.tool = "mart" /\ program.upstream \in DOMAIN Replies
          /\ \A c \in program.rows : c.cn \in Chinese

VARIABLES
  products,   \* part -> [there, cn, en, translated, verified]
  linked,     \* parts in product_images
  file,       \* llm-cache.jsonl: lines [key, result, by]
  tasks,      \* names in translation_tasks.jsonl
  answers,    \* names in translation_results.jsonl
  process,    \* what each slot runs
  planned,    \* what each slot has yet to run
  faults,
  overlapped, \* history: two processes that ask providers have run at once
  unsaved     \* history: a line could not be appended to the cache file

tables  == <<products, linked>>
handoff == <<tasks, answers>>
history == <<overlapped, unsaved>>
vars    == <<tables, file, handoff, process, planned, faults, history>>

(* translated: data_quality has a translation_source. *)
Absent == [there |-> FALSE, cn |-> None, en |-> None, translated |-> FALSE,
           verified |-> FALSE]

-----------------------------------------------------------------------------
(* The cache.                                                              *)

Keys == [form : {"raw", "escaped"}, cn : Chinese]

(* A null is no line of the file.                                          *)
ASSUME LineAssumption ==
  None \notin [key : Keys, result : UNION {UNION {Replies[u][c] : u \in DOMAIN Replies} : c \in Chinese},
               by : {"a", "b"}]

(* Mutant: the inputs are left out of the key. *)
KeyOfField(track, c) == [form |-> "raw", cn |-> CHOOSE d \in Chinese : TRUE]

(* computeCacheKey hashes JSON.stringify, _compute_key json.dumps, which    *)
(* escapes what is not ASCII.                                              *)
Key(track, c) == [form |-> IF track = "a" \/ c \in Ascii THEN "raw" ELSE "escaped", cn |-> c]

(* Mutant: a process knows what it asked for itself only. *)
IndexEmpty(track) == [k \in Keys |-> None]

(* loadIndex takes every line, _load those with the fields of Track B's    *)
(* EnrichmentMeta; the last line of a key counts.                          *)
Index(track) ==
  [k \in Keys |->
     LET own == {i \in DOMAIN file : file[i].key = k /\ (track = "a" \/ file[i].by = "b")}
     IN  IF own = {} THEN None ELSE file[CHOOSE i \in own : \A j \in own : j <= i]]

-----------------------------------------------------------------------------
(* Processes.                                                              *)

NoProgram == [tool |-> "none"]

(* The cycle of docs/TRACK_A.md 6.3: the operator answers the tasks and    *)
(* runs the fill with the handoff provider, again and again.               *)
HandoffFill == [tool |-> "enrich", mode |-> "fill", upstream |-> "handoff"]

(* goal and answered are history: the candidates that are to be asked for,  *)
(* and the names answered when they were loaded.                            *)
Idle == [program |-> NoProgram, step |-> "idle", todo |-> {}, now |-> None, reply |-> None,
         index |-> None, memo |-> None, picture |-> FALSE,
         attempted |-> 0, succeeded |-> 0, skipped |-> 0, failed |-> 0,
         goal |-> {}, answered |-> {}]

At(s, step)   == process[s].step = step
Tool(s)       == process[s].program.tool
Track(s)      == IF Tool(s) = "mart" THEN "b" ELSE "a"
Becomes(s, p) == process' = [process EXCEPT ![s] = p]
Goto(s, step) == Becomes(s, [process[s] EXCEPT !.step = step])
Translating   == {s \in Slots : Tool(s) \in {"enrich", "mart"}}
Fault         == faults < MaxFaults /\ faults' = faults + 1

Init ==
  /\ products = [p \in Parts |-> Absent] /\ linked = {}
  /\ file = << >> /\ tasks = {} /\ answers = {}
  /\ process = [s \in Slots |-> Idle] /\ planned = Programs
  /\ faults = 0 /\ overlapped = FALSE /\ unsaved = FALSE

(* The provider chain is set up first: the cache file is read now.  A       *)
(* section's picture that cannot be read or stored is no failure.          *)
Start(s, program) ==
  /\ At(s, "idle") /\ program \in planned[s]
  /\ planned' = [planned EXCEPT ![s] = @ \ ({program} \ {HandoffFill})]
  /\ \/ /\ program.tool = "ingest"
        /\ \E stored \in BOOLEAN : Becomes(s, [Idle EXCEPT !.program = program,
             !.step = "row", !.picture = stored])
     \/ /\ program.tool \in {"enrich", "mart"}
        /\ Becomes(s, [Idle EXCEPT !.program = program, !.step = "load",
             !.index = Index(IF program.tool = "mart" THEN "b" ELSE "a")])
  /\ overlapped' = (overlapped \/ (program.tool # "ingest" /\ Translating # {}))
  /\ UNCHANGED <<tables, file, handoff, faults, unsaved>>

(* The rows an enrichment sets out on. *)
Candidates(mode) ==
  {p \in Parts : /\ products[p].cn \notin {None, Blank}
                 /\ IF mode = "fill" THEN products[p].en \in {None, Blank} /\ ~products[p].translated
                    ELSE ~products[p].verified}

(* The loop of enrich.ts passes over names of white space, and only counts  *)
(* them: so they are set aside here.  The gold mart is made by other        *)
(* processes; its rows have Chinese names.                                  *)
Load(s) ==
  /\ At(s, "load")
  /\ \/ /\ Tool(s) = "enrich"
        /\ LET found == {[part |-> p, cn |-> products[p].cn, en |-> products[p].en] :
                           p \in Candidates(process[s].program.mode)}
               asked == {c \in found : c.cn \notin Spaces}
           IN  Becomes(s, [process[s] EXCEPT !.step = "next", !.todo = asked, !.goal = asked,
                             !.skipped = Cardinality(found \ asked), !.answered = answers])
     \/ /\ Tool(s) = "mart"
        /\ Becomes(s, [process[s] EXCEPT !.step = "next", !.todo = process[s].program.rows])
  /\ UNCHANGED <<tables, file, handoff, planned, faults, history>>

-----------------------------------------------------------------------------
(* One candidate: the cache, the upstream, the audit row, the update.      *)

(* A reply is at hand; track-b's enrich only prints its findings. *)
Replied(p, c, reply) ==
  IF p.program.tool = "mart" THEN [p EXCEPT !.step = "next", !.todo = @ \ {c}, !.now = None]
  ELSE [p EXCEPT !.step = "record", !.todo = @ \ {c}, !.now = c, !.reply = reply]

Ask(s, c) ==
  /\ At(s, "next") /\ c \in process[s].todo
  /\ LET hit == process[s].index[Key(Track(s), c.cn)] IN
     Becomes(s, IF hit # None THEN Replied(process[s], c, hit)
                ELSE [process[s] EXCEPT !.step = "asked", !.now = c])
  /\ UNCHANGED <<tables, file, handoff, planned, faults, history>>

(* The upstream's answer: kept in memory, even if not in the file.         *)
Line(s, result) ==
  [key |-> Key(Track(s), process[s].now.cn), result |-> result, by |-> Track(s)]
Answered(s, result, memo) ==
  LET line == Line(s, result)
      kept == [process[s] EXCEPT !.index[line.key] = line, !.memo = memo]
  IN  /\ Becomes(s, Replied(kept, process[s].now, line))
      /\ \/ file' = Append(file, line) /\ UNCHANGED <<faults, unsaved>>
         \/ Fault /\ unsaved' = TRUE /\ UNCHANGED file

(* Mutant: a null is kept as well. *)
NotAnsweredKept(s, memo) == Answered(s, None, memo)

(* A null is passed on and not kept. *)
NotAnswered(s, memo) ==
  /\ Becomes(s, Replied([process[s] EXCEPT !.memo = memo], process[s].now, Line(s, None)))
  /\ UNCHANGED <<file, faults, unsaved>>

(* Ollama, Anthropic or the mock: an HTTP error is a null. *)
ModelReplies(s) ==
  /\ At(s, "asked") /\ process[s].program.upstream # "handoff"
  /\ \E result \in Replies[process[s].program.upstream][process[s].now.cn] :
       \/ result # None /\ Answered(s, result, None)
       \/ result = None /\ NotAnswered(s, None)
  /\ UNCHANGED <<tables, handoff, planned, overlapped>>

(* The handoff provider reads the results file once in its life; what is   *)
(* not in it becomes a task.                                               *)
HandoffReplies(s) ==
  /\ At(s, "asked") /\ process[s].program.upstream = "handoff"
  /\ LET cn   == process[s].now.cn
         seen == OrElse(process[s].memo, answers)
     IN  \/ /\ cn \in seen /\ UNCHANGED tasks
            /\ \E result \in Replies["handoff"][cn] : Answered(s, result, seen)
         \/ /\ cn \notin seen /\ tasks' = tasks \cup {cn}
            /\ NotAnswered(s, seen)
  /\ UNCHANGED <<tables, answers, planned, overlapped>>

(* The audit row names the prompt's version, which a line of Track B has    *)
(* under another name: the insert fails, and the process ends.             *)
RecordAudit(s) ==
  /\ At(s, "record")
  /\ LET p      == process[s]
         usable == p.reply.result \notin {None, Blank}
     IN  Becomes(s, IF p.reply.by = "b" THEN Idle
                    ELSE [p EXCEPT !.attempted = @ + 1,
                            !.step  = IF usable THEN "update" ELSE "next",
                            !.now   = IF usable THEN @ ELSE None,
                            !.reply = IF usable THEN @ ELSE None])
  /\ UNCHANGED <<tables, file, handoff, planned, faults, history>>

(* UPDATE ... WHERE id: whatever name the row has now. *)
Update(s) ==
  /\ At(s, "update")
  /\ LET p == process[s] IN
     /\ products' = [products EXCEPT ![p.now.part] =
          IF p.program.mode = "audit" THEN [@ EXCEPT !.verified = TRUE]
          ELSE [@ EXCEPT !.en = p.reply.result, !.translated = TRUE]]
     /\ Becomes(s, [p EXCEPT !.succeeded = @ + 1, !.step = "next", !.now = None,
                             !.reply = None])
  /\ UNCHANGED <<linked, file, handoff, planned, faults, history>>

-----------------------------------------------------------------------------
(* The ingest, for a workbook of one section.                              *)

(* upsertProduct: COALESCE keeps what the new row lacks. *)
Upserted(old, row) ==
  [old EXCEPT !.there = TRUE, !.cn = OrElse(row.cn, old.cn), !.en = OrElse(row.en, old.en)]

Counted(p, field) == [p EXCEPT !.attempted = @ + 1, ![field] = @ + 1, !.step = "row"]

Rows(s) == process[s].program.rows
IngestRow(s) ==
  /\ At(s, "row") /\ process[s].attempted < Len(Rows(s))
  /\ LET row == Rows(s)[process[s].attempted + 1]
         p   == process[s]
     IN  \/ /\ row.part # None
            /\ products' = [products EXCEPT ![row.part] = Upserted(@, row)]
            /\ Becomes(s, [Counted(p, "succeeded") EXCEPT
                             !.step = IF p.picture THEN "link" ELSE "row"])
            /\ UNCHANGED faults
         \/ /\ row.part = None
            /\ Becomes(s, Counted(p, "failed"))
            /\ UNCHANGED <<products, faults>>
         \/ /\ row.part # None /\ Fault
            /\ Becomes(s, Counted(p, "failed"))
            /\ UNCHANGED products
  /\ UNCHANGED <<linked, file, handoff, planned, history>>

(* Mutant: a link that fails is caught where it is made. *)
LinkRowCaught(s) ==
  /\ At(s, "link") /\ Goto(s, "row")
  /\ \/ linked' = linked \cup {Rows(s)[process[s].attempted].part} /\ UNCHANGED faults
     \/ Fault /\ UNCHANGED linked
  /\ UNCHANGED <<products, file, handoff, planned, history>>

(* A link that fails makes the row one that failed, as well. *)
LinkRow(s) ==
  /\ At(s, "link")
  /\ \/ /\ linked' = linked \cup {Rows(s)[process[s].attempted].part}
        /\ Goto(s, "row") /\ UNCHANGED faults
     \/ /\ Fault
        /\ Becomes(s, [process[s] EXCEPT !.failed = @ + 1, !.step = "row"])
        /\ UNCHANGED linked
  /\ UNCHANGED <<products, file, handoff, planned, history>>

-----------------------------------------------------------------------------
(* Ends.                                                                   *)

AtEnd(s) == \/ At(s, "next") /\ process[s].todo = {}
            \/ At(s, "row") /\ process[s].attempted = Len(Rows(s))

(* Mutant: rows that came to nothing are not counted. *)
StatusUncounted(p) == IF p.failed = 0 THEN "SUCCESS" ELSE "PARTIAL"

(* What was skipped was not attempted, and is added all the same.           *)
StatusOf(p) ==
  IF p.program.tool = "ingest" THEN IF p.failed = 0 THEN "SUCCESS" ELSE "PARTIAL"
  ELSE IF p.attempted = p.succeeded + p.skipped THEN "SUCCESS" ELSE "PARTIAL"

(* finaliseRun writes StatusOf to a row that no process reads.             *)
Finalise(s) ==
  /\ AtEnd(s)
  /\ Becomes(s, Idle)
  /\ UNCHANGED <<tables, file, handoff, planned, faults, history>>

(* A process is killed, or one of its statements throws. *)
Die(s) ==
  /\ ~At(s, "idle") /\ Fault
  /\ Becomes(s, Idle)
  /\ UNCHANGED <<tables, file, handoff, planned, history>>

OperatorAnswers(cn) ==
  /\ cn \in tasks \ answers
  /\ answers' = answers \cup {cn}
  /\ UNCHANGED <<tables, file, tasks, process, planned, faults, history>>

Proceed(s) ==
  \/ Load(s)
  \/ \E c \in process[s].todo : Ask(s, c)
  \/ ModelReplies(s) \/ HandoffReplies(s) \/ RecordAudit(s) \/ Update(s)
  \/ IngestRow(s) \/ LinkRow(s)
  \/ Finalise(s)

Next ==
  \/ \E s \in Slots : Proceed(s) \/ Die(s) \/ \E program \in Programs[s] : Start(s, program)
  \/ \E cn \in Chinese : OperatorAnswers(cn)

Fairness == \A s \in Slots : WF_vars(Proceed(s))

Spec == Init /\ [][Next]_vars /\ Fairness

-----------------------------------------------------------------------------
(* Properties.                                                             *)

RowsOf(p)       == {r \in UNION {ToSet(b) : b \in Workbooks} : r.part = p}
Translations(c) == (UNION {Replies[u][c] : u \in DOMAIN Replies}) \ {None, Blank}

(* Type invariant: the tables, the files and the processes. *)
TypeOK ==
  /\ \A p \in Parts : /\ products[p].cn \in Chinese \cup {None, Blank}
                      /\ {products[p].translated, products[p].verified} \subseteq BOOLEAN
  /\ linked \subseteq {p \in Parts : products[p].there}
  /\ answers \subseteq tasks /\ tasks \subseteq Chinese
  /\ \A i \in DOMAIN file : file[i].key \in Keys /\ file[i].result # None
  /\ faults \in 0 .. MaxFaults
  /\ \A s \in Slots : process[s].program \in Programs[s] \cup {NoProgram}

(* A product's English name is one a workbook gave it, or a translation    *)
(* of a Chinese name a workbook gave it, whoever asked for it, through     *)
(* whichever cache line or handoff file, and then the row says that it was *)
(* translated (cached.provider.ts:119-121, "collided every translate       *)
(* cache key"; enrich.ts:202-211).                                         *)
NamesAreOwn ==
  \A p \in Parts : products[p].en # None =>
    \/ \E r \in RowsOf(p) : products[p].en = r.en
    \/ /\ products[p].translated
       /\ \E r \in RowsOf(p) : r.cn \in Chinese /\ products[p].en \in Translations(r.cn)

(* A name that can only be a translation of c: no workbook has it as an    *)
(* English name, and it translates no other text.                          *)
Telling(c) ==
  /\ \A r \in UNION {ToSet(b) : b \in Workbooks} : r.en \notin Translations(c)
  /\ \A d \in Chinese \ {c} : Translations(d) \cap Translations(c) = {}

(* Products whose names are translations of one Chinese name have one name *)
(* (docs/TRACK_A.md 6.4, layer 3), if no two enrichments ran at once and   *)
(* every line was saved: an answer, once there, is everybody's.            *)
SameTextSameName ==
  ~overlapped /\ ~unsaved =>
    \A c \in Chinese, p, q \in Parts :
      {products[p].en, products[q].en} \subseteq Translations(c) /\ Telling(c)
        => products[p].en = products[q].en

(* An ingest that ends as SUCCESS has catalogued every row of its workbook, *)
(* and linked it if its section's picture was stored, whatever failed on    *)
(* the way and whatever ran beside it (ingest.ts:153-186, 199).             *)
IngestSuccessIsComplete ==
  \A s \in Slots :
    LET p == process[s] IN
    Tool(s) = "ingest" /\ AtEnd(s) /\ StatusOf(p) = "SUCCESS" =>
      \A r \in ToSet(p.program.rows) :
         r.part # None /\ products[r.part].there /\ (p.picture => r.part \in linked)

Done(p, c) == IF p.program.mode = "fill" THEN products[c.part].translated
              ELSE products[c.part].verified

(* An enrichment that skipped nothing and ends as SUCCESS has named, or     *)
(* verified, every candidate it loaded (enrich.ts:219-221).                 *)
EnrichSuccessIsComplete ==
  \A s \in Slots :
    LET p == process[s] IN
    Tool(s) = "enrich" /\ AtEnd(s) /\ p.skipped = 0 /\ StatusOf(p) = "SUCCESS" =>
      \A c \in p.goal : Done(p, c)

(* schema.ts:199 has SUCCESS for a run that did what it set out to do, and  *)
(* PARTIAL for one that did a part: whatever was skipped, every name that   *)
(* was asked for is there.                                                  *)
SuccessIsNotPartial ==
  \A s \in Slots :
    LET p == process[s] IN
    Tool(s) = "enrich" /\ AtEnd(s) /\ StatusOf(p) = "SUCCESS" => \A c \in p.goal : Done(p, c)

(* enrich.ts:52: "'fill' (default) translates rows with name_en NULL": it   *)
(* puts a name where there is none.                                         *)
FillsMissingNames ==
  [][\A s \in Slots :
       At(s, "update") /\ process'[s].step = "next" /\ process[s].program.mode = "fill" =>
         products[process[s].now.part].en \in {None, Blank}]_vars

(* A fill that the operator runs after he answered names every candidate   *)
(* he answered for: no null of an earlier run, or of another process, is    *)
(* served in place of his answer (cached.provider.ts:83-85, "caching it     *)
(* would freeze the pipeline").  An empty string is, as it is no null.      *)
AnswersAreUsed ==
  \A s \in Slots :
    AtEnd(s) /\ process[s].program = HandoffFill =>
      \A c \in process[s].goal :
        \/ products[c.part].translated
        \/ c.cn \notin process[s].answered
        \/ \E i \in DOMAIN file : file[i].result = Blank /\ file[i].key = Key("a", c.cn)

(* cached.py:3: "a cache entry written by Track A is found by Track B".    *)
CacheIsShared ==
  [][\A s \in Slots :
       At(s, "next") /\ process'[s].step = "asked" /\ Tool(s) = "mart" /\ ~overlapped =>
         \A i \in DOMAIN file : file[i].by = "b" \/ file[i].key.cn # process'[s].now.cn]_vars

=============================================================================
