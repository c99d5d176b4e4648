------------------------------ MODULE Medallion -------------------------------
(***************************************************************************)
(* The lakehouse of track-b-data-engineering: the Dagster assets bronze,   *)
(* silver, callouts and gold as Iceberg tables of one REST catalog, and    *)
(* the processes that write them: scripts/materialize_all.py, the ingest   *)
(* CLI with and without --dry-run, and scripts/iceberg_roundtrip.py, which *)
(* writes the gold table in a layout of its own.  Nothing keeps two of     *)
(* them from running at once; each call of the catalog is a step.          *)
(*                                                                         *)
(* A table is Absent or has an identity, columns, a snapshot and the rows  *)
(* of that snapshot.  A commit is optimistic: it holds if the table still  *)
(* is the one, at the snapshot, that the writer loaded.                    *)
(***************************************************************************)
EXTENDS Integers, Sequences, FiniteSets

CONSTANTS
  None,
  Runs,          \* processes
  Programs,      \* run -> the programs it may be
  Workbooks,     \* contents the default path may have
  Products,      \* workbook -> what parse_xlsx lists: [part, name, fitment]
  Archives,      \* workbook -> its media files [path, hash, ext], and the relationships
                 \* sheet -> drawings and drawing -> paths of media files
  Reference,     \* rows of Track A's reference, 3938 in the code
  MaxSaves, MaxKills  \* bounds: times the default file is replaced, processes killed

ASSUME MedallionAssumption ==
  /\ Programs \in [Runs -> SUBSET {"script", "cli", "dry", "roundtrip"}]
  /\ \A b \in Workbooks : /\ DOMAIN Products[b] = 1 .. Len(Products[b])
                          /\ Len(Products[b]) \in Nat \ {0}
  /\ {Reference, MaxSaves, MaxKills} \subseteq Nat

VARIABLES
  tables,    \* the catalog
  source,    \* the workbook at SourceXlsxResource.path
  run,       \* each process
  created,   \* tables created so far
  saves, kills,
  lone,      \* history: runs that nothing has run beside
  mixed,     \* history: two processes have run at once
  drifted    \* history: iceberg_roundtrip.py has created the gold table

store   == <<tables, created, drifted>>
history == <<lone, mixed>>
vars    == <<store, source, run, saves, kills, history>>

Assets == {"bronze", "silver", "callouts", "gold"}
Absent == [id |-> 0, cols |-> {}, snap |-> 0, rows |-> None]

(* The assets a program materialises, and what each of them waits for. *)
Plan(kind) == CASE kind = "script" -> Assets
                [] kind = "cli" -> Assets \ {"callouts"}
                [] kind = "dry" -> {"bronze"}
                [] kind = "roundtrip" -> {"gold"}
(* Mutant: gold waits for bronze only. *)
DependsOnBronze == [bronze |-> {}, silver |-> {"bronze"}, callouts |-> {"bronze"},
                    gold |-> {"bronze"}]
DependsOn == [bronze |-> {}, silver |-> {"bronze"}, callouts |-> {"bronze"},
              gold |-> {"silver"}]

(* The columns of a table as its writer lays it out. *)
Shared == {"part_number", "name_en", "name_cn", "spec_cn", "retail_price"}
AssetColumns(asset) ==
  CASE asset = "bronze" -> Shared \cup {"_dealer_id", "_source_xlsx", "_ingested_at",
                                        "fitment_json"}
    [] asset = "silver" -> Shared \cup {"_dealer_id", "_ingested_at"}
    [] asset = "gold" -> Shared \cup {"_dealer_id", "fitment", "_ingested_at"}
    [] asset = "callouts" -> {"image_sha256", "callouts_json"}
Columns(kind, asset) ==
  IF kind = "roundtrip" THEN Shared \cup {"fitment"} ELSE AssetColumns(asset)

-----------------------------------------------------------------------------
(* What the assets compute.                                                *)

(* Rows of the last appearance of each part, deduplicated with keep="last". *)
Last(rows) == {rows[i] : i \in {j \in DOMAIN rows :
                 \A k \in DOMAIN rows : k > j => rows[k].part # rows[j].part}}

SilverOf(bronze) == {[part |-> r.part, name |-> r.name] : r \in Last(bronze)}

(* The left join of silver with the fitments of bronze. *)
GoldOf(silver, bronze) ==
  {[part |-> s.part, name |-> s.name,
    fitment |-> IF \E b \in Last(bronze) : b.part = s.part
                THEN (CHOOSE b \in Last(bronze) : b.part = s.part).fitment
                ELSE None] : s \in silver}

(* to_arrow_table of the roundtrip: the last product of each part. *)
MartOf(book) == GoldOf(SilverOf(Products[book]), Products[book])

(* The sheets that show a media file; a drawing without relationships of   *)
(* its own shows none.                                                     *)
SheetsShowing(zip, path) ==
  {s \in DOMAIN zip.drawings :
     \E d \in zip.drawings[s] \cap DOMAIN zip.pictures : path \in zip.pictures[d]}

ImageTypes == {"png", "jpg", "jpeg", "gif", "webp"}

(* extract_unique_images: one row per content, however many files have it; *)
(* files that are no pictures are passed over.                             *)
Images(book) ==
  LET zip   == Archives[book]
      media == {m \in zip.media : m.ext \in ImageTypes}
  IN  {[image |-> h, sheets |-> UNION {SheetsShowing(zip, m.path) :
                                         m \in {n \in media : n.hash = h}}] :
        h \in {m.hash : m \in media}}

-----------------------------------------------------------------------------
(* Processes.                                                              *)

Waiting(kind) ==
  [kind |-> kind, step |-> "waiting", left |-> {}, asset |-> None, silver |-> None,
   rows |-> None, table |-> Absent]
Reset(r) == Waiting(run[r].kind)
Active(r) == run[r].step \notin {"waiting", "success", "failure", "killed"}

Init ==
  /\ tables = [a \in Assets |-> Absent] /\ created = 0
  /\ source \in Workbooks
  /\ \E kind \in [Runs -> UNION {Programs[r] : r \in Runs}] :
       /\ \A r \in Runs : kind[r] \in Programs[r]
       /\ run = [r \in Runs |-> Waiting(kind[r])]
  /\ saves = 0 /\ kills = 0
  /\ lone = {} /\ mixed = FALSE /\ drifted = FALSE

Start(r) ==
  /\ run[r].step = "waiting"
  /\ LET others == {q \in Runs : Active(q)} IN
     /\ lone' = IF others = {} THEN lone \cup {r} ELSE lone \ others
     /\ mixed' = (mixed \/ others # {})
  /\ run' = [run EXCEPT ![r].step = "next", ![r].left = Plan(run[r].kind)]
  /\ UNCHANGED <<store, source, saves, kills>>

(* The default file is saved again. *)
Save(b) ==
  /\ saves < MaxSaves /\ b # source
  /\ source' = b /\ saves' = saves + 1
  /\ lone' = {r \in lone : ~Active(r)}
  /\ UNCHANGED <<store, run, kills, mixed>>

Kill(r) ==
  /\ Active(r) /\ kills < MaxKills
  /\ kills' = kills + 1
  /\ run' = [run EXCEPT ![r] = [Reset(r) EXCEPT !.step = "killed"]]
  /\ UNCHANGED <<store, source, saves, history>>

Becomes(r, s) == run' = [run EXCEPT ![r] = s]
Ends(r, s)    == Becomes(r, [Reset(r) EXCEPT !.step = s])
Elsewhere     == UNCHANGED <<source, saves, kills, history>>

(* The step of the asset ends; materialize raises on the first that fails.  *)
Done(r)  == Becomes(r, [Reset(r) EXCEPT
              !.step = "next", !.left = run[r].left \ {run[r].asset},
              !.rows = IF run[r].kind = "roundtrip" THEN run[r].rows ELSE None])
Fails(r) == Ends(r, "failure")

Scans(r, a) ==
  LET from == IF a = "gold" /\ run[r].silver = None THEN "silver" ELSE "bronze"
      rows == tables[from].rows
      me   == [run[r] EXCEPT !.asset = a]
  IN  \/ tables[from] = Absent /\ Fails(r)
      \/ /\ tables[from] # Absent
         /\ Becomes(r, IF from = "silver" THEN [me EXCEPT !.step = "read", !.silver = rows]
                       ELSE [me EXCEPT !.step = "load", !.silver = None,
                               !.rows = IF a = "silver" THEN SilverOf(rows)
                                        ELSE GoldOf(run[r].silver, rows)])

(* The next asset: bronze parses the default file, whatever was given, as  *)
(* does the roundtrip; callouts asks its provider; silver scans bronze,    *)
(* and gold silver.                                                        *)
Begin(r, a) ==
  /\ run[r].step = "next" /\ a \in run[r].left
  /\ run[r].kind = "roundtrip" \/ DependsOn[a] \cap run[r].left = {}
  /\ LET parsed == [run[r] EXCEPT !.asset = a, !.step = "load"] IN
     CASE run[r].kind = "roundtrip" -> Becomes(r, [parsed EXCEPT !.rows = MartOf(source)])
       [] a = "bronze"          -> Becomes(r, [parsed EXCEPT !.rows = Products[source]])
       [] a = "callouts"        -> Becomes(r, [parsed EXCEPT !.rows = Images(source),
                                                             !.step = "ask"])
       [] OTHER                 -> Scans(r, a)
  /\ UNCHANGED store /\ Elsewhere

(* The provider may raise; without images nothing is written. *)
Answered(r) ==
  /\ run[r].step = "ask"
  /\ \/ Fails(r)
     \/ run[r].rows = {} /\ Done(r)
     \/ run[r].rows # {} /\ Becomes(r, [run[r] EXCEPT !.step = "load"])
  /\ UNCHANGED store /\ Elsewhere

(* Gold's second scan. *)
Read(r) == run[r].step = "read" /\ Scans(r, "gold") /\ UNCHANGED store /\ Elsewhere

-----------------------------------------------------------------------------
(* _overwrite_table and write_iceberg, one call of the catalog at a time.  *)

Goto(r, step) == Becomes(r, [run[r] EXCEPT !.step = step])
Writing(r) == tables[run[r].asset]
Stale(r) == <<Writing(r).id, Writing(r).snap>> # <<run[r].table.id, run[r].table.snap>>
EmptyRows(asset) == IF asset = "bronze" THEN << >> ELSE {}

(* Mutant: a table that has rows is taken for materialised. *)
LoadUnlessFilled(r) ==
  /\ run[r].step = "load"
  /\ \/ Writing(r) = Absent /\ Goto(r, "create")
     \/ /\ Writing(r) # Absent /\ Writing(r).rows = EmptyRows(run[r].asset)
        /\ Becomes(r, [run[r] EXCEPT !.step = "overwrite", !.table = Writing(r)])
     \/ Writing(r) # Absent /\ Writing(r).rows # EmptyRows(run[r].asset) /\ Done(r)
  /\ UNCHANGED store /\ Elsewhere

(* New columns raise ValueError before anything is sent: the assets drop    *)
(* the table, the roundtrip gives up.                                      *)
Load(r) ==
  /\ run[r].step = "load"
  /\ LET fits == Columns(run[r].kind, run[r].asset) \subseteq Writing(r).cols IN
     \/ Writing(r) = Absent /\ Goto(r, "create")
     \/ /\ Writing(r) # Absent /\ fits
        /\ Becomes(r, [run[r] EXCEPT !.step = "overwrite", !.table = Writing(r)])
     \/ Writing(r) # Absent /\ ~fits /\ run[r].kind # "roundtrip" /\ Goto(r, "drop")
     \/ Writing(r) # Absent /\ ~fits /\ run[r].kind = "roundtrip" /\ Fails(r)
  /\ UNCHANGED store /\ Elsewhere

Commit(r) ==
  /\ tables' = [tables EXCEPT ![run[r].asset].rows = run[r].rows,
                              ![run[r].asset].snap = Writing(r).snap + 1]
  /\ Done(r)

(* Mutant: the old rows are deleted in a commit of their own. *)
OverwriteTwice(r) ==
  /\ run[r].step = "overwrite"
  /\ \/ Writing(r) = Absent /\ Goto(r, "create") /\ UNCHANGED tables
     \/ Writing(r) # Absent /\ Stale(r) /\ Fails(r) /\ UNCHANGED tables
     \/ /\ Writing(r) # Absent /\ ~Stale(r)
        /\ tables' = [tables EXCEPT ![run[r].asset].rows = EmptyRows(run[r].asset),
                                    ![run[r].asset].snap = @ + 1]
        /\ Becomes(r, [run[r] EXCEPT !.step = "append", !.table.snap = @ + 1])
  /\ UNCHANGED <<created, drifted>> /\ Elsewhere
Overwrite(r) ==
  /\ run[r].step = "overwrite"
  /\ \/ Writing(r) = Absent /\ Goto(r, "create") /\ UNCHANGED tables
     \/ Writing(r) # Absent /\ Stale(r) /\ Fails(r) /\ UNCHANGED tables
     \/ Writing(r) # Absent /\ ~Stale(r) /\ Commit(r)
  /\ UNCHANGED <<created, drifted>> /\ Elsewhere

(* Whatever table has the name now is dropped. *)
Drop(r) ==
  /\ run[r].step = "drop"
  /\ Goto(r, IF Writing(r) = Absent THEN "create" ELSE "recreate")
  /\ tables' = [tables EXCEPT ![run[r].asset] = Absent]
  /\ UNCHANGED <<created, drifted>> /\ Elsewhere

Create(r) ==
  /\ run[r].step \in {"create", "recreate"}
  /\ LET a == run[r].asset
         new == [id |-> created + 1, cols |-> Columns(run[r].kind, a), snap |-> 0,
                 rows |-> EmptyRows(a)]
     IN  \/ Writing(r) # Absent /\ Fails(r) /\ UNCHANGED store
         \/ /\ Writing(r) = Absent
            /\ tables' = [tables EXCEPT ![a] = new] /\ created' = created + 1
            /\ drifted' = (drifted \/ run[r].kind = "roundtrip")
            /\ Becomes(r, [run[r] EXCEPT !.table = new,
                             !.step = IF run[r].step = "create" THEN "append" ELSE "reappend"])
  /\ Elsewhere

(* The append of a table recreated after a drop is inside the try whose    *)
(* NoSuchTableError creates it once more.                                  *)
AppendRows(r) ==
  /\ run[r].step \in {"append", "reappend"}
  /\ \/ /\ Writing(r) = Absent /\ run[r].step = "reappend"
        /\ Goto(r, "create") /\ UNCHANGED tables
     \/ Writing(r) = Absent /\ run[r].step = "append" /\ Fails(r) /\ UNCHANGED tables
     \/ Writing(r) # Absent /\ Stale(r) /\ Fails(r) /\ UNCHANGED tables
     \/ Writing(r) # Absent /\ ~Stale(r) /\ Commit(r)
  /\ UNCHANGED <<created, drifted>> /\ Elsewhere

-----------------------------------------------------------------------------
(* The end of a process: materialize_all.py reads silver and gold back and *)
(* checks them, the roundtrip reads gold back and counts it.               *)

Finish(r) ==
  /\ run[r].step = "next" /\ run[r].left = {}
  /\ IF run[r].kind \in {"script", "roundtrip"} THEN Goto(r, "check") ELSE Ends(r, "success")
  /\ UNCHANGED store /\ Elsewhere

(* The checks; a null fitment is not counted among the invalid ones, the   *)
(* comparison of a null being null.                                        *)
UniqueParts(silver) == \A s, t \in silver : s.part = t.part => s = t
Distance(m, n)  == IF m < n THEN n - m ELSE m - n
CountMatches(gold) == 100 * Distance(Cardinality(gold), Reference) <= Reference

Check(r) ==
  /\ run[r].step = "check"
  /\ LET from == IF run[r].kind = "script" /\ run[r].silver = None THEN "silver" ELSE "gold"
         rows == tables[from].rows
         holds == IF run[r].kind = "script" THEN UniqueParts(run[r].silver) /\ CountMatches(rows)
                  ELSE Cardinality(rows) = Cardinality(run[r].rows)
     IN  \/ tables[from] = Absent /\ Fails(r)
         \/ /\ tables[from] # Absent
            /\ IF from = "silver" THEN Becomes(r, [run[r] EXCEPT !.silver = rows])
               ELSE Ends(r, IF holds THEN "success" ELSE "failure")
  /\ UNCHANGED store /\ Elsewhere

Ended == \A r \in Runs : run[r].step \in {"success", "failure", "killed"}

Step(r) ==
  \/ Start(r)
  \/ \E a \in Assets : Begin(r, a)
  \/ Answered(r)
  \/ Read(r)
  \/ Load(r)
  \/ Overwrite(r)
  \/ Drop(r)
  \/ Create(r)
  \/ AppendRows(r)
  \/ Finish(r)
  \/ Check(r)

Next ==
  \/ \E r \in Runs : Step(r) \/ Kill(r)
  \/ \E b \in Workbooks : Save(b)
  \/ Ended /\ UNCHANGED vars

Spec == Init /\ [][Next]_vars

-----------------------------------------------------------------------------
(* Properties.                                                             *)

Versions == {Products[b] : b \in Workbooks}
Silvers  == {SilverOf(v) : v \in Versions}
Golds    == {GoldOf(s, v) : s \in Silvers, v \in Versions}
RowsOf   == [bronze |-> {<< >>} \cup Versions, silver |-> {{}} \cup Silvers,
             callouts |-> {{}} \cup {Images(b) : b \in Workbooks}, gold |-> {{}} \cup Golds]
HasRows(t, a) == t # Absent /\ t.rows # EmptyRows(a)
Steps    == {"waiting", "next", "ask", "read", "load", "overwrite", "drop", "create",
             "append", "recreate", "reappend", "check", "success", "failure", "killed"}

(* Type invariant: tables hold what their asset makes of some workbook, or nothing. *)
TypeOK ==
  /\ \A a \in Assets : \/ tables[a] = Absent
                       \/ /\ tables[a].id \in 1..created /\ tables[a].snap \in Nat
                          /\ tables[a].cols \in {Columns(k, a) : k \in {"cli", "roundtrip"}}
                          /\ tables[a].rows \in RowsOf[a]
  /\ source \in Workbooks /\ created \in Nat
  /\ saves \in 0..MaxSaves /\ kills \in 0..MaxKills
  /\ lone \subseteq Runs /\ {mixed, drifted} \subseteq BOOLEAN
  /\ \A r \in Runs : /\ run[r].step \in Steps
                     /\ run[r].kind \in Programs[r]
                     /\ run[r].left \subseteq Plan(run[r].kind)
                     /\ \/ run[r].asset = None
                        \/ /\ run[r].asset \in Plan(run[r].kind)
                           /\ run[r].rows \in {None} \cup RowsOf[run[r].asset]
                     /\ run[r].silver \in {None} \cup RowsOf.silver

(* A run that nothing ran beside, and whose workbook was not replaced      *)
(* meanwhile, leaves the tables of its plan equal to what it parsed,       *)
(* whatever earlier runs left when they failed or were killed half way     *)
(* (assets.py:62, "Idempotent: same input data -> same output table").     *)
(* Without images the callouts table is not written, and keeps its rows;   *)
(* with images it names every sheet that shows one, through any file.      *)
Pictured(zip) == {m \in zip.media : m.ext \in ImageTypes}
SheetsWith(zip, h) ==
  {s \in DOMAIN zip.drawings : \E m \in Pictured(zip), d \in zip.drawings[s] :
     m.hash = h /\ d \in DOMAIN zip.pictures /\ m.path \in zip.pictures[d]}
Expected(a, b) == CASE a = "bronze" -> Products[b]
                    [] a = "silver" -> SilverOf(Products[b])
                    [] a = "gold" -> MartOf(b)
                    [] a = "callouts" ->
                         {[image |-> m.hash, sheets |-> SheetsWith(Archives[b], m.hash)] :
                            m \in Pictured(Archives[b])}
LoneRunPublishes ==
  [][\A r \in lone : run[r].step # "success" /\ run'[r].step = "success" =>
       \A a \in Plan(run[r].kind) :
         Expected(a, source) # EmptyRows(a) => tables[a].rows = Expected(a, source)]_vars

(* Gold is never a blend: its parts are those of one parse, its fitments   *)
(* those of one parse, the same unless two processes have run at once      *)
(* (assets.py:319, silver and bronze are read one after the other).        *)
GoldIsOfOneParse ==
  HasRows(tables.gold, "gold") =>
    \E v, w \in Versions : tables.gold.rows = GoldOf(SilverOf(v), w) /\ (v = w \/ mixed)

(* What readers of a table see is replaced in one commit: once it has      *)
(* rows it is never absent or empty, unless iceberg_roundtrip.py has laid  *)
(* out gold with fewer columns, which makes the next run drop it           *)
(* (assets.py:76).                                                         *)
PublishedStays ==
  [][\A a \in Assets : HasRows(tables[a], a) =>
       HasRows(tables'[a], a) \/ (a = "gold" /\ drifted)]_vars

=============================================================================
