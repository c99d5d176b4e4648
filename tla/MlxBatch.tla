------------------------------- MODULE MlxBatch -------------------------------
(***************************************************************************)
(* The self-hosted OCR of src/shared/vision-mlx: pictures are extracted    *)
(* from the workbook, batch workers read a slice of them each (phase 1),   *)
(* phase 2 reads again what failed, phase 3 merges and grades, phase 4     *)
(* compares with the parts tables, and the integration upserts             *)
(* image_callouts.  The stages share nothing but JSON-lines files, are     *)
(* started by hand in any order, and any of them can be killed, also in    *)
(* the middle of a line.                                                   *)
(*                                                                         *)
(* A file holds the records that parse, one per picture, and `torn' when   *)
(* it ends in a line without newline: what is appended next continues      *)
(* that line, and neither parses.                                          *)
(***************************************************************************)
EXTENDS Integers, Sequences, FiniteSets, SequencesExt, Values

CONSTANTS
  Workers,        \* processes that run the vision model
  Workbook,       \* its sheets: [pictures |-> pictures in order, columns |-> cells]
  Readings,       \* phase -> picture -> what the model may answer, None if not JSON
  Splits,         \* numbers of slices the operator may choose for phase 1
  Splits2,        \* and for phase 2
  MaxStarts, MaxStages, MaxKills   \* bounds: workers, stages started; processes killed

ASSUME MlxBatchAssumption ==
  /\ Workbook \in Seq(ToSet(Workbook))
  /\ \A s \in DOMAIN Workbook : Workbook[s].pictures \in Seq(ToSet(Workbook[s].pictures))
  /\ Splits \cup Splits2 \subseteq 1..10
  /\ {MaxStarts, MaxStages, MaxKills} \subseteq Nat
  /\ None \notin Nat

VARIABLES
  out,       \* the files of phases 1 and 2
  worker,    \* each process: what it runs, the pictures it still has to read
  final,     \* mlx-vision-output-final.jsonl
  coverage,  \* mlx-vision-output-final-with-coverage.jsonl
  stage,     \* the process of phase 3, phase 4 or the integration, and what it has read
  callouts,  \* the table image_callouts
  starts, stages, kills,
  answered,  \* history: <<picture, phase, reading>> of every record that was written
  swallowed  \* history: <<file, picture>> whose record continued a torn line

files   == <<out, final, coverage>>
history == <<answered, swallowed>>
bounds  == <<starts, stages, kills>>
vars    == <<files, worker, stage, callouts, bounds, history>>

-----------------------------------------------------------------------------
(* The workbook.                                                           *)

(* What of a list is in a set, and what is at some places, in its order.   *)
Only(list, set) ==
  LET only[n \in 0..Len(list)] ==
        IF n = 0 THEN << >>
        ELSE IF list[n] \in set THEN Append(only[n - 1], list[n]) ELSE only[n - 1]
  IN  only[Len(list)]
AtPlaces(list, places) ==
  LET at == Only([i \in DOMAIN list |-> i], places)
  IN  [k \in DOMAIN at |-> list[at[k]]]

(* The files written by the extraction, in the order of their names: each  *)
(* picture at its first appearance.                                        *)
Appearances(book) == FlattenSeq([s \in DOMAIN book |-> book[s].pictures])
Extracted(book) ==
  LET shown == Appearances(book)
  IN  AtPlaces(shown, {i \in DOMAIN shown : \A j \in 1..(i - 1) : shown[j] # shown[i]})
Images   == Extracted(Workbook)
Pictures == ToSet(Images)

(* The manifest has a row for every appearance. *)
SheetsOf(p) == {s \in DOMAIN Workbook : Contains(Workbook[s].pictures, p)}

(* The callout numbers of a sheet: the first of its columns with the most  *)
(* numbers, if that has three.                                             *)
Numbers(column) == SelectSeq(column, LAMBDA v : v # None /\ v \in 1..999)
PartsTable(s) ==
  LET cols  == Workbook[s].columns
      best  == {c \in DOMAIN cols : /\ Len(Numbers(cols[c])) >= 3
                  /\ \A d \in DOMAIN cols : \/ Len(Numbers(cols[d])) < Len(Numbers(cols[c]))
                                            \/ Len(Numbers(cols[d])) = Len(Numbers(cols[c]))
                                               /\ c <= d}
  IN  UNION {ToSet(Numbers(cols[c])) : c \in best}
PartsOf(p) == UNION {PartsTable(s) : s \in SheetsOf(p)}

-----------------------------------------------------------------------------
(* Grades.  A reading is JSON: a list of callouts [n, pos], or not a list. *)

Ranks == [dead |-> 0, low |-> 1, medium |-> 2, high |-> 3]
ValidPos == {"top-left", "top", "top-right", "center-left", "center", "center-right",
             "bottom-left", "bottom", "bottom-right"}

Layer3(reading) ==
  LET items == reading.items
      at(pos) == Cardinality({i \in DOMAIN items : items[i].pos = pos})
  IN  IF ~reading.list THEN {"not_a_list"}
      ELSE IF items = << >> THEN {"empty_list"}
      ELSE {w \in {"duplicate_n", "pos_hallucination", "invalid_pos", "bad_n_values"} :
        CASE w = "duplicate_n" -> \E i, j \in DOMAIN items :
                                    i # j /\ items[i].n = items[j].n /\ items[i].n # None
          [] w = "pos_hallucination" -> /\ Len(items) >= 10
                                        /\ \E i \in DOMAIN items :
                                             10 * at(items[i].pos) >= 9 * Len(items)
          [] w = "invalid_pos" -> \E i \in DOMAIN items :
                                    items[i].pos \notin ValidPos \cup {None}
          [] w = "bad_n_values" -> \E i \in DOMAIN items :
                                     items[i].n = None \/ items[i].n <= 0}

(* assign_confidence of a picture whose phase 1 or phase 2 succeeded. *)
Confidence(phase, reading) ==
  LET warnings == Layer3(reading)
      count    == IF reading.list THEN Len(reading.items) ELSE 0
      grave    == \/ Cardinality(warnings) >= 2
                  \/ phase = 1 /\ "pos_hallucination" \in warnings
      clean    == phase = 1 /\ warnings = {} /\ count >= 3
  IN  IF grave THEN "low" ELSE IF clean THEN "high" ELSE "medium"

Found(row) == IF row.reading = None \/ ~row.reading.list THEN {}
              ELSE {row.reading.items[i].n : i \in DOMAIN row.reading.items} \ {None}

(* Mutant: a high precision makes a high grade. *)
AdjustedUp(row, parts) ==
  LET found   == Found(row)
      matched == Cardinality(found \cap parts)
      total   == Cardinality(found)
  IN  IF row.tier = "dead" \/ parts = {} \/ found = {} THEN row.tier
      ELSE IF 10 * matched < 7 * total THEN "low"
      ELSE IF 10 * matched >= 9 * total THEN "high"
      ELSE IF row.tier = "high" THEN "medium" ELSE row.tier

(* adjust_confidence: precision is |found \cap parts| / |found|, and none   *)
(* if either is empty.                                                     *)
Adjusted(row, parts) ==
  LET found   == Found(row)
      matched == Cardinality(found \cap parts)
      total   == Cardinality(found)
  IN  IF row.tier = "dead" \/ parts = {} \/ found = {} THEN row.tier
      ELSE IF 10 * matched < 7 * total THEN "low"
      ELSE IF 10 * matched < 9 * total /\ row.tier = "high" THEN "medium"
      ELSE row.tier

-----------------------------------------------------------------------------
(* Files and processes.                                                    *)

Unsliced == 10                   \* mlx-vision-output.jsonl, which no glob finds
Refined  == 20                   \* mlx-vision-output-phase2.jsonl; 21.. are its slices
Slices   == 0..9                 \* mlx-vision-output.[0-9].jsonl
Names    == {Unsliced, Refined} \cup (UNION {0..(n - 1) : n \in Splits})
              \cup (UNION {(Refined + 1)..(Refined + n) : n \in Splits2})
Phase(f) == IF f < Refined THEN 1 ELSE 2

Empty == [recs |-> {}, torn |-> FALSE]
Unwritten == [there |-> FALSE, rows |-> {}, torn |-> FALSE]
Idle  == [file |-> None, idx |-> 0, total |-> 1, resume |-> FALSE, todo |-> << >>]
NoStage == [step |-> "idle", rows |-> {}]

Init ==
  /\ out = [f \in Names |-> Empty]
  /\ worker = [w \in Workers |-> Idle]
  /\ final = Unwritten /\ coverage = Unwritten
  /\ stage = NoStage /\ callouts = {}
  /\ starts = 0 /\ stages = 0 /\ kills = 0
  /\ answered = {} /\ swallowed = {}

Slice(list, idx, total) == AtPlaces(list, {i \in DOMAIN list : (i - 1) % total = idx})

(* Mutant: only what was read well is skipped by --resume. *)
RecordedRead(f) == {r.picture : r \in {s \in out[f].recs : s.reading # None}}
Recorded(f) == {r.picture : r \in out[f].recs}

(* Mutant: the file is cut also when it is resumed. *)
StartBatchCut(w, idx, total, resume) ==
  /\ worker[w] = Idle /\ starts < MaxStarts
  /\ LET f    == IF total > 1 THEN idx ELSE Unsliced
         done == IF resume THEN Recorded(f) ELSE {}
         todo == Only(Slice(Images, idx, total), Pictures \ done)
     IN  /\ \A v \in Workers : worker[v].file # f
         /\ worker' = [worker EXCEPT ![w] =
              IF todo = << >> THEN Idle
              ELSE [file |-> f, idx |-> idx, total |-> total, resume |-> resume,
                    todo |-> todo]]
         /\ out' = [out EXCEPT ![f] = Empty]
  /\ starts' = starts + 1
  /\ UNCHANGED <<final, coverage, stage, callouts, stages, kills, history>>

(* Batch workers.  With --resume the pictures that have a record, be it an *)
(* error, are skipped and the file is appended to; without, it is cut.     *)
StartBatch(w, idx, total, resume) ==
  /\ worker[w] = Idle /\ starts < MaxStarts
  /\ LET f    == IF total > 1 THEN idx ELSE Unsliced
         done == IF resume THEN Recorded(f) ELSE {}
         todo == Only(Slice(Images, idx, total), Pictures \ done)
     IN  /\ \A v \in Workers : worker[v].file # f
         /\ worker' = [worker EXCEPT ![w] =
              IF todo = << >> THEN Idle
              ELSE [file |-> f, idx |-> idx, total |-> total, resume |-> resume,
                    todo |-> todo]]
         /\ out' = IF resume THEN out ELSE [out EXCEPT ![f] = Empty]
  /\ starts' = starts + 1
  /\ UNCHANGED <<final, coverage, stage, callouts, stages, kills, history>>

(* Phase 2 reads again the failures of the sliced files, and the pictures  *)
(* with no record in any; its own file is always cut.                      *)
Phase1Files == Names \cap Slices
Succeeded == {r.picture : r \in {s \in UNION {out[f].recs : f \in Phase1Files} :
                                   s.reading # None}}
Failed    == {r.picture : r \in {s \in UNION {out[f].recs : f \in Phase1Files} :
                                   s.reading = None}}
(* Mutant: only the failures are read again. *)
ToRefineFailed == Only(Images, Failed)
ToRefine  == Only(Images, Failed \cup (Pictures \ Succeeded))

StartPhase2(w, idx, total) ==
  /\ worker[w] = Idle /\ starts < MaxStarts
  /\ LET f == IF total > 1 THEN Refined + 1 + idx ELSE Refined
         todo == Slice(ToRefine, idx, total)
     IN  /\ todo # << >>
         /\ \A v \in Workers : worker[v].file # f
         /\ worker' = [worker EXCEPT ![w] = [file |-> f, idx |-> idx, total |-> total,
                                             resume |-> FALSE, todo |-> todo]]
         /\ out' = [out EXCEPT ![f] = Empty]
  /\ starts' = starts + 1
  /\ UNCHANGED <<final, coverage, stage, callouts, stages, kills, history>>

(* One picture is read and its record appended; the last one ends the      *)
(* process.                                                                *)
Next1(w) == IF Len(worker[w].todo) = 1 THEN Idle
            ELSE [worker[w] EXCEPT !.todo = Tail(@)]
Record(w, reading) ==
  LET f == worker[w].file
      p == Head(worker[w].todo)
  IN  /\ worker[w] # Idle
      /\ reading \in Readings[Phase(f)][p]
      /\ answered' = answered \cup {<<p, Phase(f), reading>>}
      /\ \/ /\ out[f].torn
            /\ out' = [out EXCEPT ![f].torn = FALSE]
            /\ swallowed' = swallowed \cup {<<f, p>>}
         \/ /\ ~out[f].torn
            /\ out' = [out EXCEPT ![f].recs = @ \cup {[picture |-> p, reading |-> reading]}]
            /\ swallowed' = swallowed \ {<<f, p>>}
      /\ worker' = [worker EXCEPT ![w] = Next1(w)]
      /\ UNCHANGED <<final, coverage, stage, callouts, bounds>>

(* A worker dies between two records, or while one is written. *)
KillWorker(w) ==
  /\ worker[w] # Idle /\ kills < MaxKills
  /\ kills' = kills + 1
  /\ worker' = [worker EXCEPT ![w] = Idle]
  /\ out' \in {out, [out EXCEPT ![worker[w].file].torn = TRUE]}
  /\ UNCHANGED <<final, coverage, stage, callouts, starts, stages, history>>

-----------------------------------------------------------------------------
(* Stages: each reads its input as a whole and later writes its output.    *)

Begin(step, rows) ==
  /\ stage = NoStage /\ stages < MaxStages
  /\ stage' = [step |-> step, rows |-> rows] /\ stages' = stages + 1
  /\ UNCHANGED <<files, worker, callouts, starts, kills, history>>

Ends == stage' = NoStage /\ UNCHANGED <<worker, starts, stages, history>>

(* load_phase1: of the records of a picture that of the last file counts. *)
Merged == {r \in UNION {out[f].recs : f \in Phase1Files} :
             \E f \in Phase1Files : /\ r \in out[f].recs
                                    /\ \A g \in Phase1Files : g > f =>
                                         r.picture \notin Recorded(g)}
LoadPhase1 == Begin("phase3", Merged)

(* A record of phase 1 is kept, unless it failed and phase 2 did not. *)
Verified(r) ==
  LET again == {q \in out[Refined].recs : q.picture = r.picture /\ q.reading # None}
      row(reading, tier) == [picture |-> r.picture, reading |-> reading, tier |-> tier]
  IN  CASE r.reading # None -> row(r.reading, Confidence(1, r.reading))
        [] r.reading = None /\ again # {} ->
             LET q == CHOOSE q \in again : TRUE IN row(q.reading, Confidence(2, q.reading))
        [] OTHER -> row(None, "dead")

Written(rows) == [there |-> TRUE, rows |-> rows, torn |-> FALSE]

Phase3 ==
  /\ stage.step = "phase3"
  /\ final' = Written({Verified(r) : r \in stage.rows})
  /\ Ends /\ UNCHANGED <<out, coverage, callouts, kills>>

(* json.loads raises on a torn line, so that a torn input ends the stage   *)
(* before it has written anything.                                         *)
LoadFinal == final.there /\ ~final.torn /\ Begin("phase4", final.rows)
Phase4 ==
  /\ stage.step = "phase4"
  /\ coverage' = Written({[r EXCEPT !.tier = Adjusted(r, PartsOf(r.picture))] : r \in stage.rows})
  /\ Ends /\ UNCHANGED <<out, final, callouts, kills>>

(* The file of phase 4 is preferred whatever its age. *)
LoadGraded ==
  LET input == IF coverage.there THEN coverage ELSE final
  IN  input.there /\ ~input.torn /\ Begin("integrate", input.rows)

Integrate ==
  /\ stage.step = "integrate"
  /\ LET row(r) == [picture |-> r.picture,
                    reading |-> IF r.reading # None /\ r.reading.list THEN r.reading ELSE None,
                    tier |-> IF r.tier = "dead" THEN "low" ELSE r.tier]
         kept == {c \in callouts : \A r \in stage.rows : r.picture # c.picture}
     IN  callouts' = kept \cup {row(r) : r \in stage.rows}
  /\ Ends /\ UNCHANGED <<files, kills>>

(* A stage dies before it writes, or half way through its file, of which   *)
(* nothing is read if it ends in a torn line; the upserts are one          *)
(* transaction.                                                            *)
Cut(rows) == {Written(part) : part \in SUBSET rows}
               \cup {[there |-> TRUE, rows |-> {}, torn |-> TRUE]}
KillStage ==
  /\ stage # NoStage /\ kills < MaxKills
  /\ kills' = kills + 1
  /\ \/ UNCHANGED <<final, coverage>>
     \/ /\ stage.step = "phase3"
        /\ final' \in Cut({Verified(r) : r \in stage.rows}) /\ UNCHANGED coverage
     \/ /\ stage.step = "phase4"
        /\ coverage' \in Cut({[r EXCEPT !.tier = Adjusted(r, PartsOf(r.picture))] :
                                r \in stage.rows})
        /\ UNCHANGED final
  /\ Ends /\ UNCHANGED <<out, callouts>>

WorkerStep(w) ==
  \/ \E total \in Splits, resume \in BOOLEAN : \E idx \in 0..(total - 1) :
       StartBatch(w, idx, total, resume)
  \/ \E total \in Splits2 : \E idx \in 0..(total - 1) : StartPhase2(w, idx, total)
  \/ \E reading \in UNION {Readings[ph][p] : ph \in 1..2, p \in Pictures} : Record(w, reading)
  \/ KillWorker(w)

StageStep == LoadPhase1 \/ Phase3 \/ LoadFinal \/ Phase4 \/ LoadGraded \/ Integrate \/ KillStage

Next == (\E w \in Workers : WorkerStep(w)) \/ StageStep

Spec == Init /\ [][Next]_vars

-----------------------------------------------------------------------------
(* Properties.                                                             *)

Rows(tiers) == [picture : Pictures, tier : tiers,
                reading : {None} \cup UNION {Readings[ph][p] : ph \in 1..2, p \in Pictures}]

(* Type invariant. *)
TypeOK ==
  /\ \A f \in Names : /\ out[f].torn \in BOOLEAN
                      /\ \A r \in out[f].recs : r.picture \in Pictures
  /\ \A w \in Workers : \/ worker[w] = Idle
                        \/ worker[w].file \in Names /\ worker[w].todo # << >>
  /\ final.rows \cup coverage.rows \subseteq Rows(DOMAIN Ranks)
  /\ callouts \subseteq Rows(DOMAIN Ranks \ {"dead"})

(* However often a slice is killed and resumed, whoever reads beside it    *)
(* and whatever passes came before, a file has one record of a picture,    *)
(* and so every output one row of it: an error that was recorded is not    *)
(* answered a second time in the same file (batch_vision_ocr.py:67-80).    *)
OneOfEach ==
  /\ \A f \in Names : \A r, s \in out[f].recs : r.picture = s.picture => r = s
  /\ \A rows \in {final.rows, coverage.rows, callouts} :
       \A r, s \in rows : r.picture = s.picture => r = s

(* A batch worker that ends, after however many deaths and --resume, has   *)
(* left a record of every picture of its slice, but for those whose record *)
(* continued a line torn by a death (batch_vision_ocr.py:98, the filter    *)
(* and the append mode together).                                          *)
FinishedSliceIsComplete ==
  [][\A w \in Workers :
       LET f == worker[w].file IN
       /\ worker[w] # Idle /\ worker'[w] = Idle /\ kills' = kills
       /\ Phase(f) = 1
       => \A p \in ToSet(Slice(Images, worker[w].idx, worker[w].total)) :
            p \in {r.picture : r \in out'[f].recs} \/ <<f, p>> \in swallowed']_vars

(* What a finished phase 2 has no record of was read well in phase 1: no   *)
(* failure and no picture of a dead worker is forgotten                    *)
(* (phase2_refine.py:14-17).                                               *)
RefinedOrRead ==
  [][\A w \in Workers :
       /\ worker[w].file = Refined /\ worker'[w] = Idle /\ kills' = kills
       => \A p \in Pictures : \/ p \in {r.picture : r \in out'[Refined].recs}
                              \/ \E a \in answered : a[1] = p /\ a[2] = 1 /\ a[3] # None]_vars

(* Whatever was killed, cut, read again or left over from an earlier pass, *)
(* a row of any output carries callouts the model did answer for its       *)
(* picture, under a grade no better than the checks gave that answer       *)
(* (phase4_coverage.py:25, "Do NOT use precision to UPGRADE"); a row       *)
(* without callouts is never high.                                         *)
NoGradeIsRaised ==
  \A r \in final.rows \cup coverage.rows \cup callouts :
    \/ r.reading = None /\ r.tier # "high"
    \/ \E a \in answered : /\ a[1] = r.picture /\ a[3] = r.reading
                           /\ Ranks[r.tier] <= Ranks[Confidence(a[2], a[3])]

(* Phase 3 says it merges phase 1 and phase 2 (phase3_verify.py:8), and    *)
(* phase 2 reads pictures no phase 1 file has (phase2_refine.py:16): what  *)
(* it recovered is in the merged file.                                     *)
RecoveredIsMerged ==
  [][stage.step = "phase3" /\ stage' = NoStage /\ kills' = kills =>
       \A q \in out[Refined].recs :
         q.reading # None => \E r \in final'.rows : r.picture = q.picture]_vars

=============================================================================
