--------------------------- MODULE MedallionProofs ---------------------------
(***************************************************************************)
(* Theorems about the medallion tables for any number of processes,        *)
(* workbooks and kills: gold is of one parse unless processes ran at once, *)
(* a table that has rows is never found absent or empty, a run alone       *)
(* publishes its parse, and the state is well typed.                       *)
(***************************************************************************)
EXTENDS Medallion, TLAPS

Kinds == {"script", "cli", "dry", "roundtrip"}
Calls == {Images(b) : b \in Workbooks}

-----------------------------------------------------------------------------
(* Data and layout.                                                         *)

(* A parse has a last row, and a part of it is in silver and in gold. *)
LEMMA ParsesHaveRows ==
  ASSUME NEW v \in Versions
  PROVE  v # << >> /\ SilverOf(v) # {}
<1>1. DOMAIN v = 1 .. Len(v) /\ Len(v) \in Nat \ {0}
  BY MedallionAssumption DEF Versions
<1>2. Len(v) \in DOMAIN v /\ \A k \in DOMAIN v : ~(k > Len(v))
  BY <1>1
<1>3. v[Len(v)] \in Last(v)
  BY <1>2 DEF Last
<1>4. v # << >>
  BY <1>2
<1>5. [part |-> v[Len(v)].part, name |-> v[Len(v)].name] \in SilverOf(v)
  BY <1>3 DEF SilverOf
<1>6. QED
  BY <1>4, <1>5

LEMMA GoldHasRows ==
  ASSUME NEW s \in Silvers, NEW v  PROVE s # {} /\ GoldOf(s, v) # {}
<1>1. s # {}
  BY ParsesHaveRows DEF Silvers
<1>2. PICK t \in s : TRUE
  BY <1>1
<1>3. [part |-> t.part, name |-> t.name,
       fitment |-> IF \E b \in Last(v) : b.part = t.part
                   THEN (CHOOSE b \in Last(v) : b.part = t.part).fitment
                   ELSE None] \in GoldOf(s, v)
  BY <1>2, Zenon DEF GoldOf
<1>4. QED
  BY <1>1, <1>3

LEMMA PlanLemma ==
  ASSUME NEW k \in Kinds
  PROVE  /\ Plan(k) \subseteq Assets
         /\ k = "roundtrip" => Plan(k) = {"gold"}
         /\ k # "roundtrip" => "bronze" \in Plan(k)
BY DEF Kinds, Plan, Assets

LEMMA LayoutLemma ==
  ASSUME NEW k \in Kinds, NEW a \in Assets
  PROVE  /\ k # "roundtrip" => Columns(k, a) = Columns("cli", a)
         /\ Columns("roundtrip", "gold") \subseteq Columns("cli", "gold")
<1>1. Columns("roundtrip", "gold") \subseteq Columns("cli", "gold")
  BY DEF Columns, AssetColumns, Shared
<1>2. k # "roundtrip" => Columns(k, a) = Columns("cli", a)
  BY DEF Columns
<1>3. QED
  BY <1>1, <1>2

-----------------------------------------------------------------------------
(* The inductive invariant.                                                 *)

Layouts == {{}} \cup {Columns(k, a) : k \in Kinds, a \in Assets}

AnyTable == [id : Nat, cols : Layouts, snap : Nat,
             rows : {None, {}, << >>} \cup Versions \cup Silvers \cup Calls \cup Golds]

RunRecord == [kind : Kinds, step : Steps, left : SUBSET Assets, asset : Assets \cup {None},
              silver : {None, {}} \cup Silvers,
              rows : {None, {}} \cup Versions \cup Silvers \cup Calls \cup Golds,
              table : AnyTable]

Writes == {"load", "overwrite", "drop", "create", "append", "recreate", "reappend"}
Busy   == Writes \cup {"ask", "read"}

Moving(x) == x.step \notin {"waiting", "success", "failure", "killed"}

GoldRows(rows) ==
  \E v, w \in Versions : rows = GoldOf(SilverOf(v), w) /\ (v = w \/ mixed)

(* Rows that a table may be overwritten with. *)
Ready(a, rows) == /\ a = "bronze" => rows \in Versions
                  /\ a = "silver" => rows \in Silvers
                  /\ a = "callouts" => rows \in Calls \ {{}}
                  /\ a = "gold" => GoldRows(rows)

TableInv(a) ==
  \/ tables[a] = Absent
  \/ /\ tables[a] \in AnyTable /\ tables[a].id # 0
     /\ \/ tables[a].cols = Columns("cli", a)
        \/ a = "gold" /\ drifted /\ tables[a].cols = Columns("roundtrip", a)
     /\ tables[a].rows = EmptyRows(a) \/ Ready(a, tables[a].rows)

Bronze == tables["bronze"].rows

(* A run that is past an asset finds it filled, and while it is alone finds *)
(* silver made of bronze as it is.                                          *)
Passed(x) ==
  /\ "bronze" \notin x.left => HasRows(tables["bronze"], "bronze")
  /\ "silver" \in Plan(x.kind) \ x.left =>
       /\ "bronze" \notin x.left /\ HasRows(tables["silver"], "silver")
       /\ ~mixed => tables["silver"].rows = SilverOf(Bronze)
  /\ ~mixed /\ x.step \in Writes /\ x.asset = "silver" => x.rows = SilverOf(Bronze)
  /\ ~mixed /\ x.step = "read" => x.silver = SilverOf(Bronze)

RunInv(x) ==
  /\ x.left \subseteq Plan(x.kind)
  /\ x.step \in {"waiting", "next"} => x.silver = None
  /\ x.step \in Busy => /\ x.asset \in x.left
                        /\ x.kind = "roundtrip" \/ DependsOn[x.asset] \cap x.left = {}
  /\ x.step = "ask" => x.asset = "callouts" /\ x.rows \in Calls
  /\ x.step = "read" => x.asset = "gold" /\ x.kind # "roundtrip" /\ x.silver \in Silvers
  /\ x.step \in Writes => Ready(x.asset, x.rows)
  /\ x.step \in {"drop", "recreate", "reappend"} => x.asset = "gold" /\ drifted
  /\ x.step \in Busy \cup {"next"} /\ x.kind # "roundtrip" => Passed(x)

MInv == /\ tables \in [Assets -> AnyTable] /\ run \in [Runs -> RunRecord]
        /\ source \in Workbooks /\ created \in Nat /\ mixed \in BOOLEAN /\ drifted \in BOOLEAN
        /\ \A a \in Assets : TableInv(a)
        /\ \A r \in Runs : RunInv(run[r])
        /\ ~mixed => \A q, r \in Runs : Moving(run[q]) /\ Moving(run[r]) => q = r

(* What a step does to the tables: it takes no rows away but gold's. *)
Kept == \A a \in Assets : HasRows(tables[a], a) =>
          HasRows(tables'[a], a) \/ (a = "gold" /\ drifted)

(* A run other than the one that steps. *)
LEMMA OthersKept ==
  ASSUME MInv, Kept, NEW x \in RunRecord, RunInv(x), mixed => mixed', drifted => drifted',
         ~mixed' /\ Moving(x) => tables' = tables
  PROVE  RunInv(x)'
<1>1. Ready(x.asset, x.rows) => Ready(x.asset, x.rows)'
  BY DEF Ready, GoldRows
<1>2. CASE x.step \in Busy \cup {"next"} /\ x.kind # "roundtrip"
  <2>1. Passed(x) /\ Moving(x)
    BY <1>2 DEF RunInv, Moving, Busy, Writes
  <2>2. /\ HasRows(tables["bronze"], "bronze") => HasRows(tables["bronze"], "bronze")'
        /\ HasRows(tables["silver"], "silver") => HasRows(tables["silver"], "silver")'
    BY DEF Kept, Assets, HasRows
  <2>3. Passed(x)'
    BY <2>1, <2>2 DEF Passed, Bronze
  <2>4. QED
    BY <1>1, <2>3 DEF RunInv
<1>3. QED
  BY <1>1, <1>2 DEF RunInv

LEMMA StepLemma ==
  ASSUME MInv, Kept, NEW r \in Runs, NEW y \in RunRecord, run' = [run EXCEPT ![r] = y],
         RunInv(y)', tables' \in [Assets -> AnyTable], \A a \in Assets : TableInv(a)',
         source' \in Workbooks, created' \in Nat, mixed' \in BOOLEAN, drifted' \in BOOLEAN,
         mixed => mixed', drifted => drifted', tables' = tables \/ Moving(run[r]),
         ~mixed' /\ Moving(y) => \A q \in Runs \ {r} : ~Moving(run[q])
  PROVE  MInv'
<1>1. run \in [Runs -> RunRecord] /\ run' \in [Runs -> RunRecord] /\ run'[r] = y
      /\ \A q \in Runs \ {r} : run'[q] = run[q]
  BY DEF MInv
<1>2. ASSUME NEW q \in Runs \ {r}  PROVE RunInv(run[q])'
  <2>1. PICK x \in RunRecord : x = run[q] /\ x = run'[q]
    BY <1>1
  <2>2. ~mixed' /\ Moving(x) => tables' = tables
    BY <2>1 DEF MInv
  <2>3. RunInv(x)'
    BY <2>1, <2>2, OthersKept DEF MInv
  <2>4. QED
    BY <2>1, <2>3 DEF RunInv, Passed
<1>3. RunInv(run[r])'
  BY <1>1 DEF RunInv, Passed
<1>4. \A q \in Runs : RunInv(run[q])'
  BY <1>2, <1>3
<1>5. ~mixed' => \A q, t \in Runs : Moving(run'[q]) /\ Moving(run'[t]) => q = t
  BY <1>1 DEF MInv
<1>6. (~mixed => \A q, t \in Runs : Moving(run[q]) /\ Moving(run[t]) => q = t)'
  BY <1>5 DEF Moving
<1>7. QED
  BY <1>1, <1>4, <1>6 DEF MInv

LEMMA SameKept == UNCHANGED tables => Kept
BY DEF Kept, HasRows

(* A step of a process that leaves the tables alone. *)
LEMMA QuietStep ==
  ASSUME MInv, NEW r \in Runs, Moving(run[r]), NEW y \in RunRecord,
         run' = [run EXCEPT ![r] = y], RunInv(y),
         UNCHANGED <<tables, source, created, mixed, drifted>>
  PROVE  MInv'
<1>1. RunInv(y)' /\ \A a \in Assets : TableInv(a)'
  BY DEF MInv, RunInv, Passed, Ready, GoldRows, TableInv, Bronze
<1>2. Kept
  BY DEF Kept, HasRows
<1>3. ~mixed' => \A q \in Runs \ {r} : ~Moving(run[q])
  BY DEF MInv
<1>4. QED
  BY <1>1, <1>2, <1>3, StepLemma DEF MInv

LEMMA EndsKeeps ==
  ASSUME MInv, NEW r \in Runs, Moving(run[r]), NEW s \in {"success", "failure", "killed"},
         Ends(r, s), UNCHANGED <<tables, source, created, mixed, drifted>>
  PROVE  MInv'
<1> DEFINE y == [Reset(r) EXCEPT !.step = s]
<1>1. y = [kind |-> run[r].kind, step |-> s, left |-> {}, asset |-> None, silver |-> None,
           rows |-> None, table |-> Absent] /\ run[r] \in RunRecord
  BY SMTT(30) DEF MInv, Reset, Waiting
<1>2. y \in RunRecord
  BY <1>1 DEF RunRecord, Steps, AnyTable, Layouts, Absent
<1>3. RunInv(y)
  BY <1>1 DEF RunInv, Busy, Writes
<1>4. run' = [run EXCEPT ![r] = y]
  BY DEF Ends, Becomes
<1>5. QED
  BY <1>2, <1>3, <1>4, QuietStep

LEMMA FailsKeeps ==
  ASSUME MInv, NEW r \in Runs, Moving(run[r]), Fails(r),
         UNCHANGED <<tables, source, created, mixed, drifted>>
  PROVE  MInv'
BY EndsKeeps DEF Fails

(* Only the step of the process changes, within the asset it is writing. *)
LEMMA GotoKeeps ==
  ASSUME MInv, NEW r \in Runs, run[r].step \in Writes, NEW step \in Writes, NEW t \in AnyTable,
         run' = [run EXCEPT ![r] = [run[r] EXCEPT !.step = step, !.table = t]],
         step \in {"drop", "recreate", "reappend"} => run[r].asset = "gold" /\ drifted,
         UNCHANGED <<tables, source, created, mixed, drifted>>
  PROVE  MInv'
<1> DEFINE y == [run[r] EXCEPT !.step = step, !.table = t]
<1>1. run[r] \in RunRecord /\ RunInv(run[r])
  BY DEF MInv
<1>2. y \in RunRecord /\ y.kind = run[r].kind /\ y.step = step /\ y.left = run[r].left
      /\ y.asset = run[r].asset /\ y.silver = run[r].silver /\ y.rows = run[r].rows
  BY ZenonT(30), <1>1 DEF RunRecord, Writes, Steps
<1>3. RunInv(y)
  BY <1>1, <1>2 DEF RunInv, Passed, Busy, Writes
<1>4. QED
  BY <1>2, <1>3, QuietStep DEF Moving, Writes

(* Goto without a new table. *)
LEMMA GotoWrites ==
  ASSUME MInv, NEW r \in Runs, run[r].step \in Writes, NEW step \in Writes, Goto(r, step),
         step \in {"drop", "recreate", "reappend"} => run[r].asset = "gold" /\ drifted,
         UNCHANGED <<tables, source, created, mixed, drifted>>
  PROVE  MInv'
<1> DEFINE y == [run[r] EXCEPT !.step = step]
<1>1. run[r] \in RunRecord /\ RunInv(run[r])
  BY DEF MInv
<1>2. y \in RunRecord /\ y.kind = run[r].kind /\ y.step = step /\ y.left = run[r].left
      /\ y.asset = run[r].asset /\ y.silver = run[r].silver /\ y.rows = run[r].rows
  BY <1>1 DEF RunRecord, Writes, Steps
<1>3. RunInv(y)
  BY <1>1, <1>2 DEF RunInv, Passed, Busy, Writes
<1>4. run' = [run EXCEPT ![r] = y]
  BY DEF Goto, Becomes
<1>5. QED
  BY <1>2, <1>3, <1>4, QuietStep DEF Moving, Writes

(* What a busy run writes, and what it has passed. *)
LEMMA BusyLemma ==
  ASSUME MInv, NEW r \in Runs, run[r].step \in Busy
  PROVE  /\ run[r] \in RunRecord /\ RunInv(run[r]) /\ Moving(run[r])
         /\ run[r].asset \in Assets /\ run[r].asset \in run[r].left
         /\ run[r].kind = "roundtrip" => run[r].asset = "gold"
         /\ run[r].kind # "roundtrip" => /\ Passed(run[r])
                                         /\ DependsOn[run[r].asset] \cap run[r].left = {}
<1>1. run[r] \in RunRecord /\ RunInv(run[r])
  BY DEF MInv
<1>2. run[r].kind \in Kinds /\ run[r].left \subseteq Plan(run[r].kind)
      /\ run[r].asset \in run[r].left
  BY <1>1 DEF RunRecord, RunInv
<1>3. run[r].asset \in Assets
  BY <1>2, PlanLemma
<1>4. QED
  BY <1>1, <1>2, <1>3, PlanLemma DEF RunInv, Moving, Busy, Writes

RowValues == {None, {}} \cup Versions \cup Silvers \cup Calls \cup Golds

LEMMA DependsLemma ==
  /\ DependsOn["silver"] = {"bronze"} /\ DependsOn["gold"] = {"silver"}
BY DEF DependsOn

(* A run whose asset is filled goes on to the next. *)
LEMMA DoneLemma ==
  ASSUME MInv, NEW r \in Runs, run[r].step \in Busy, Done(r), Kept,
         UNCHANGED mixed, drifted => drifted',
         \/ run[r].asset = "callouts"
         \/ run[r].step \in Writes /\ HasRows(tables'[run[r].asset], run[r].asset)
              /\ tables'[run[r].asset].rows = run[r].rows,
         \A a \in Assets \ {run[r].asset} : tables'[a] = tables[a]
  PROVE  \E y \in RunRecord : run' = [run EXCEPT ![r] = y] /\ RunInv(y)'
<1> DEFINE x == run[r]
<1> DEFINE rows == IF x.kind = "roundtrip" THEN x.rows ELSE None
<1> DEFINE y == [Reset(r) EXCEPT !.step = "next", !.left = x.left \ {x.asset}, !.rows = rows]
<1>1. run' = [run EXCEPT ![r] = y]
  BY DEF Done, Becomes
<1>5. PICK k \in Kinds, left \in SUBSET Assets, a \in Assets :
         k = x.kind /\ left = x.left /\ a = x.asset
  BY BusyLemma DEF RunRecord
<1>0. PICK z : z = y
  OBVIOUS
<1>6. /\ z \in RunRecord /\ z.kind = k /\ z.step = "next" /\ z.left = left \ {a}
      /\ z.asset = None /\ z.silver = None
  <2>1. rows \in RowValues
    BY BusyLemma DEF RunRecord, RowValues
  <2>2. y = [Waiting(k) EXCEPT !.step = "next", !.left = left \ {a}, !.rows = rows]
    BY <1>5 DEF Reset
  <2>3. PICK w \in RowValues, rest \in SUBSET Assets : w = rows /\ rest = left \ {a}
    BY <1>5, <2>1
  <2>4. z = [Waiting(k) EXCEPT !.step = "next", !.left = rest, !.rows = w]
    BY <1>0, <2>2, <2>3
  <2>5. Absent \in AnyTable
    BY DEF Absent, AnyTable, Layouts
  <2>6. QED
    BY <1>5, <2>3, <2>4, <2>5 DEF Waiting, RunRecord, RowValues, Steps
<1>7. left \subseteq Plan(k)
  BY <1>5, BusyLemma DEF RunInv
<1>8. ASSUME k # "roundtrip"
      PROVE  /\ "bronze" \notin left \ {a} => HasRows(tables'["bronze"], "bronze")
             /\ "silver" \in Plan(k) \ (left \ {a}) =>
                  /\ "bronze" \notin left \ {a} /\ HasRows(tables'["silver"], "silver")
                  /\ ~mixed => tables'["silver"].rows = SilverOf(tables'["bronze"].rows)
  <2>1. Passed(x) /\ a \in left /\ DependsOn[a] \cap left = {}
    BY <1>5, <1>8, BusyLemma
  <2>2. CASE a = "bronze"
    BY <1>5, <2>1, <2>2 DEF Passed
  <2>3. CASE a = "silver"
    <3>1. "bronze" \notin left /\ tables'["bronze"] = tables["bronze"]
      BY <1>5, <2>1, <2>3, DependsLemma DEF Assets
    <3>2. ~mixed => x.rows = SilverOf(Bronze)
      BY <1>5, <2>1, <2>3 DEF Passed
    <3>3. QED
      BY <1>5, <2>1, <2>3, <3>1, <3>2 DEF Passed, Bronze
  <2>4. CASE a \notin {"bronze", "silver"}
    <3>1. tables'["bronze"] = tables["bronze"] /\ tables'["silver"] = tables["silver"]
      BY <1>5, <2>4 DEF Assets
    <3>2. QED
      BY <1>5, <2>1, <2>4, <3>1 DEF Passed, Bronze
  <2>5. QED
    BY <2>2, <2>3, <2>4
<1>10. RunInv(z)'
  BY <1>5, <1>6, <1>7, <1>8 DEF RunInv, Passed, Busy, Writes, Bronze
<1>11. QED
  BY <1>0, <1>1, <1>6, <1>10

-----------------------------------------------------------------------------
(* Calls of the catalog.                                                    *)

LEMMA ReadyHasRows ==
  ASSUME NEW a \in Assets, NEW rows, Ready(a, rows)  PROVE rows # EmptyRows(a)
<1>1. CASE a = "gold"
  <2>1. PICK v, w \in Versions : rows = GoldOf(SilverOf(v), w)
    BY <1>1 DEF Ready, GoldRows
  <2>2. rows # {}
    BY <2>1, GoldHasRows DEF Silvers
  <2>3. QED
    BY <1>1, <2>2 DEF EmptyRows
<1>2. CASE a = "bronze"
  BY <1>2, ParsesHaveRows DEF Ready, EmptyRows
<1>3. CASE a = "silver"
  <2>1. rows \in Silvers
    BY <1>3 DEF Ready
  <2>2. rows # {}
    BY <2>1, ParsesHaveRows DEF Silvers
  <2>3. QED
    BY <1>3, <2>2 DEF EmptyRows
<1>4. CASE a = "callouts"
  BY <1>4 DEF Ready, EmptyRows
<1>5. QED
  BY <1>1, <1>2, <1>3, <1>4 DEF Assets

LEMMA ReadyTyped ==
  ASSUME NEW a \in Assets, NEW rows, Ready(a, rows)
  PROVE  rows \in Versions \cup Silvers \cup Calls \cup Golds
BY DEF Ready, GoldRows, Golds, Silvers, Assets

LEMMA CommitKeeps ==
  ASSUME MInv, NEW r \in Runs, run[r].step \in Writes, Writing(r) # Absent, Commit(r),
         UNCHANGED <<source, created, mixed, drifted>>
  PROVE  MInv' /\ Kept
<1>1. PICK a \in Assets : a = run[r].asset
  BY BusyLemma DEF Busy
<1>2. run[r].step \in Busy /\ RunInv(run[r]) /\ Moving(run[r])
  BY BusyLemma DEF Busy
<1>3. PICK rows \in Versions \cup Silvers \cup Calls \cup Golds :
        rows = run[r].rows /\ Ready(a, rows) /\ rows # EmptyRows(a)
  BY <1>1, <1>2, ReadyHasRows, ReadyTyped DEF RunInv
<1>4. tables[a] # Absent /\ tables[a] \in AnyTable /\ TableInv(a) /\ tables[a].id # 0
      /\ tables \in [Assets -> AnyTable]
  BY <1>1 DEF Writing, MInv, TableInv
<1>5. tables' = [tables EXCEPT ![a].rows = rows, ![a].snap = tables[a].snap + 1]
  BY <1>1, <1>3 DEF Commit, Writing
<1>6. /\ tables'[a] \in AnyTable /\ tables'[a].rows = rows
      /\ tables'[a].id = tables[a].id /\ tables'[a].cols = tables[a].cols
      /\ \A b \in Assets \ {a} : tables'[b] = tables[b]
      /\ tables' \in [Assets -> AnyTable]
  BY <1>3, <1>4, <1>5 DEF AnyTable
<1>7. tables'[a] # Absent
  BY <1>4, <1>6 DEF Absent
<1>8. HasRows(tables'[a], a)
  BY <1>3, <1>6, <1>7 DEF HasRows
<1>9. Kept
  BY <1>6, <1>8 DEF Kept, HasRows
<1>10. TableInv(a)'
  BY <1>3, <1>4, <1>6 DEF TableInv, Ready, GoldRows
<1>11. \A b \in Assets : TableInv(b)'
  BY <1>6, <1>10 DEF MInv, TableInv, Ready, GoldRows
<1>12. PICK y \in RunRecord : run' = [run EXCEPT ![r] = y] /\ RunInv(y)'
  BY <1>1, <1>2, <1>3, <1>6, <1>8, <1>9, DoneLemma DEF Commit
<1>13. ~mixed' => \A q \in Runs \ {r} : ~Moving(run[q])
  BY <1>2 DEF MInv
<1>14. QED
  BY <1>2, <1>6, <1>9, <1>11, <1>12, <1>13, StepLemma DEF MInv

LEMMA OverwriteKeeps ==
  ASSUME MInv, NEW r \in Runs, Overwrite(r)  PROVE MInv' /\ Kept
<1>1. run[r].step \in Writes /\ run[r].step \in Busy
      /\ UNCHANGED <<source, created, mixed, drifted>>
  BY DEF Overwrite, Writes, Busy, Elsewhere, history
<1>2. CASE Goto(r, "create") /\ UNCHANGED tables
  BY <1>1, <1>2, SameKept, GotoWrites DEF Writes
<1>3. CASE Fails(r) /\ UNCHANGED tables
  BY <1>1, <1>3, SameKept, BusyLemma, FailsKeeps
<1>4. CASE Writing(r) # Absent /\ Commit(r)
  BY <1>1, <1>4, CommitKeeps
<1>5. QED
  BY <1>2, <1>3, <1>4 DEF Overwrite

LEMMA AppendKeeps ==
  ASSUME MInv, NEW r \in Runs, AppendRows(r)  PROVE MInv' /\ Kept
<1>1. run[r].step \in Writes /\ run[r].step \in Busy
      /\ UNCHANGED <<source, created, mixed, drifted>>
  BY DEF AppendRows, Writes, Busy, Elsewhere, history
<1>2. CASE Goto(r, "create") /\ UNCHANGED tables
  BY <1>1, <1>2, SameKept, GotoWrites DEF Writes
<1>3. CASE Fails(r) /\ UNCHANGED tables
  BY <1>1, <1>3, SameKept, BusyLemma, FailsKeeps
<1>4. CASE Writing(r) # Absent /\ Commit(r)
  BY <1>1, <1>4, CommitKeeps
<1>5. QED
  BY <1>2, <1>3, <1>4 DEF AppendRows

(* Only gold can be laid out otherwise than its writer wants it. *)
LEMMA LoadKeeps ==
  ASSUME MInv, NEW r \in Runs, Load(r)  PROVE MInv' /\ Kept
<1>1. run[r].step \in Writes /\ run[r].step \in Busy
      /\ UNCHANGED <<tables, source, created, mixed, drifted>>
  BY DEF Load, Writes, Busy, Elsewhere, store, history
<1>2. CASE Goto(r, "create")
  BY <1>1, <1>2, SameKept, GotoWrites DEF Writes
<1>3. CASE Fails(r)
  BY <1>1, <1>3, SameKept, BusyLemma, FailsKeeps
<1>4. CASE Becomes(r, [run[r] EXCEPT !.step = "overwrite", !.table = Writing(r)])
  <2>1. Writing(r) \in AnyTable
    BY <1>1, BusyLemma DEF Writing, MInv
  <2>2. QED
    BY <1>1, <1>4, <2>1, SameKept, GotoKeeps DEF Becomes, Writes
<1>5. CASE /\ Writing(r) # Absent /\ run[r].kind # "roundtrip" /\ Goto(r, "drop")
           /\ ~(Columns(run[r].kind, run[r].asset) \subseteq Writing(r).cols)
  <2>1. run[r].asset \in Assets /\ run[r].kind \in Kinds
    BY <1>1, BusyLemma DEF RunRecord
  <2>2. Columns(run[r].kind, run[r].asset) = Columns("cli", run[r].asset)
    BY <1>5, <2>1, LayoutLemma
  <2>3. run[r].asset = "gold" /\ drifted
    BY <1>5, <2>1, <2>2 DEF Writing, MInv, TableInv
  <2>4. QED
    BY <1>1, <1>5, <2>3, SameKept, GotoWrites DEF Writes
<1>6. QED
  BY <1>1, <1>2, <1>3, <1>4, <1>5, SameKept DEF Load

LEMMA DropKeeps ==
  ASSUME MInv, NEW r \in Runs, Drop(r)  PROVE MInv' /\ Kept
<1>1. run[r].step = "drop" /\ run[r].step \in Busy /\ run[r].step \in Writes
      /\ UNCHANGED <<source, created, mixed, drifted>>
  BY DEF Drop, Writes, Busy, Elsewhere, history
<1>2. /\ run[r] \in RunRecord /\ RunInv(run[r]) /\ Moving(run[r])
      /\ run[r].asset = "gold" /\ drifted
  BY <1>1, BusyLemma DEF RunInv
<1>3. Absent \in AnyTable /\ "gold" \in Assets /\ tables \in [Assets -> AnyTable]
  BY DEF Absent, AnyTable, Layouts, Assets, MInv
<1>4. tables' = [tables EXCEPT !["gold"] = Absent]
  BY <1>2 DEF Drop
<1>5. /\ tables' \in [Assets -> AnyTable] /\ tables'["gold"] = Absent
      /\ \A b \in Assets \ {"gold"} : tables'[b] = tables[b]
  BY <1>3, <1>4
<1>6. Kept
  BY <1>1, <1>2, <1>5 DEF Kept, HasRows
<1>7. \A b \in Assets : TableInv(b)'
  BY <1>1, <1>5 DEF MInv, TableInv, Ready, GoldRows
<1>8. PICK step \in {"create", "recreate"} : Goto(r, step)
  BY DEF Drop
<1> DEFINE y == [run[r] EXCEPT !.step = step]
<1>9. y \in RunRecord /\ y.kind = run[r].kind /\ y.step = step /\ y.left = run[r].left
      /\ y.asset = run[r].asset /\ y.silver = run[r].silver /\ y.rows = run[r].rows
  BY <1>2, <1>8 DEF RunRecord, Steps
<1>10. PICK z \in RunRecord : z = y
  BY <1>9
<1>11. tables'["bronze"] = tables["bronze"] /\ tables'["silver"] = tables["silver"]
  BY <1>5 DEF Assets
<1>12. RunInv(z)
  BY <1>1, <1>2, <1>9, <1>10 DEF RunInv, Passed, Busy, Writes
<1>13. RunInv(z)'
  BY <1>1, <1>11, <1>12 DEF RunInv, Passed, Ready, GoldRows, Bronze
<1>14. run' = [run EXCEPT ![r] = z]
  BY <1>8, <1>10 DEF Goto, Becomes
<1>15. ~mixed' => \A q \in Runs \ {r} : ~Moving(run[q])
  BY <1>1, <1>2 DEF MInv
<1>16. source' \in Workbooks /\ created' \in Nat /\ mixed' \in BOOLEAN /\ drifted' \in BOOLEAN
       /\ (mixed => mixed') /\ (drifted => drifted')
  BY <1>1 DEF MInv
<1>17. QED
  BY <1>2, <1>5, <1>6, <1>7, <1>10, <1>13, <1>14, <1>15, <1>16, StepLemma

LEMMA CreateKeeps ==
  ASSUME MInv, NEW r \in Runs, Create(r)  PROVE MInv' /\ Kept
<1>1. /\ run[r].step \in {"create", "recreate"} /\ run[r].step \in Busy
      /\ run[r].step \in Writes /\ UNCHANGED <<source, mixed>>
  BY DEF Create, Writes, Busy, Elsewhere, history
<1>2. /\ run[r] \in RunRecord /\ RunInv(run[r]) /\ Moving(run[r])
      /\ run[r].asset \in Assets /\ run[r].kind \in Kinds
      /\ run[r].kind = "roundtrip" => run[r].asset = "gold"
  BY <1>1, BusyLemma DEF RunRecord
<1>3. CASE Fails(r) /\ UNCHANGED store
  BY <1>1, <1>2, <1>3, SameKept, FailsKeeps DEF store
<1>4. CASE ~(Fails(r) /\ UNCHANGED store)
  <2>1. PICK a \in Assets : a = run[r].asset
    BY <1>2
  <2> DEFINE new == [id |-> created + 1, cols |-> Columns(run[r].kind, a), snap |-> 0,
                     rows |-> EmptyRows(a)]
  <2> DEFINE step == IF run[r].step = "create" THEN "append" ELSE "reappend"
  <2> DEFINE y == [run[r] EXCEPT !.table = new, !.step = step]
  <2>2. /\ tables[a] = Absent /\ tables' = [tables EXCEPT ![a] = new]
        /\ created' = created + 1 /\ drifted' = (drifted \/ run[r].kind = "roundtrip")
        /\ run' = [run EXCEPT ![r] = y]
    BY <1>4, <2>1 DEF Create, Writing, Becomes
  <2>3. Columns(run[r].kind, a) \in Layouts /\ EmptyRows(a) \in {{}, << >>}
    BY <1>2, <2>1 DEF Layouts, EmptyRows
  <2>4. new \in AnyTable /\ new.id # 0 /\ new.rows = EmptyRows(a)
        /\ new.cols = Columns(run[r].kind, a)
    BY <2>3 DEF AnyTable, MInv
  <2>5. PICK n \in AnyTable : n = new
    BY <2>4
  <2>6. /\ tables' \in [Assets -> AnyTable] /\ tables'[a] = n
        /\ \A b \in Assets \ {a} : tables'[b] = tables[b]
    BY <2>2, <2>5 DEF MInv
  <2>7. Kept
    BY <2>2, <2>6 DEF Kept, HasRows
  <2>8. TableInv(a)'
    <3>1. CASE run[r].kind = "roundtrip"
      BY <1>2, <2>1, <2>2, <2>4, <2>5, <2>6, <3>1 DEF TableInv
    <3>2. CASE run[r].kind # "roundtrip"
      BY <1>2, <2>1, <2>4, <2>5, <2>6, <3>2, LayoutLemma DEF TableInv
    <3>3. QED
      BY <3>1, <3>2
  <2>9. \A b \in Assets : TableInv(b)'
    BY <1>1, <2>2, <2>6, <2>8 DEF MInv, TableInv, Ready, GoldRows
  <2>10. /\ y \in RunRecord /\ y.kind = run[r].kind /\ y.step = step /\ y.left = run[r].left
         /\ y.asset = run[r].asset /\ y.silver = run[r].silver /\ y.rows = run[r].rows
    <3>1. y = [run[r] EXCEPT !.table = n, !.step = step] /\ step \in Steps
      BY <2>5 DEF Steps
    <3>2. QED
      BY <1>2, <2>5, <3>1 DEF RunRecord
  <2>11. PICK z \in RunRecord : z = y
    BY <2>10
  <2>12. RunInv(z)
    BY <1>1, <1>2, <2>10, <2>11 DEF RunInv, Passed, Busy, Writes
  <2>13. ~mixed' => \A q \in Runs \ {r} : ~Moving(run[q])
    BY <1>1, <1>2 DEF MInv
  <2>14. Passed(z) => Passed(z)'
    <3>1. z.asset = a /\ a \in z.left /\ z.step # "read"
      BY <1>1, <1>2, <2>1, <2>10, <2>11 DEF RunInv
    <3>2. CASE a = "bronze"
      BY <1>1, <2>6, <3>1, <3>2 DEF Passed, Bronze, Assets, Writes
    <3>3. CASE a = "silver"
      <4>1. tables'["bronze"] = tables["bronze"]
        BY <2>6, <3>3 DEF Assets
      <4>2. QED
        BY <1>1, <3>1, <3>3, <4>1 DEF Passed, Bronze
    <3>4. CASE a \notin {"bronze", "silver"}
      <4>1. tables'["bronze"] = tables["bronze"] /\ tables'["silver"] = tables["silver"]
        BY <2>6, <3>4 DEF Assets
      <4>2. QED
        BY <1>1, <4>1 DEF Passed, Bronze
    <3>5. QED
      BY <3>2, <3>3, <3>4
  <2>15. RunInv(z)'
    BY <1>1, <2>2, <2>12, <2>14 DEF RunInv, Ready, GoldRows
  <2>16. source' \in Workbooks /\ created' \in Nat /\ mixed' \in BOOLEAN /\ drifted' \in BOOLEAN
         /\ (mixed => mixed') /\ (drifted => drifted')
    BY <1>1, <2>2 DEF MInv
  <2>17. QED
    BY <1>2, <2>2, <2>6, <2>7, <2>9, <2>11, <2>13, <2>15, <2>16, StepLemma
<1>5. QED
  BY <1>3, <1>4

-----------------------------------------------------------------------------
(* Steps between the calls that write.                                      *)

LEMMA StartKeeps ==
  ASSUME MInv, NEW r \in Runs, Start(r)  PROVE MInv'
<1> DEFINE y == [run[r] EXCEPT !.step = "next", !.left = Plan(run[r].kind)]
<1>1. run[r] \in RunRecord /\ RunInv(run[r]) /\ run[r].step = "waiting"
  BY DEF Start, MInv
<1>2. run[r].kind \in Kinds
  BY <1>1 DEF RunRecord
<1>3. Plan(run[r].kind) \in SUBSET Assets
  BY <1>2, PlanLemma
<1>4. y \in RunRecord /\ y.kind = run[r].kind /\ y.step = "next" /\ y.left = Plan(run[r].kind)
      /\ y.silver = run[r].silver
  BY <1>1, <1>3 DEF RunRecord, Steps
<1>5. PICK z \in RunRecord : z = y
  BY <1>4
<1>6. z.silver = None
  BY <1>1, <1>4, <1>5 DEF RunInv
<1>7. z.kind # "roundtrip" => "bronze" \in z.left
  BY <1>2, <1>4, <1>5, PlanLemma
<1>8. RunInv(z)'
  BY <1>4, <1>5, <1>6, <1>7 DEF RunInv, Passed, Busy, Writes
<1>9. UNCHANGED <<tables, source, created, drifted>> /\ (mixed => mixed') /\ mixed' \in BOOLEAN
      /\ run' = [run EXCEPT ![r] = z]
  BY <1>5 DEF Start, store, MInv
<1>10. ~mixed' => \A q \in Runs \ {r} : ~Moving(run[q])
  BY DEF Start, Active, Moving
<1>11. \A a \in Assets : TableInv(a)'
  BY <1>9 DEF MInv, TableInv, Ready, GoldRows
<1>12. Kept
  BY <1>9, SameKept
<1>13. QED
  BY <1>8, <1>9, <1>10, <1>11, <1>12, StepLemma DEF MInv

LEMMA KillKeeps ==
  ASSUME MInv, NEW r \in Runs, Kill(r)  PROVE MInv'
<1>1. Moving(run[r]) /\ UNCHANGED <<tables, source, created, mixed, drifted>>
  BY DEF Kill, Active, Moving, store, history
<1>2. Ends(r, "killed")
  BY DEF Kill, Ends, Becomes
<1>3. QED
  BY <1>1, <1>2, EndsKeeps

(* Nothing that the invariant is about moves. *)
LEMMA SameKeeps ==
  ASSUME MInv, source' \in Workbooks, UNCHANGED <<tables, run, created, mixed, drifted>>
  PROVE  MInv'
<1>1. \A r \in Runs : RunInv(run[r])'
  BY DEF MInv, RunInv, Passed, Ready, GoldRows, Bronze
<1>2. \A a \in Assets : TableInv(a)'
  BY DEF MInv, TableInv, Ready, GoldRows
<1>3. (~mixed => \A q, r \in Runs : Moving(run[q]) /\ Moving(run[r]) => q = r)'
  BY DEF MInv, Moving
<1>4. QED
  BY <1>1, <1>2, <1>3 DEF MInv

(* What a run that is past an asset reads of it. *)
LEMMA FilledRows ==
  ASSUME MInv
  PROVE  /\ HasRows(tables["bronze"], "bronze") => Bronze \in Versions
         /\ HasRows(tables["silver"], "silver") => tables["silver"].rows \in Silvers
<1>1. TableInv("bronze") /\ TableInv("silver")
  BY DEF MInv, Assets
<1>2. QED
  BY <1>1 DEF TableInv, HasRows, Ready, Bronze

LEMMA ScansKeeps ==
  ASSUME MInv, NEW r \in Runs, NEW a \in {"silver", "gold"}, Moving(run[r]),
         run[r] \in RunRecord, run[r].kind # "roundtrip", a \in run[r].left,
         run[r].left \subseteq Plan(run[r].kind), Passed(run[r]),
         DependsOn[a] \cap run[r].left = {}, Scans(r, a),
         \/ run[r].step = "next" /\ run[r].silver = None
         \/ run[r].step = "read" /\ run[r].silver \in Silvers /\ a = "gold"
              /\ (~mixed => run[r].silver = SilverOf(Bronze)),
         UNCHANGED <<tables, source, created, mixed, drifted>>
  PROVE  MInv'
<1> DEFINE x == run[r]
<1>1. x.kind \in Kinds
  BY DEF RunRecord
<1>2. a = "gold" => "silver" \in Plan(x.kind) \ x.left
  BY <1>1, DependsLemma DEF Kinds, Plan, Assets
<1>3. "bronze" \notin x.left
  BY <1>2, DependsLemma DEF Passed
<1>4. Bronze \in Versions /\ HasRows(tables["bronze"], "bronze")
  BY <1>3, FilledRows DEF Passed
<1>5. a = "gold" => /\ tables["silver"].rows \in Silvers
                    /\ ~mixed => tables["silver"].rows = SilverOf(Bronze)
  BY <1>2, FilledRows DEF Passed
<1>6. CASE Fails(r)
  BY <1>6, FailsKeeps
<1>7. CASE /\ a = "gold"
           /\ Becomes(r, [x EXCEPT !.asset = a, !.step = "read", !.silver = tables["silver"].rows])
  <2> DEFINE y == [x EXCEPT !.asset = a, !.step = "read", !.silver = tables["silver"].rows]
  <2>1. y \in RunRecord /\ y.kind = x.kind /\ y.step = "read" /\ y.left = x.left
        /\ y.asset = "gold" /\ y.silver = tables["silver"].rows /\ y.rows = x.rows
    BY <1>5, <1>7 DEF RunRecord, Steps, Assets
  <2>2. PICK z \in RunRecord : z = y
    BY <2>1
  <2>3. Passed(z)
    BY <1>5, <1>7, <2>1, <2>2 DEF Passed, Writes
  <2>4. RunInv(z)
    BY <1>5, <1>7, <2>1, <2>2, <2>3 DEF RunInv, Busy, Writes
  <2>5. QED
    BY <1>7, <2>2, <2>4, QuietStep DEF Becomes
<1>8. CASE /\ a = "silver"
           /\ Becomes(r, [x EXCEPT !.asset = a, !.step = "load", !.silver = None,
                                   !.rows = SilverOf(Bronze)])
  <2> DEFINE y == [x EXCEPT !.asset = a, !.step = "load", !.silver = None,
                            !.rows = SilverOf(Bronze)]
  <2>1. SilverOf(Bronze) \in Silvers
    BY <1>4 DEF Silvers
  <2>2. PICK rows \in Silvers : rows = SilverOf(Bronze)
    BY <2>1
  <2>3. y = [x EXCEPT !.asset = a, !.step = "load", !.silver = None, !.rows = rows]
    BY <2>2
  <2>4. y \in RunRecord /\ y.kind = x.kind /\ y.step = "load" /\ y.left = x.left
        /\ y.asset = "silver" /\ y.rows = rows
    BY <1>8, <2>3 DEF RunRecord, Steps, Assets
  <2>5. PICK z \in RunRecord : z = y
    BY <2>4
  <2>6. Passed(z)
    BY <2>2, <2>4, <2>5 DEF Passed
  <2>7. RunInv(z)
    BY <1>8, <2>4, <2>5, <2>6 DEF RunInv, Ready, Busy, Writes
  <2>8. QED
    BY <1>8, <2>5, <2>7, QuietStep DEF Becomes
<1>9. CASE /\ a = "gold" /\ x.step = "read"
           /\ Becomes(r, [x EXCEPT !.asset = a, !.step = "load", !.silver = None,
                                   !.rows = GoldOf(x.silver, Bronze)])
  <2> DEFINE y == [x EXCEPT !.asset = a, !.step = "load", !.silver = None,
                            !.rows = GoldOf(x.silver, Bronze)]
  <2>1. x.silver \in Silvers /\ (~mixed => x.silver = SilverOf(Bronze))
    BY <1>9
  <2>2. PICK rows \in Golds : rows = GoldOf(x.silver, Bronze)
    BY <1>4, <2>1 DEF Golds
  <2>3. GoldRows(rows)
    <3>1. PICK v \in Versions : x.silver = SilverOf(v)
      BY <2>1 DEF Silvers
    <3>2. CASE mixed
      BY <1>4, <2>2, <3>1, <3>2 DEF GoldRows
    <3>3. CASE ~mixed
      BY <1>4, <2>1, <2>2, <3>3 DEF GoldRows
    <3>4. QED
      BY <3>2, <3>3
  <2>4. y = [x EXCEPT !.asset = a, !.step = "load", !.silver = None, !.rows = rows]
    BY <2>2
  <2>5. y \in RunRecord /\ y.kind = x.kind /\ y.step = "load" /\ y.left = x.left
        /\ y.asset = "gold" /\ y.rows = rows
    BY <1>9, <2>4 DEF RunRecord, Steps, Assets
  <2>6. PICK z \in RunRecord : z = y
    BY <2>5
  <2>7. Passed(z)
    BY <2>5, <2>6 DEF Passed
  <2>8. RunInv(z)
    BY <1>9, <2>3, <2>5, <2>6, <2>7 DEF RunInv, Ready, Busy, Writes
  <2>9. QED
    BY <1>9, <2>6, <2>8, QuietStep DEF Becomes
<1>10. QED
  BY <1>6, <1>7, <1>8, <1>9 DEF Scans, Bronze

(* What a run between two assets knows. *)
LEMMA NextLemma ==
  ASSUME MInv, NEW r \in Runs, run[r].step = "next"
  PROVE  /\ run[r] \in RunRecord /\ RunInv(run[r]) /\ Moving(run[r])
         /\ run[r].kind \in Kinds /\ run[r].left \subseteq Plan(run[r].kind)
         /\ run[r].silver = None
         /\ run[r].kind # "roundtrip" => Passed(run[r])
BY DEF MInv, RunInv, RunRecord, Moving

(* A run that has parsed something new. *)
LEMMA ParsedKeeps ==
  ASSUME MInv, NEW r \in Runs, run[r].step = "next", NEW a \in run[r].left,
         a # "silver", run[r].kind = "roundtrip" \/ DependsOn[a] \cap run[r].left = {},
         NEW step \in {"load", "ask"}, NEW rows \in Versions \cup Calls \cup Golds,
         step = "load" => Ready(a, rows), step = "ask" => a = "callouts" /\ rows \in Calls,
         Becomes(r, [run[r] EXCEPT !.asset = a, !.step = step, !.rows = rows]),
         UNCHANGED <<tables, source, created, mixed, drifted>>
  PROVE  MInv'
<1> DEFINE y == [run[r] EXCEPT !.asset = a, !.step = step, !.rows = rows]
<1>1. run[r] \in RunRecord /\ RunInv(run[r]) /\ Moving(run[r]) /\ a \in Assets
  BY NextLemma, PlanLemma
<1>2. y \in RunRecord /\ y.kind = run[r].kind /\ y.step = step /\ y.left = run[r].left
      /\ y.asset = a /\ y.rows = rows
  BY <1>1 DEF RunRecord, Steps
<1>3. PICK z \in RunRecord : z = y
  BY <1>2
<1>4. z.kind # "roundtrip" => Passed(z)
  BY <1>2, <1>3, NextLemma DEF Passed
<1>5. RunInv(z)
  BY <1>1, <1>2, <1>3, <1>4 DEF RunInv, Busy, Writes
<1>6. QED
  BY <1>1, <1>3, <1>5, QuietStep DEF Becomes

LEMMA BeginKeeps ==
  ASSUME MInv, NEW r \in Runs, NEW a \in Assets, Begin(r, a)  PROVE MInv'
<1>1. /\ run[r].step = "next" /\ a \in run[r].left
      /\ run[r].kind = "roundtrip" \/ DependsOn[a] \cap run[r].left = {}
      /\ UNCHANGED <<tables, source, created, mixed, drifted>>
  BY DEF Begin, Elsewhere, store, history
<1>2. source \in Workbooks /\ Products[source] \in Versions
  BY DEF MInv, Versions
<1>3. run[r].kind = "roundtrip" => a = "gold"
  BY <1>1, NextLemma, PlanLemma
<1>4. CASE run[r].kind = "roundtrip"
  <2>1. Becomes(r, [run[r] EXCEPT !.asset = a, !.step = "load", !.rows = MartOf(source)])
    BY <1>1, <1>3, <1>4 DEF Begin
  <2>2. PICK rows \in Golds : rows = MartOf(source) /\ GoldRows(rows)
    BY <1>2 DEF MartOf, Golds, Silvers, GoldRows
  <2>3. Becomes(r, [run[r] EXCEPT !.asset = a, !.step = "load", !.rows = rows])
    BY <2>1, <2>2
  <2>4. Ready(a, rows)
    BY <1>3, <1>4, <2>2 DEF Ready
  <2>5. QED
    BY <1>1, <1>3, <1>4, <2>3, <2>4, ParsedKeeps
<1>5. CASE run[r].kind # "roundtrip" /\ a = "bronze"
  <2>1. Becomes(r, [run[r] EXCEPT !.asset = a, !.step = "load", !.rows = Products[source]])
    BY <1>5 DEF Begin
  <2>2. Ready(a, Products[source])
    BY <1>2, <1>5 DEF Ready
  <2>3. QED
    BY <1>1, <1>2, <1>5, <2>1, <2>2, ParsedKeeps
<1>6. CASE run[r].kind # "roundtrip" /\ a = "callouts"
  <2>1. PICK rows \in Calls : rows = Images(source)
    BY <1>2 DEF Calls
  <2>2. Becomes(r, [run[r] EXCEPT !.asset = a, !.step = "ask", !.rows = rows])
    BY <1>6, <2>1 DEF Begin
  <2>3. QED
    BY <1>1, <1>6, <2>2, ParsedKeeps
<1>7. CASE run[r].kind # "roundtrip" /\ a \in {"silver", "gold"}
  <2>1. Scans(r, a)
    BY <1>7 DEF Begin
  <2>2. QED
    BY <1>1, <1>7, <2>1, NextLemma, ScansKeeps
<1>8. QED
  BY <1>4, <1>5, <1>6, <1>7 DEF Assets

LEMMA ReadKeeps ==
  ASSUME MInv, NEW r \in Runs, Read(r)  PROVE MInv'
<1>1. run[r].step = "read" /\ run[r].step \in Busy /\ Scans(r, "gold")
      /\ UNCHANGED <<tables, source, created, mixed, drifted>>
  BY DEF Read, Busy, Elsewhere, store, history
<1>2. /\ run[r] \in RunRecord /\ RunInv(run[r]) /\ Moving(run[r])
      /\ run[r].asset = "gold" /\ run[r].kind # "roundtrip" /\ run[r].silver \in Silvers
      /\ run[r].left \subseteq Plan(run[r].kind) /\ "gold" \in run[r].left
      /\ Passed(run[r]) /\ DependsOn["gold"] \cap run[r].left = {}
  BY <1>1, BusyLemma DEF RunInv
<1>3. ~mixed => run[r].silver = SilverOf(Bronze)
  BY <1>1, <1>2 DEF Passed
<1>4. QED
  BY <1>1, <1>2, <1>3, ScansKeeps

LEMMA AnsweredKeeps ==
  ASSUME MInv, NEW r \in Runs, Answered(r)  PROVE MInv'
<1>1. run[r].step = "ask" /\ run[r].step \in Busy
      /\ UNCHANGED <<tables, source, created, mixed, drifted>>
  BY DEF Answered, Busy, Elsewhere, store, history
<1>2. /\ run[r] \in RunRecord /\ RunInv(run[r]) /\ Moving(run[r])
      /\ run[r].asset = "callouts" /\ run[r].rows \in Calls
  BY <1>1, BusyLemma DEF RunInv
<1>3. CASE Fails(r)
  BY <1>1, <1>2, <1>3, FailsKeeps
<1>4. CASE Done(r)
  <2>1. PICK y \in RunRecord : run' = [run EXCEPT ![r] = y] /\ RunInv(y)'
    BY <1>1, <1>2, <1>4, SameKept, DoneLemma
  <2>2. \A a \in Assets : TableInv(a)'
    BY <1>1 DEF MInv, TableInv, Ready, GoldRows
  <2>3. ~mixed' => \A q \in Runs \ {r} : ~Moving(run[q])
    BY <1>1, <1>2 DEF MInv
  <2>4. QED
    BY <1>1, <2>1, <2>2, <2>3, SameKept, StepLemma DEF MInv
<1>5. CASE run[r].rows # {} /\ Becomes(r, [run[r] EXCEPT !.step = "load"])
  <2> DEFINE y == [run[r] EXCEPT !.step = "load"]
  <2>1. y \in RunRecord /\ y.kind = run[r].kind /\ y.step = "load" /\ y.left = run[r].left
        /\ y.asset = "callouts" /\ y.silver = run[r].silver /\ y.rows = run[r].rows
    BY <1>2 DEF RunRecord, Steps
  <2>2. PICK z \in RunRecord : z = y
    BY <2>1
  <2>3. z.kind # "roundtrip" => Passed(z)
    BY <1>1, <2>1, <2>2, BusyLemma DEF Passed
  <2>4. RunInv(z)
    BY <1>1, <1>2, <1>5, <2>1, <2>2, <2>3 DEF RunInv, Ready, Busy, Writes
  <2>5. QED
    BY <1>1, <1>2, <1>5, <2>2, <2>4, QuietStep DEF Becomes
<1>6. QED
  BY <1>3, <1>4, <1>5 DEF Answered

(* A run on its way out keeps nothing that the invariant is about. *)
LEMMA LeavingKeeps ==
  ASSUME MInv, NEW r \in Runs, Moving(run[r]), NEW silver \in {None, {}} \cup Silvers,
         run' = [run EXCEPT ![r] = [run[r] EXCEPT !.step = "check", !.silver = silver]],
         UNCHANGED <<tables, source, created, mixed, drifted>>
  PROVE  MInv'
<1> DEFINE y == [run[r] EXCEPT !.step = "check", !.silver = silver]
<1>1. run[r] \in RunRecord /\ RunInv(run[r])
  BY DEF MInv
<1>2. y \in RunRecord /\ y.kind = run[r].kind /\ y.step = "check" /\ y.left = run[r].left
  BY <1>1 DEF RunRecord, Steps
<1>3. PICK z \in RunRecord : z = y
  BY <1>2
<1>4. RunInv(z)
  BY <1>1, <1>2, <1>3 DEF RunInv, Busy, Writes
<1>5. QED
  BY <1>3, <1>4, QuietStep

LEMMA FinishKeeps ==
  ASSUME MInv, NEW r \in Runs, Finish(r)  PROVE MInv'
<1>1. run[r].step = "next" /\ UNCHANGED <<tables, source, created, mixed, drifted>>
  BY DEF Finish, Elsewhere, store, history
<1>2. run[r] \in RunRecord /\ Moving(run[r])
  BY <1>1, NextLemma
<1>3. CASE Ends(r, "success")
  BY <1>1, <1>2, <1>3, EndsKeeps
<1>4. CASE Goto(r, "check")
  <2>1. PICK silver \in {None, {}} \cup Silvers : silver = run[r].silver
    BY <1>2 DEF RunRecord
  <2>2. [run[r] EXCEPT !.step = "check"] = [run[r] EXCEPT !.step = "check", !.silver = silver]
    BY <1>2, <2>1 DEF RunRecord
  <2>3. QED
    BY <1>1, <1>2, <1>4, <2>2, LeavingKeeps DEF Goto, Becomes
<1>5. QED
  BY <1>3, <1>4 DEF Finish

LEMMA CheckKeeps ==
  ASSUME MInv, NEW r \in Runs, Check(r)  PROVE MInv'
<1>1. run[r].step = "check" /\ UNCHANGED <<tables, source, created, mixed, drifted>>
  BY DEF Check, Elsewhere, store, history
<1>2. run[r] \in RunRecord /\ Moving(run[r])
  BY <1>1 DEF MInv, Moving
<1>3. CASE \E s \in {"success", "failure"} : Ends(r, s)
  BY <1>1, <1>2, <1>3, EndsKeeps
<1>4. CASE /\ tables["silver"] # Absent
           /\ Becomes(r, [run[r] EXCEPT !.silver = tables["silver"].rows])
  <2>1. PICK silver \in {None, {}} \cup Silvers : silver = tables["silver"].rows
    BY <1>4 DEF MInv, TableInv, Ready, EmptyRows, Assets
  <2>2. [run[r] EXCEPT !.silver = tables["silver"].rows]
          = [run[r] EXCEPT !.step = "check", !.silver = silver]
    BY <1>1, <1>2, <2>1 DEF RunRecord
  <2>3. QED
    BY <1>1, <1>2, <1>4, <2>2, LeavingKeeps DEF Becomes
<1>5. QED
  BY <1>3, <1>4 DEF Check, Fails

(* The steps that call the catalog to read, or not at all, leave the tables alone. *)
LEMMA NextInv == MInv /\ [Next]_vars => MInv' /\ Kept
<1> SUFFICES ASSUME MInv, [Next]_vars  PROVE MInv' /\ Kept
  OBVIOUS
<1>1. ASSUME NEW r \in Runs, Step(r)  PROVE MInv' /\ Kept
  <2>1. CASE Start(r)
    BY <2>1, StartKeeps, SameKept DEF Start, store
  <2>2. CASE \E a \in Assets : Begin(r, a)
    BY <2>2, BeginKeeps, SameKept DEF Begin, store
  <2>3. CASE Answered(r)
    BY <2>3, AnsweredKeeps, SameKept DEF Answered, store
  <2>4. CASE Read(r)
    BY <2>4, ReadKeeps, SameKept DEF Read, store
  <2>5. CASE Load(r)
    BY <2>5, LoadKeeps, SameKept DEF Load, store
  <2>6. CASE Overwrite(r)
    BY <2>6, OverwriteKeeps
  <2>7. CASE Drop(r)
    BY <2>7, DropKeeps
  <2>8. CASE Create(r)
    BY <2>8, CreateKeeps
  <2>9. CASE AppendRows(r)
    BY <2>9, AppendKeeps
  <2>10. CASE Finish(r)
    BY <2>10, FinishKeeps, SameKept DEF Finish, store
  <2>11. CASE Check(r)
    BY <2>11, CheckKeeps, SameKept DEF Check, store
  <2>12. QED
    BY <1>1, <2>1, <2>2, <2>3, <2>4, <2>5, <2>6, <2>7, <2>8, <2>9, <2>10, <2>11 DEF Step
<1>2. ASSUME NEW r \in Runs, Kill(r)  PROVE MInv' /\ Kept
  BY <1>2, KillKeeps, SameKept DEF Kill, store
<1>3. ASSUME NEW b \in Workbooks, Save(b)  PROVE MInv' /\ Kept
  BY <1>3, SameKeeps, SameKept DEF Save, store
<1>4. CASE UNCHANGED vars
  BY <1>4, SameKeeps, SameKept DEF vars, store, history, MInv
<1>5. QED
  BY <1>1, <1>2, <1>3, <1>4 DEF Next

LEMMA InitInv == Init => MInv
<1> SUFFICES ASSUME Init  PROVE MInv
  OBVIOUS
<1>1. PICK kind \in [Runs -> UNION {Programs[r] : r \in Runs}] :
        /\ \A r \in Runs : kind[r] \in Programs[r]
        /\ run = [r \in Runs |-> Waiting(kind[r])]
  BY DEF Init
<1>2. Absent \in AnyTable
  BY DEF Absent, AnyTable, Layouts
<1>3. tables \in [Assets -> AnyTable] /\ \A a \in Assets : TableInv(a)
  BY <1>2 DEF Init, TableInv
<1>4. ASSUME NEW r \in Runs
      PROVE  run[r] \in RunRecord /\ RunInv(run[r]) /\ ~Moving(run[r])
  <2>1. PICK k \in Kinds : k = kind[r]
    BY <1>1, MedallionAssumption DEF Kinds
  <2>2. run[r] = Waiting(k)
    BY <1>1, <2>1
  <2>3. Waiting(k) \in RunRecord
    BY <1>2 DEF Waiting, RunRecord, Steps
  <2>4. PICK x \in RunRecord : x = run[r] /\ x.step = "waiting" /\ x.left = {} /\ x.silver = None
    BY <2>2, <2>3 DEF Waiting
  <2>5. RunInv(x) /\ ~Moving(x)
    BY <2>4 DEF RunInv, Moving, Busy, Writes
  <2>6. QED
    BY <2>4, <2>5
<1>5. run \in [Runs -> RunRecord]
  BY <1>1, <1>4
<1>6. source \in Workbooks /\ created \in Nat /\ mixed \in BOOLEAN /\ drifted \in BOOLEAN
  BY DEF Init
<1>7. QED
  BY <1>3, <1>4, <1>5, <1>6 DEF MInv

LEMMA Inductive == Spec => []MInv
BY InitInv, NextInv, PTL DEF Spec

-----------------------------------------------------------------------------
(* A run that is alone on an unchanged workbook.                            *)

(* The tables of its finished assets are those of the workbook, and so is   *)
(* what it holds for the next one.                                          *)
Own(x) ==
  /\ \A a \in Plan(x.kind) \ x.left :
       Expected(a, source) # EmptyRows(a) => tables[a].rows = Expected(a, source)
  /\ x.step \in Writes => x.rows = Expected(x.asset, source)
  /\ x.step = "ask" => x.rows = Images(source)
  /\ x.step = "read" => x.silver = SilverOf(Products[source])
  /\ x.step = "check" => x.left = {}

LInv == /\ lone \subseteq Runs /\ \A r \in lone : run[r].step # "waiting"
        /\ \A r \in lone : Moving(run[r]) => /\ \A q \in Runs : Moving(run[q]) => q = r
                                             /\ Own(run[r])

(* A lone run that succeeds has been through its plan. *)
Succeeds == \A r \in lone : run[r].step # "success" /\ run'[r].step = "success" =>
              Moving(run[r]) /\ run[r].left = {}

LEMMA ExpectedLemma ==
  ASSUME NEW b
  PROVE  /\ Expected("bronze", b) = Products[b]
         /\ Expected("silver", b) = SilverOf(Products[b])
         /\ Expected("gold", b) = MartOf(b)
         /\ Expected("callouts", b) = Images(b)
<1>1. Expected("callouts", b) =
        {[image |-> m.hash, sheets |-> SheetsWith(Archives[b], m.hash)] :
           m \in Pictured(Archives[b])}
  BY DEF Expected
<1>2. PICK zip : zip = Archives[b]
  OBVIOUS
<1>3. ASSUME NEW h
      PROVE  UNION {SheetsShowing(zip, m.path) : m \in {n \in Pictured(zip) : n.hash = h}}
               = SheetsWith(zip, h)
  BY DEF SheetsShowing, SheetsWith
<1>4. Images(b) =
        {[image |-> h, sheets |-> UNION {SheetsShowing(zip, m.path) :
                                           m \in {n \in Pictured(zip) : n.hash = h}}] :
           h \in {m.hash : m \in Pictured(zip)}}
  BY <1>2 DEF Images, Pictured
<1>5. Images(b) = Expected("callouts", b)
  <2>1. ASSUME NEW i \in Images(b)
        PROVE  \E m \in Pictured(zip) : i = [image |-> m.hash, sheets |-> SheetsWith(zip, m.hash)]
    <3>1. PICK h \in {m.hash : m \in Pictured(zip)} :
             i = [image |-> h, sheets |-> UNION {SheetsShowing(zip, m.path) :
                                                   m \in {n \in Pictured(zip) : n.hash = h}}]
      BY <1>4
    <3>2. i = [image |-> h, sheets |-> SheetsWith(zip, h)]
      BY <1>3, <3>1
    <3>3. PICK m \in Pictured(zip) : m.hash = h
      OBVIOUS
    <3>4. QED
      BY <3>2, <3>3
  <2>2. ASSUME NEW m \in Pictured(zip)
        PROVE  [image |-> m.hash, sheets |-> SheetsWith(zip, m.hash)] \in Images(b)
    <3>1. PICK h : h = m.hash
      OBVIOUS
    <3>2. PICK i : i = [image |-> h, sheets |-> UNION {SheetsShowing(zip, n.path) :
                                                   n \in {k \in Pictured(zip) : k.hash = h}}]
      OBVIOUS
    <3>3. i \in Images(b)
      BY <1>4, <3>1, <3>2
    <3>4. i = [image |-> h, sheets |-> SheetsWith(zip, h)]
      BY <1>3, <3>2
    <3>5. QED
      BY <3>1, <3>3, <3>4
  <2>3. QED
    BY <1>1, <1>2, <2>1, <2>2
<1>6. QED
  BY <1>5 DEF Expected

LEMMA LoneStep ==
  ASSUME MInv, LInv, NEW r \in Runs, Moving(run[r]), NEW y, run' = [run EXCEPT ![r] = y],
         UNCHANGED <<lone, source>>,
         r \in lone /\ Moving(y) => Own(y)', y.step # "waiting",
         r \in lone /\ y.step = "success" => run[r].left = {}
  PROVE  LInv' /\ Succeeds
<1>1. run'[r] = y /\ \A q \in Runs \ {r} : run'[q] = run[q]
  BY DEF MInv
<1>2. ASSUME NEW t \in lone, Moving(run'[t])
      PROVE  t = r /\ \A q \in Runs : Moving(run'[q]) => q = r
  BY <1>1, <1>2 DEF LInv
<1>3. r \in lone /\ Moving(run'[r]) => Own(run[r])'
  BY <1>1 DEF Own
<1>4. LInv'
  BY <1>2, <1>3 DEF LInv, Moving
<1>5. Succeeds
  BY <1>1 DEF Succeeds, LInv
<1>6. QED
  BY <1>4, <1>5

LEMMA LoneEnds ==
  ASSUME MInv, LInv, NEW r \in Runs, Moving(run[r]), NEW s \in {"success", "failure", "killed"},
         Ends(r, s), UNCHANGED <<lone, source>>,
         r \in lone /\ s = "success" => run[r].left = {}
  PROVE  LInv' /\ Succeeds
<1>1. PICK y : y = [Reset(r) EXCEPT !.step = s]
  OBVIOUS
<1>2. y.step = s /\ ~Moving(y)
  BY <1>1 DEF Reset, Waiting, Moving
<1>3. QED
  BY <1>1, <1>2, LoneStep DEF Ends, Becomes

LEMMA LoneFails ==
  ASSUME MInv, LInv, NEW r \in Runs, Moving(run[r]), Fails(r), UNCHANGED <<lone, source>>
  PROVE  LInv' /\ Succeeds
BY LoneEnds DEF Fails

LEMMA LoneNow ==
  ASSUME MInv, LInv, NEW r \in lone, Moving(run[r])
  PROVE  Own(run[r])
BY DEF LInv

(* A step from one call of the catalog to the next, about one asset. *)
LEMMA LoneWrites ==
  ASSUME MInv, LInv, NEW r \in Runs, run[r].step \in Writes, NEW step \in Writes, NEW t,
         run' = [run EXCEPT ![r] = [run[r] EXCEPT !.step = step, !.table = t]],
         UNCHANGED <<lone, source>>,
         \A b \in Assets \ {run[r].asset} : tables'[b] = tables[b]
  PROVE  LInv' /\ Succeeds
<1>1. PICK x : x = run[r]
  OBVIOUS
<1>2. x \in RunRecord /\ Moving(x) /\ x.asset \in x.left /\ x.kind \in Kinds
  BY <1>1, BusyLemma DEF Busy, RunRecord
<1>3. PICK y : y = [x EXCEPT !.step = step, !.table = t]
  OBVIOUS
<1>4. y.kind = x.kind /\ y.left = x.left /\ y.step = step /\ y.rows = x.rows /\ y.asset = x.asset
  BY <1>2, <1>3 DEF RunRecord
<1>5. r \in lone => Own(y)'
  BY <1>1, <1>2, <1>4, LoneNow, PlanLemma DEF Own, Writes
<1>6. y.step # "success" /\ y.step # "waiting"
  BY <1>4 DEF Writes
<1>7. QED
  BY <1>1, <1>2, <1>3, <1>5, <1>6, LoneStep

LEMMA LoneGoto ==
  ASSUME MInv, LInv, NEW r \in Runs, run[r].step \in Writes, NEW step \in Writes, Goto(r, step),
         UNCHANGED <<lone, source>>,
         \A b \in Assets \ {run[r].asset} : tables'[b] = tables[b]
  PROVE  LInv' /\ Succeeds
<1>1. PICK t : t = run[r].table
  OBVIOUS
<1>2. run[r] \in RunRecord
  BY DEF MInv
<1>3. [run[r] EXCEPT !.step = step] = [run[r] EXCEPT !.step = step, !.table = t]
  BY <1>1, <1>2 DEF RunRecord
<1>4. QED
  BY <1>3, LoneWrites DEF Goto, Becomes

(* An asset is done: its table is the workbook's. *)
LEMMA LoneDone ==
  ASSUME MInv, LInv, NEW r \in Runs, run[r].step \in Busy, Done(r), UNCHANGED <<lone, source>>,
         \A b \in Assets \ {run[r].asset} : tables'[b] = tables[b],
         r \in lone => \/ Expected(run[r].asset, source) = EmptyRows(run[r].asset)
                       \/ tables'[run[r].asset].rows = Expected(run[r].asset, source)
  PROVE  LInv' /\ Succeeds
<1>1. PICK x : x = run[r]
  OBVIOUS
<1>2. x \in RunRecord /\ Moving(x) /\ x.asset \in x.left /\ x.kind \in Kinds
  BY <1>1, BusyLemma DEF RunRecord
<1>3. PICK y : y = [Reset(r) EXCEPT !.step = "next", !.left = x.left \ {x.asset},
                                    !.rows = IF x.kind = "roundtrip" THEN x.rows ELSE None]
  OBVIOUS
<1>4. y.kind = x.kind /\ y.left = x.left \ {x.asset} /\ y.step = "next"
  BY <1>1, <1>3 DEF Reset, Waiting
<1>5. r \in lone => Own(y)'
  BY <1>1, <1>2, <1>4, LoneNow, PlanLemma DEF Own, Writes
<1>6. QED
  BY <1>1, <1>2, <1>3, <1>4, <1>5, LoneStep DEF Done, Becomes

LEMMA LoneCommit ==
  ASSUME MInv, LInv, NEW r \in Runs, run[r].step \in Writes, Commit(r), UNCHANGED <<lone, source>>
  PROVE  LInv' /\ Succeeds
<1>1. PICK a \in Assets : a = run[r].asset
  BY BusyLemma DEF Busy
<1>2. tables' = [tables EXCEPT ![a].rows = run[r].rows, ![a].snap = Writing(r).snap + 1]
  BY <1>1 DEF Commit
<1>3. tables'[a].rows = run[r].rows /\ \A b \in Assets \ {a} : tables'[b] = tables[b]
  BY <1>1, <1>2 DEF MInv, AnyTable
<1>4. r \in lone => run[r].rows = Expected(a, source)
  BY <1>1, LoneNow, BusyLemma DEF Own, Busy
<1>5. QED
  BY <1>1, <1>3, <1>4, LoneDone DEF Commit, Busy

(* What a run holds after an asset has begun. *)
LEMMA LoneBegun ==
  ASSUME MInv, LInv, NEW r \in Runs, Moving(run[r]), NEW y, run' = [run EXCEPT ![r] = y],
         UNCHANGED <<tables, lone, source>>, y.kind = run[r].kind, y.left = run[r].left,
         y.step \in {"ask", "read", "load"},
         r \in lone => /\ y.step = "ask" => y.rows = Images(source)
                       /\ y.step = "read" => y.silver = SilverOf(Products[source])
                       /\ y.step = "load" => y.rows = Expected(y.asset, source)
  PROVE  LInv' /\ Succeeds
<1>1. r \in lone => Own(y)'
  BY LoneNow DEF Own, Writes
<1>2. QED
  BY <1>1, LoneStep

(* A lone run past bronze and silver reads what it wrote. *)
LEMMA LoneScans ==
  ASSUME MInv, LInv, NEW r \in lone, Moving(run[r]), run[r].kind \in Kinds,
         NEW a \in {"bronze", "silver"}, a \in Plan(run[r].kind) \ run[r].left
  PROVE  tables[a].rows = Expected(a, source)
<1>1. Products[source] \in Versions
  BY DEF MInv, Versions
<1>2. Expected(a, source) # EmptyRows(a)
  BY <1>1, ExpectedLemma, ParsesHaveRows DEF EmptyRows
<1>3. QED
  BY <1>2, LoneNow DEF Own

LEMMA LoneScan ==
  ASSUME MInv, LInv, NEW r \in Runs, NEW a \in {"silver", "gold"}, Scans(r, a),
         run[r].step \in {"next", "read"}, a \in run[r].left, DependsOn[a] \cap run[r].left = {},
         run[r].kind # "roundtrip", run[r].step = "read" => a = "gold",
         UNCHANGED <<tables, lone, source>>
  PROVE  LInv' /\ Succeeds
<1>1. PICK x : x = run[r]
  OBVIOUS
<1>2. x \in RunRecord /\ RunInv(x) /\ Moving(x) /\ x.kind \in Kinds /\ Passed(x)
      /\ x.left \subseteq Plan(x.kind)
  BY <1>1 DEF MInv, RunInv, RunRecord, Moving, Busy
<1>3. a = "gold" => "silver" \in Plan(x.kind) \ x.left
  <2>1. \A k \in Kinds : "gold" \in Plan(k) /\ k # "roundtrip" => "silver" \in Plan(k)
    BY DEF Plan, Kinds, Assets
  <2>2. QED
    BY <1>1, <1>2, <2>1, DependsLemma
<1>4. "bronze" \in Plan(x.kind) \ x.left
  BY <1>1, <1>2, <1>3, DependsLemma, PlanLemma DEF Passed
<1>5. CASE Fails(r)
  BY <1>1, <1>2, <1>5, LoneFails
<1>6. CASE /\ a = "gold"
           /\ Becomes(r, [x EXCEPT !.asset = a, !.step = "read", !.silver = tables["silver"].rows])
  <2>1. PICK y : y = [x EXCEPT !.asset = a, !.step = "read", !.silver = tables["silver"].rows]
    OBVIOUS
  <2>2. y.kind = x.kind /\ y.left = x.left /\ y.step = "read" /\ y.silver = tables["silver"].rows
    BY <1>2, <2>1 DEF RunRecord
  <2>3. r \in lone => y.silver = SilverOf(Products[source])
    BY <1>1, <1>2, <1>3, <1>6, <2>2, LoneScans, ExpectedLemma
  <2>4. QED
    BY <1>1, <1>2, <1>6, <2>1, <2>2, <2>3, LoneBegun DEF Becomes
<1>7. CASE /\ ~(a = "gold" /\ x.step = "next")
           /\ Becomes(r, [x EXCEPT !.asset = a, !.step = "load", !.silver = None,
                            !.rows = IF a = "silver" THEN SilverOf(Bronze)
                                     ELSE GoldOf(x.silver, Bronze)])
  <2>1. PICK y : y = [x EXCEPT !.asset = a, !.step = "load", !.silver = None,
                               !.rows = IF a = "silver" THEN SilverOf(Bronze)
                                        ELSE GoldOf(x.silver, Bronze)]
    OBVIOUS
  <2>2. /\ y.kind = x.kind /\ y.left = x.left /\ y.step = "load" /\ y.asset = a
        /\ y.rows = IF a = "silver" THEN SilverOf(Bronze) ELSE GoldOf(x.silver, Bronze)
    BY <1>2, <2>1 DEF RunRecord
  <2>3. r \in lone => Bronze = Products[source]
    BY <1>1, <1>2, <1>4, LoneScans, ExpectedLemma DEF Bronze
  <2>4. r \in lone /\ a = "gold" => x.silver = SilverOf(Products[source])
    BY <1>1, <1>2, <1>7, LoneNow DEF Own
  <2>5. r \in lone => y.rows = Expected(a, source)
    BY <2>2, <2>3, <2>4, ExpectedLemma DEF MartOf
  <2>6. QED
    BY <1>1, <1>2, <1>7, <2>1, <2>2, <2>5, LoneBegun DEF Becomes
<1>8. a = "gold" /\ x.step = "next" => x.silver = None
  BY <1>2 DEF RunInv
<1>9. QED
  BY <1>1, <1>5, <1>6, <1>7, <1>8 DEF Scans, Bronze

LEMMA LoneBegin ==
  ASSUME MInv, LInv, NEW r \in Runs, NEW a \in Assets, Begin(r, a)  PROVE LInv' /\ Succeeds
<1>1. /\ run[r].step = "next" /\ a \in run[r].left
      /\ run[r].kind = "roundtrip" \/ DependsOn[a] \cap run[r].left = {}
      /\ UNCHANGED <<tables, source, lone>>
  BY DEF Begin, Elsewhere, store, history
<1>2. PICK x : x = run[r]
  OBVIOUS
<1>3. x \in RunRecord /\ Moving(x) /\ (x.kind = "roundtrip" => a = "gold")
  BY <1>1, <1>2, NextLemma, PlanLemma
<1>4. CASE x.kind # "roundtrip" /\ a \in {"silver", "gold"}
  <2>1. Scans(r, a)
    BY <1>2, <1>4 DEF Begin
  <2>2. QED
    BY <1>1, <1>2, <1>4, <2>1, LoneScan
<1>5. CASE x.kind = "roundtrip" \/ a \in {"bronze", "callouts"}
  <2>1. PICK rows, step, y :
          /\ y = [x EXCEPT !.asset = a, !.step = step, !.rows = rows] /\ Becomes(r, y)
          /\ \/ step = "load" /\ rows = Expected(a, source)
             \/ step = "ask" /\ rows = Images(source)
    <3>1. CASE x.kind = "roundtrip"
      <4>1. Becomes(r, [x EXCEPT !.asset = a, !.step = "load", !.rows = MartOf(source)])
        BY <1>2, <1>3, <3>1 DEF Begin
      <4>2. QED
        BY <1>3, <3>1, <4>1, ExpectedLemma
    <3>2. CASE x.kind # "roundtrip" /\ a = "bronze"
      <4>1. Becomes(r, [x EXCEPT !.asset = a, !.step = "load", !.rows = Products[source]])
        BY <1>2, <3>2 DEF Begin
      <4>2. QED
        BY <3>2, <4>1, ExpectedLemma
    <3>3. CASE x.kind # "roundtrip" /\ a = "callouts"
      <4>1. Becomes(r, [x EXCEPT !.asset = a, !.step = "ask", !.rows = Images(source)])
        BY <1>2, <3>3 DEF Begin
      <4>2. QED
        BY <3>3, <4>1
    <3>4. QED
      BY <1>5, <3>1, <3>2, <3>3
  <2>2. y.kind = x.kind /\ y.left = x.left /\ y.step = step /\ y.asset = a /\ y.rows = rows
    BY <1>3, <2>1 DEF RunRecord
  <2>3. QED
    BY <1>1, <1>2, <1>3, <2>1, <2>2, LoneBegun DEF Becomes
<1>6. QED
  BY <1>4, <1>5 DEF Assets

LEMMA LoneAnswered ==
  ASSUME MInv, LInv, NEW r \in Runs, Answered(r)  PROVE LInv' /\ Succeeds
<1>1. run[r].step = "ask" /\ run[r].step \in Busy /\ UNCHANGED <<tables, source, lone>>
  BY DEF Answered, Busy, Elsewhere, store, history
<1>2. PICK x : x = run[r]
  OBVIOUS
<1>3. x \in RunRecord /\ Moving(x) /\ x.asset = "callouts"
  BY <1>1, <1>2, BusyLemma DEF RunInv
<1>4. r \in lone => x.rows = Expected("callouts", source) /\ x.rows = Images(source)
  BY <1>1, <1>2, <1>3, LoneNow, ExpectedLemma DEF Own
<1>5. CASE Fails(r)
  BY <1>1, <1>2, <1>3, <1>5, LoneFails
<1>6. CASE x.rows = {} /\ Done(r)
  <2>1. EmptyRows("callouts") = {}
    BY DEF EmptyRows
  <2>2. QED
    BY <1>1, <1>2, <1>3, <1>4, <1>6, <2>1, LoneDone
<1>7. CASE Becomes(r, [x EXCEPT !.step = "load"])
  <2>1. PICK y : y = [x EXCEPT !.step = "load"]
    OBVIOUS
  <2>2. y.kind = x.kind /\ y.left = x.left /\ y.step = "load" /\ y.asset = x.asset
        /\ y.rows = x.rows
    BY <1>3, <2>1 DEF RunRecord
  <2>3. r \in lone => y.rows = Expected(y.asset, source)
    BY <1>3, <1>4, <2>2
  <2>4. run' = [run EXCEPT ![r] = y]
    BY <1>7, <2>1 DEF Becomes
  <2>5. QED
    BY <1>1, <1>2, <1>3, <2>2, <2>3, <2>4, LoneBegun
<1>8. QED
  BY <1>2, <1>5, <1>6, <1>7 DEF Answered

(* The calls of the catalog. *)
LEMMA LoneCalls ==
  ASSUME MInv, LInv, NEW r \in Runs, Load(r) \/ Overwrite(r) \/ Drop(r) \/ Create(r) \/ AppendRows(r)
  PROVE  LInv' /\ Succeeds
<1>1. run[r].step \in Writes /\ run[r].step \in Busy /\ UNCHANGED <<source, lone>>
  BY DEF Load, Overwrite, Drop, Create, AppendRows, Writes, Busy, Elsewhere, history
<1>2. Moving(run[r]) /\ run[r] \in RunRecord /\ run[r].asset \in Assets
  BY <1>1, BusyLemma
<1>3. CASE Commit(r)
  BY <1>1, <1>3, LoneCommit
<1>4. CASE Fails(r)
  BY <1>1, <1>2, <1>4, LoneFails
<1>5. ASSUME ~Commit(r), ~Fails(r)
      PROVE  \A b \in Assets \ {run[r].asset} : tables'[b] = tables[b]
  <2>1. CASE Drop(r)
    BY <2>1 DEF Drop, MInv
  <2>2. CASE Create(r)
    BY <1>5, <2>2 DEF Create, MInv
  <2>3. CASE Load(r) \/ Overwrite(r) \/ AppendRows(r)
    BY <1>5, <2>3 DEF Load, Overwrite, AppendRows, store
  <2>4. QED
    BY <2>1, <2>2, <2>3
<1>6. ASSUME ~Commit(r), ~Fails(r), NEW step \in Writes, Goto(r, step)
      PROVE  LInv' /\ Succeeds
  BY <1>1, <1>5, <1>6, LoneGoto
<1>7. ASSUME ~Commit(r), ~Fails(r), NEW step \in Writes, NEW t,
             Becomes(r, [run[r] EXCEPT !.step = step, !.table = t])
      PROVE  LInv' /\ Succeeds
  BY <1>1, <1>5, <1>7, LoneWrites DEF Becomes
<1>8. ASSUME ~Commit(r), ~Fails(r)
      PROVE  \/ \E step \in Writes : Goto(r, step)
             \/ \E step \in Writes : \E t : Becomes(r, [run[r] EXCEPT !.step = step, !.table = t])
  <2>1. CASE Load(r) \/ Overwrite(r) \/ AppendRows(r)
    BY <1>8, <2>1 DEF Load, Overwrite, AppendRows, Writes
  <2>2. CASE Drop(r)
    BY <2>2 DEF Drop, Writes
  <2>3. CASE Create(r)
    <3>1. PICK step, t :
            /\ step = IF run[r].step = "create" THEN "append" ELSE "reappend"
            /\ Becomes(r, [run[r] EXCEPT !.table = t, !.step = step])
      BY <1>8, <2>3 DEF Create
    <3>2. [run[r] EXCEPT !.table = t, !.step = step] = [run[r] EXCEPT !.step = step, !.table = t]
      BY <1>2 DEF RunRecord
    <3>3. step \in Writes
      BY <3>1 DEF Writes
    <3>4. QED
      BY <3>1, <3>2, <3>3
  <2>4. QED
    BY <2>1, <2>2, <2>3
<1>9. QED
  BY <1>3, <1>4, <1>6, <1>7, <1>8

LEMMA LoneLeaves ==
  ASSUME MInv, LInv, NEW r \in Runs, Finish(r) \/ Check(r)  PROVE LInv' /\ Succeeds
<1>1. UNCHANGED <<tables, source, lone>>
  BY DEF Finish, Check, Elsewhere, store, history
<1>2. PICK x : x = run[r]
  OBVIOUS
<1>3. /\ x \in RunRecord /\ Moving(x) /\ x.step \in {"next", "check"}
      /\ r \in lone => x.left = {}
  <2>1. x.step \in {"next", "check"} /\ x \in RunRecord /\ (x.step = "next" => x.left = {})
    BY <1>2 DEF Finish, Check, MInv
  <2>2. Moving(x)
    BY <2>1 DEF Moving
  <2>3. QED
    BY <1>2, <2>1, <2>2, LoneNow DEF Own
<1>4. CASE \E s \in {"success", "failure"} : Ends(r, s)
  BY <1>1, <1>2, <1>3, <1>4, LoneEnds
<1>5. ASSUME NEW y, y \in {[x EXCEPT !.step = "check"], [x EXCEPT !.silver = tables["silver"].rows]},
             Becomes(r, y), x.step = "next" => y = [x EXCEPT !.step = "check"]
      PROVE  LInv' /\ Succeeds
  <2>1. y.kind = x.kind /\ y.left = x.left /\ y.step = "check"
    BY <1>3, <1>5 DEF RunRecord
  <2>2. r \in lone => Own(y)'
    BY <1>1, <1>2, <1>3, <2>1, LoneNow DEF Own, Writes
  <2>3. QED
    BY <1>1, <1>2, <1>3, <1>5, <2>1, <2>2, LoneStep DEF Becomes
<1>6. CASE Finish(r)
  BY <1>2, <1>4, <1>5, <1>6 DEF Finish, Goto
<1>7. CASE Check(r)
  BY <1>2, <1>4, <1>5, <1>7 DEF Check, Fails
<1>8. QED
  BY <1>6, <1>7

LEMMA LoneStarts ==
  ASSUME MInv, LInv, NEW r \in Runs, Start(r)  PROVE LInv' /\ Succeeds
<1>1. PICK y : y = [run[r] EXCEPT !.step = "next", !.left = Plan(run[r].kind)]
  OBVIOUS
<1>2. run[r] \in RunRecord /\ run[r].step = "waiting"
  BY DEF Start, MInv
<1>3. y.step = "next" /\ y.left = Plan(y.kind)
  BY <1>1, <1>2 DEF RunRecord
<1>4. run' = [run EXCEPT ![r] = y]
  BY <1>1, <1>2 DEF Start, MInv
<1>5. run'[r] = y /\ \A q \in Runs \ {r} : run'[q] = run[q]
  BY <1>4 DEF MInv
<1>6. Own(y)'
  BY <1>3 DEF Own, Writes
<1>7. Own(run[r])'
  BY <1>5, <1>6 DEF Own
<1>8. PICK others : others = {q \in Runs : Moving(run[q])}
  OBVIOUS
<1>9. lone' = IF others = {} THEN lone \cup {r} ELSE lone \ others
  BY <1>8 DEF Start, Active, Moving
<1>10. ASSUME NEW t \in lone', Moving(run'[t])
       PROVE  t = r /\ others = {}
  <2>1. t = r \/ ~Moving(run[t])
    BY <1>8, <1>9 DEF LInv
  <2>2. t \in Runs
    BY <1>9 DEF LInv
  <2>3. t = r
    BY <1>5, <1>10, <2>1, <2>2
  <2>4. r \notin lone
    BY <1>2 DEF LInv
  <2>5. QED
    BY <1>9, <2>3, <2>4
<1>11. ASSUME others = {}, NEW q \in Runs, Moving(run'[q]) PROVE q = r
  BY <1>5, <1>8, <1>11
<1>12. lone' \subseteq Runs
  BY <1>9 DEF LInv
<1>13. ASSUME NEW t \in lone'  PROVE run'[t].step # "waiting"
  <2>1. CASE t = r
    BY <1>3, <1>5, <2>1
  <2>2. CASE t # r
    BY <1>5, <1>9, <2>2 DEF LInv
  <2>3. QED
    BY <2>1, <2>2
<1>14. LInv'
  BY <1>7, <1>10, <1>11, <1>12, <1>13 DEF LInv, Moving
<1>15. Succeeds
  BY <1>3, <1>5 DEF Succeeds, LInv
<1>16. QED
  BY <1>14, <1>15

LEMMA LoneNext == MInv /\ LInv /\ [Next]_vars => LInv' /\ Succeeds
<1> SUFFICES ASSUME MInv, LInv, [Next]_vars  PROVE LInv' /\ Succeeds
  OBVIOUS
<1>1. ASSUME NEW r \in Runs, Step(r)  PROVE LInv' /\ Succeeds
  <2>1. CASE Read(r)
    <3>1. /\ run[r].step = "read" /\ run[r].step \in Busy /\ Scans(r, "gold")
          /\ UNCHANGED <<tables, source, lone>>
      BY <2>1 DEF Read, Busy, Elsewhere, store, history
    <3>2. /\ run[r].asset = "gold" /\ run[r].kind # "roundtrip" /\ "gold" \in run[r].left
          /\ DependsOn["gold"] \cap run[r].left = {}
      BY <3>1, BusyLemma DEF RunInv
    <3>3. QED
      BY <3>1, <3>2, LoneScan
  <2>2. QED
    BY <1>1, <2>1, LoneStarts, LoneBegin, LoneAnswered, LoneCalls, LoneLeaves DEF Step
<1>2. ASSUME NEW r \in Runs, Kill(r)  PROVE LInv' /\ Succeeds
  <2>1. Moving(run[r]) /\ Ends(r, "killed") /\ UNCHANGED <<lone, source>>
    BY <1>2 DEF Kill, Active, Moving, Ends, Becomes, history
  <2>2. QED
    BY <2>1, LoneEnds
<1>3. ASSUME NEW b \in Workbooks, Save(b)  PROVE LInv' /\ Succeeds
  <2>1. run' = run /\ lone' = {r \in lone : ~Moving(run[r])}
    BY <1>3 DEF Save, Active, Moving
  <2>2. \A r \in lone' : ~Moving(run'[r])
    BY <2>1
  <2>3. QED
    BY <2>1, <2>2 DEF LInv, Succeeds, Moving
<1>4. CASE UNCHANGED vars
  <2>1. UNCHANGED <<run, lone, source, tables>>
    BY <1>4 DEF vars, store, history
  <2>2. QED
    BY <2>1 DEF LInv, Own, Succeeds, Moving
<1>5. QED
  BY <1>1, <1>2, <1>3, <1>4 DEF Next

-----------------------------------------------------------------------------
(* The theorems.                                                            *)

(* Whatever processes run, fail or are killed, gold holds the parts of one  *)
(* parse and the fitments of one parse, and of the same one while no two    *)
(* processes have run at once.                                              *)
THEOREM GoldOfOneParse == Spec => []GoldIsOfOneParse
<1>1. MInv => GoldIsOfOneParse
  <2> SUFFICES ASSUME MInv, HasRows(tables["gold"], "gold")
               PROVE  GoldRows(tables["gold"].rows)
    BY DEF GoldIsOfOneParse, GoldRows
  <2>1. TableInv("gold")
    BY DEF MInv, Assets
  <2>2. QED
    BY <2>1 DEF TableInv, HasRows, Ready
<1>2. QED
  BY <1>1, Inductive, PTL

(* No call of the catalog takes away the rows of a table that has some; the *)
(* one exception is gold once the roundtrip has created it.                 *)
THEOREM PublishedKept == Spec => PublishedStays
<1>1. MInv /\ [Next]_vars =>
        [\A a \in Assets : HasRows(tables[a], a) =>
           HasRows(tables'[a], a) \/ (a = "gold" /\ drifted)]_vars
  BY NextInv DEF Kept
<1>2. QED
  BY <1>1, Inductive, PTL DEF Spec, PublishedStays


(* A run that nothing ran beside, on a workbook nobody replaced, leaves     *)
(* every table of its plan equal to what the workbook parses to, whatever   *)
(* earlier runs left behind (assets.py:62).                                 *)
THEOREM LonePublished == Spec => LoneRunPublishes
<1>1. Init => LInv
  BY DEF Init, LInv
<1>2. MInv /\ LInv /\ [Next]_vars =>
        [\A r \in lone : run[r].step # "success" /\ run'[r].step = "success" =>
           \A a \in Plan(run[r].kind) :
             Expected(a, source) # EmptyRows(a) => tables[a].rows = Expected(a, source)]_vars
  BY LoneNext, LoneNow DEF Succeeds, Own
<1>3. QED
  BY <1>1, <1>2, Inductive, LoneNext, PTL DEF Spec, LoneRunPublishes

-----------------------------------------------------------------------------
(***************************************************************************)
(* Types.  What MInv leaves open: a run that has no asset in hand holds no *)
(* rows but the roundtrip's, and no table is newer than the count.         *)
(***************************************************************************)
Tidy(x) == /\ x.step \notin Busy => x.asset = None
           /\ x.kind # "roundtrip" /\ x.step \notin Writes \cup {"ask"} => x.rows = None

TInv == /\ \A r \in Runs : run[r].kind \in Programs[r] /\ Tidy(run[r])
        /\ \A a \in Assets : tables[a] # Absent => tables[a].id <= created
        /\ saves \in 0..MaxSaves /\ kills \in 0..MaxKills

(* What becomes of a run. *)
Tidied(r) == \E y : run' = [run EXCEPT ![r] = y] /\ y.kind = run[r].kind /\ Tidy(y)

LEMMA TidyStep ==
  ASSUME MInv, TInv, NEW r \in Runs, Tidied(r), UNCHANGED <<saves, kills>>,
         \A a \in Assets : tables'[a] # Absent => tables'[a].id <= created'
  PROVE  TInv'
<1>1. PICK y : run' = [run EXCEPT ![r] = y] /\ y.kind = run[r].kind /\ Tidy(y)
  BY DEF Tidied
<1>2. run'[r] = y /\ \A q \in Runs \ {r} : run'[q] = run[q]
  BY <1>1 DEF MInv
<1>3. ASSUME NEW q \in Runs PROVE run'[q].kind \in Programs[q] /\ Tidy(run'[q])
  <2>1. CASE q = r
    BY <1>1, <1>2, <2>1 DEF TInv
  <2>2. CASE q # r
    BY <1>2, <2>2 DEF TInv
  <2>. QED BY <2>1, <2>2
<1>. QED BY <1>3 DEF TInv, Tidy

LEMMA TidyEnds ==
  ASSUME NEW r \in Runs, NEW s \in {"success", "failure", "killed"}, Ends(r, s)
  PROVE  Tidied(r)
<1>1. PICK y : y = [Reset(r) EXCEPT !.step = s]
  OBVIOUS
<1>2. y.kind = run[r].kind /\ y.step = s /\ y.asset = None /\ y.rows = None
  BY <1>1 DEF Reset, Waiting
<1>. QED BY <1>1, <1>2 DEF Tidied, Tidy, Ends, Becomes, Busy, Writes

LEMMA TidyFails == ASSUME NEW r \in Runs, Fails(r) PROVE Tidied(r)
BY TidyEnds DEF Fails

LEMMA TidyDone == ASSUME NEW r \in Runs, Done(r) PROVE Tidied(r)
<1>1. PICK x, y : /\ x = run[r]
                  /\ y = [Reset(r) EXCEPT !.step = "next", !.left = x.left \ {x.asset},
                                     !.rows = IF x.kind = "roundtrip" THEN x.rows ELSE None]
  OBVIOUS
<1>2. y.kind = x.kind /\ y.step = "next" /\ y.asset = None
      /\ (x.kind # "roundtrip" => y.rows = None)
  BY <1>1 DEF Reset, Waiting
<1>. QED BY <1>1, <1>2 DEF Tidied, Tidy, Done, Becomes, Busy, Writes

LEMMA TidyGoto ==
  ASSUME MInv, NEW r \in Runs, NEW step \in Writes, Goto(r, step)
  PROVE  Tidied(r)
<1>1. PICK x \in RunRecord : x = run[r]
  BY DEF MInv
<1>2. PICK y : y = [x EXCEPT !.step = step]
  OBVIOUS
<1>3. y.kind = x.kind /\ y.step = step
  BY <1>1, <1>2 DEF RunRecord
<1>. QED BY <1>1, <1>2, <1>3 DEF Tidied, Tidy, Goto, Becomes, Busy

LEMMA TidyTakes ==
  ASSUME MInv, NEW r \in Runs, NEW step \in Writes, NEW t,
         Becomes(r, [run[r] EXCEPT !.step = step, !.table = t])
  PROVE  Tidied(r)
<1>1. PICK x \in RunRecord : x = run[r]
  BY DEF MInv
<1>2. PICK y : y = [x EXCEPT !.step = step, !.table = t]
  OBVIOUS
<1>3. y.kind = x.kind /\ y.step = step
  BY <1>1, <1>2 DEF RunRecord
<1>. QED BY <1>1, <1>2, <1>3 DEF Tidied, Tidy, Becomes, Busy

LEMMA TidyScans ==
  ASSUME MInv, TInv, NEW r \in Runs, NEW a, Scans(r, a), run[r].step \in {"next", "read"}
  PROVE  Tidied(r)
<1>1. PICK x \in RunRecord : x = run[r]
  BY DEF MInv
<1>2. CASE Fails(r)
  BY <1>2, TidyFails
<1>3. ASSUME NEW rows, Becomes(r, [x EXCEPT !.asset = a, !.step = "read", !.silver = rows])
      PROVE  Tidied(r)
  <2>1. PICK y : y = [x EXCEPT !.asset = a, !.step = "read", !.silver = rows]
    OBVIOUS
  <2>2. y.kind = x.kind /\ y.step = "read" /\ y.rows = x.rows
    BY <1>1, <2>1 DEF RunRecord
  <2>3. x.kind # "roundtrip" => x.rows = None
    BY <1>1 DEF TInv, Tidy, Writes
  <2>. QED BY <1>1, <1>3, <2>1, <2>2, <2>3 DEF Tidied, Tidy, Becomes, Busy
<1>4. ASSUME NEW rows, Becomes(r, [x EXCEPT !.asset = a, !.step = "load", !.silver = None,
                                            !.rows = rows])
      PROVE  Tidied(r)
  <2>1. PICK y : y = [x EXCEPT !.asset = a, !.step = "load", !.silver = None, !.rows = rows]
    OBVIOUS
  <2>2. y.kind = x.kind /\ y.step = "load"
    BY <1>1, <2>1 DEF RunRecord
  <2>. QED BY <1>1, <1>4, <2>1, <2>2 DEF Tidied, Tidy, Becomes, Busy, Writes
<1>. QED BY <1>1, <1>2, <1>3, <1>4 DEF Scans

LEMMA TidyBegin ==
  ASSUME MInv, TInv, NEW r \in Runs, NEW a \in Assets, Begin(r, a)
  PROVE  Tidied(r)
<1>1. PICK x \in RunRecord : x = run[r]
  BY DEF MInv
<1>2. CASE Scans(r, a)
  BY <1>2, TidyScans DEF Begin
<1>3. ASSUME NEW step \in {"load", "ask"}, NEW rows,
             Becomes(r, [x EXCEPT !.asset = a, !.step = step, !.rows = rows])
      PROVE  Tidied(r)
  <2>1. PICK y : y = [x EXCEPT !.asset = a, !.step = step, !.rows = rows]
    OBVIOUS
  <2>2. y.kind = x.kind /\ y.step = step
    BY <1>1, <2>1 DEF RunRecord
  <2>. QED BY <1>1, <1>3, <2>1, <2>2 DEF Tidied, Tidy, Becomes, Busy, Writes
<1>4. \/ Scans(r, a)
      \/ \E step \in {"load", "ask"} : \E rows :
           Becomes(r, [x EXCEPT !.asset = a, !.step = step, !.rows = rows])
  <2>1. CASE x.kind = "roundtrip"
    BY <1>1, <2>1 DEF Begin
  <2>2. CASE x.kind # "roundtrip" /\ a = "bronze"
    BY <1>1, <2>2 DEF Begin
  <2>3. CASE x.kind # "roundtrip" /\ a = "callouts"
    BY <1>1, <2>3 DEF Begin
  <2>4. CASE x.kind # "roundtrip" /\ a \notin {"bronze", "callouts"}
    BY <1>1, <2>4 DEF Begin
  <2>. QED BY <2>1, <2>2, <2>3, <2>4
<1>. QED BY <1>2, <1>3, <1>4

LEMMA TidyAnswered == ASSUME MInv, NEW r \in Runs, Answered(r) PROVE Tidied(r)
<1>1. CASE Fails(r)
  BY <1>1, TidyFails
<1>2. CASE Done(r)
  BY <1>2, TidyDone
<1>3. CASE Becomes(r, [run[r] EXCEPT !.step = "load"])
  BY <1>3, TidyGoto DEF Goto, Writes
<1>. QED BY <1>1, <1>2, <1>3 DEF Answered

LEMMA TidyCalls ==
  ASSUME MInv, NEW r \in Runs, Load(r) \/ Overwrite(r) \/ Drop(r) \/ Create(r) \/ AppendRows(r)
  PROVE  Tidied(r)
<1>1. run[r] \in RunRecord
  BY DEF MInv
<1>2. CASE Commit(r) \/ Fails(r)
  BY <1>2, TidyDone, TidyFails DEF Commit
<1>3. ASSUME ~Commit(r), ~Fails(r)
      PROVE  \/ \E step \in Writes : Goto(r, step)
             \/ \E step \in Writes : \E t : Becomes(r, [run[r] EXCEPT !.step = step, !.table = t])
  <2>1. CASE Load(r) \/ Overwrite(r) \/ AppendRows(r)
    BY <1>3, <2>1 DEF Load, Overwrite, AppendRows, Writes
  <2>2. CASE Drop(r)
    BY <2>2 DEF Drop, Writes
  <2>3. CASE Create(r)
    <3>1. PICK step, t :
            /\ step = IF run[r].step = "create" THEN "append" ELSE "reappend"
            /\ Becomes(r, [run[r] EXCEPT !.table = t, !.step = step])
      BY <1>3, <2>3 DEF Create
    <3>2. [run[r] EXCEPT !.table = t, !.step = step] = [run[r] EXCEPT !.step = step, !.table = t]
      BY <1>1 DEF RunRecord
    <3>3. step \in Writes
      BY <3>1 DEF Writes
    <3>. QED BY <3>1, <3>2, <3>3
  <2>. QED BY <2>1, <2>2, <2>3
<1>. QED BY <1>2, <1>3, TidyGoto, TidyTakes

LEMMA TidyLeaves ==
  ASSUME MInv, TInv, NEW r \in Runs, Finish(r) \/ Check(r)
  PROVE  Tidied(r)
<1>1. PICK x \in RunRecord : x = run[r]
  BY DEF MInv
<1>2. CASE \E s \in {"success", "failure"} : Ends(r, s)
  BY <1>2, TidyEnds
<1>3. ASSUME NEW y \in {[x EXCEPT !.step = "check"], [x EXCEPT !.silver = tables["silver"].rows]},
             Becomes(r, y), x.step = "next" => y = [x EXCEPT !.step = "check"]
      PROVE  Tidied(r)
  <2>1. x.step \in {"next", "check"} /\ Tidy(x)
    BY <1>1 DEF Finish, Check, TInv
  <2>2. y.kind = x.kind /\ y.step = "check" /\ y.asset = x.asset /\ y.rows = x.rows
    BY <1>1, <1>3, <2>1 DEF RunRecord
  <2>. QED BY <1>1, <1>3, <2>1, <2>2 DEF Tidied, Tidy, Becomes, Busy, Writes
<1>4. CASE Finish(r)
  BY <1>1, <1>2, <1>3, <1>4 DEF Finish, Goto
<1>5. CASE Check(r)
  BY <1>1, <1>2, <1>3, <1>5 DEF Check, Fails
<1>. QED BY <1>4, <1>5

LEMMA TidyStarts == ASSUME MInv, TInv, NEW r \in Runs, Start(r) PROVE Tidied(r)
<1>1. PICK x \in RunRecord : x = run[r]
  BY DEF MInv
<1>2. PICK y : y = [x EXCEPT !.step = "next", !.left = Plan(x.kind)]
  OBVIOUS
<1>3. y.kind = x.kind /\ y.step = "next" /\ y.asset = x.asset /\ y.rows = x.rows
  BY <1>1, <1>2 DEF RunRecord
<1>4. x.step = "waiting" /\ Tidy(x)
  BY <1>1 DEF Start, TInv
<1>5. run' = [run EXCEPT ![r] = y]
  BY <1>1, <1>2 DEF Start, MInv
<1>. QED BY <1>3, <1>4, <1>5, <1>1 DEF Tidied, Tidy, Busy, Writes

(* Identities are given out in order and never change. *)
LEMMA IdsKept ==
  ASSUME MInv, TInv, NEW r \in Runs, Step(r)
  PROVE  \A a \in Assets : tables'[a] # Absent => tables'[a].id <= created'
<1>1. /\ created \in Nat /\ tables \in [Assets -> AnyTable]
      /\ \A a \in Assets : tables[a] # Absent => tables[a].id <= created
  BY DEF MInv, TInv
<1>2. CASE tables' = tables /\ created' = created
  BY <1>1, <1>2
<1>3. CASE Commit(r) /\ Writing(r) # Absent /\ run[r].step \in Writes /\ created' = created
  <2>1. PICK a \in Assets : a = run[r].asset
    BY <1>3, BusyLemma DEF Busy
  <2>2. tables' = [tables EXCEPT ![a].rows = run[r].rows, ![a].snap = tables[a].snap + 1]
    BY <1>3, <2>1 DEF Commit, Writing
  <2>3. tables'[a].id = tables[a].id /\ \A b \in Assets \ {a} : tables'[b] = tables[b]
    BY <1>1, <2>2 DEF AnyTable
  <2>. QED BY <1>1, <1>3, <2>1, <2>3 DEF Writing
<1>4. CASE Drop(r)
  BY <1>1, <1>4 DEF Drop
<1>5. CASE Create(r) /\ ~(tables' = tables /\ created' = created)
  <2>1. PICK a, new : /\ tables' = [tables EXCEPT ![a] = new] /\ created' = created + 1
                      /\ new.id = created + 1
    BY <1>5 DEF Create, store
  <2>. QED BY <1>1, <2>1 DEF AnyTable
<1>6. CASE Overwrite(r) \/ AppendRows(r)
  BY <1>2, <1>3, <1>6 DEF Overwrite, AppendRows, Writes
<1>. QED BY <1>2, <1>4, <1>5, <1>6
         DEF Step, Start, Begin, Answered, Read, Load, Finish, Check, store

LEMMA TInit == Init => TInv
<1>. SUFFICES ASSUME Init PROVE TInv
  OBVIOUS
<1>1. PICK kind \in [Runs -> UNION {Programs[r] : r \in Runs}] :
        /\ \A r \in Runs : kind[r] \in Programs[r]
        /\ run = [r \in Runs |-> Waiting(kind[r])]
  BY DEF Init
<1>2. \A r \in Runs : /\ run[r].kind = kind[r] /\ run[r].step = "waiting"
                      /\ run[r].asset = None /\ run[r].rows = None
  BY <1>1 DEF Waiting
<1>3. MaxSaves \in Nat /\ MaxKills \in Nat
  BY MedallionAssumption
<1>4. \A r \in Runs : run[r].kind \in Programs[r] /\ Tidy(run[r])
  BY <1>1, <1>2 DEF Tidy
<1>5. \A a \in Assets : tables[a] = Absent
  BY DEF Init
<1>6. saves \in 0..MaxSaves /\ kills \in 0..MaxKills
  BY <1>3 DEF Init
<1>. QED BY <1>4, <1>5, <1>6 DEF TInv

LEMMA TNext == MInv /\ TInv /\ [Next]_vars => TInv'
<1>. SUFFICES ASSUME MInv, TInv, [Next]_vars PROVE TInv'
  OBVIOUS
<1>1. ASSUME NEW r \in Runs, Step(r) PROVE TInv'
  <2>1. Tidied(r)
    <3>1. CASE \/ Start(r) \/ (\E a \in Assets : Begin(r, a)) \/ Answered(r)
               \/ Finish(r) \/ Check(r)
      BY <3>1, TidyStarts, TidyBegin, TidyAnswered, TidyLeaves
    <3>2. CASE Read(r)
      BY <3>2, TidyScans DEF Read
    <3>3. CASE Load(r) \/ Overwrite(r) \/ Drop(r) \/ Create(r) \/ AppendRows(r)
      BY <3>3, TidyCalls
    <3>. QED BY <1>1, <3>1, <3>2, <3>3 DEF Step
  <2>2. UNCHANGED <<saves, kills>>
    BY <1>1 DEF Step, Start, Begin, Answered, Read, Load, Overwrite, Drop, Create, AppendRows,
                Finish, Check, Elsewhere
  <2>. QED BY <1>1, <2>1, <2>2, IdsKept, TidyStep
<1>2. ASSUME NEW r \in Runs, Kill(r) PROVE TInv'
  <2>1. Tidied(r)
    BY <1>2, TidyEnds DEF Kill, Ends, Becomes
  <2>2. PICK y : run' = [run EXCEPT ![r] = y] /\ y.kind = run[r].kind /\ Tidy(y)
    BY <2>1 DEF Tidied
  <2>3. run'[r] = y /\ \A q \in Runs \ {r} : run'[q] = run[q]
    BY <2>2 DEF MInv
  <2>4. kills' \in 0..MaxKills /\ UNCHANGED <<tables, created, saves>>
    BY <1>2, MedallionAssumption DEF Kill, TInv, store
  <2>5. \A q \in Runs : run'[q].kind \in Programs[q] /\ Tidy(run'[q])
    BY <2>2, <2>3 DEF TInv
  <2>. QED BY <2>4, <2>5 DEF TInv, Tidy
<1>3. ASSUME NEW b \in Workbooks, Save(b) PROVE TInv'
  <2>1. saves' \in 0..MaxSaves /\ UNCHANGED <<tables, created, run, kills>>
    BY <1>3, MedallionAssumption DEF Save, TInv, store
  <2>. QED BY <2>1 DEF TInv, Tidy
<1>4. CASE UNCHANGED vars
  BY <1>4 DEF vars, store, TInv, Tidy
<1>. QED BY <1>1, <1>2, <1>3, <1>4 DEF Next

(* The types of the medallion tables: what the catalogue shows is laid out *)
(* by one of its writers and holds what its asset makes of some workbook,  *)
(* and a process holds rows of the asset it is at.                         *)
THEOREM TablesTyped == Spec => []TypeOK
<1>0. Init => LInv
  BY DEF Init, LInv
<1>1. MInv /\ LInv /\ TInv => TypeOK
  <2>. SUFFICES ASSUME MInv, LInv, TInv PROVE TypeOK
    OBVIOUS
  <2>1. /\ \A a \in Assets : EmptyRows(a) \in RowsOf[a]
        /\ \A a \in Assets : \A rows : Ready(a, rows) => rows \in RowsOf[a]
    BY DEF Assets, EmptyRows, RowsOf, Ready, GoldRows, Golds, Silvers, Calls
  <2>2. ASSUME NEW a \in Assets, tables[a] # Absent
        PROVE  /\ tables[a].id \in 1..created /\ tables[a].snap \in Nat
               /\ tables[a].cols \in {Columns(k, a) : k \in {"cli", "roundtrip"}}
               /\ tables[a].rows \in RowsOf[a]
    <3>1. TableInv(a) /\ tables[a].id <= created /\ created \in Nat
      BY <2>2 DEF MInv, TInv
    <3>2. tables[a].id \in Nat /\ tables[a].id # 0 /\ tables[a].snap \in Nat
      BY <2>2, <3>1 DEF TableInv, AnyTable
    <3>. QED BY <2>1, <2>2, <3>1, <3>2 DEF TableInv
  <2>3. ASSUME NEW r \in Runs
        PROVE  /\ run[r].step \in Steps /\ run[r].kind \in Programs[r]
               /\ run[r].left \subseteq Plan(run[r].kind)
               /\ \/ run[r].asset = None
                  \/ /\ run[r].asset \in Plan(run[r].kind)
                     /\ run[r].rows \in {None} \cup RowsOf[run[r].asset]
               /\ run[r].silver \in {None} \cup RowsOf.silver
    <3>1. PICK x \in RunRecord : x = run[r] /\ RunInv(x) /\ Tidy(x) /\ x.kind \in Programs[r]
      BY DEF MInv, TInv
    <3>2. x.step \in Steps /\ x.left \subseteq Plan(x.kind) /\ x.silver \in {None} \cup RowsOf.silver
      BY <3>1 DEF RunRecord, RunInv, RowsOf
    <3>3. ASSUME x.step \in Busy
          PROVE  x.asset \in Plan(x.kind) /\ x.rows \in {None} \cup RowsOf[x.asset]
      <4>1. x.asset \in Plan(x.kind) /\ x.asset \in Assets
        BY <3>1, <3>3, BusyLemma DEF RunInv
      <4>2. CASE x.step \in Writes
        BY <2>1, <3>1, <4>1, <4>2 DEF RunInv
      <4>3. CASE x.step = "ask"
        <5>1. x.asset = "callouts" /\ x.rows \in Calls
          BY <3>1, <4>3 DEF RunInv
        <5>2. RowsOf["callouts"] = {{}} \cup Calls
          BY DEF RowsOf, Calls
        <5>. QED BY <4>1, <5>1, <5>2
      <4>4. CASE x.step = "read"
        <5>1. x.kind # "roundtrip"
          BY <3>1, <4>4 DEF RunInv
        <5>2. x.rows = None
          BY <3>1, <4>4, <5>1 DEF Tidy, Writes
        <5>. QED BY <4>1, <5>2
      <4>. QED BY <3>3, <4>1, <4>2, <4>3, <4>4 DEF Busy
    <3>. QED BY <3>1, <3>2, <3>3 DEF Tidy
  <2>. QED BY <2>2, <2>3 DEF TypeOK, MInv, LInv, TInv
<1>. QED BY InitInv, NextInv, TInit, TNext, LoneNext, <1>0, <1>1, PTL DEF Spec

=============================================================================
