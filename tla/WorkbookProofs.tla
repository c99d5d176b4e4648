---------------------------- MODULE WorkbookProofs ----------------------------
(***************************************************************************)
(* Proofs about what is read from a workbook: its rows, by the parsers of  *)
(* both tracks (SheetParser), and its pictures, by the MLX batch           *)
(* (MlxBatch).  They hold for any workbook, sections and texts in any      *)
(* place, any order of Track A's jobs; for any number of workers, slices,  *)
(* passes and deaths of the batch, and whatever its model answers.         *)
(***************************************************************************)
EXTENDS SheetParser, MlxBatch, FiniteSetTheorems, NaturalsInduction, WellFoundedInduction, TLAPS

-----------------------------------------------------------------------------
(***************************************************************************)
(* Least and greatest numbers.                                             *)
(***************************************************************************)
LEMMA LeastOne ==
  ASSUME NEW S \in SUBSET Nat, S # {}
  PROVE  Least(S) \in S /\ \A y \in S : Least(S) <= y
<1>. DEFINE R == {p \in Nat \X Nat : p[1] < p[2]}
<1>1. IsWellFoundedOn(R, Nat)
  BY NatLessThanWellFounded DEF OpToRel
<1>2. PICK x \in S : \A y \in S : <<y, x>> \notin R
  <2>. HIDE DEF R
  <2>. QED BY <1>1, WFMin
<1>3. \A y \in S : ~(y < x)
  BY <1>2
<1>4. \A y \in S : x <= y
  BY <1>3
<1>. QED BY <1>2, <1>4 DEF Least

LEMMA GreatestOne ==
  ASSUME NEW m \in Nat, NEW S \in SUBSET (0 .. m), S # {}
  PROVE  Greatest(S) \in S /\ \A y \in S : y <= Greatest(S)
<1>. DEFINE T == {m - x : x \in S}
<1>1. T \subseteq Nat /\ T # {}
  <2>1. PICK x \in S : TRUE
    OBVIOUS
  <2>2. m - x \in T
    OBVIOUS
  <2>. QED BY <2>2
<1>. HIDE DEF T
<1>2. PICK t \in T : \A u \in T : t <= u
  BY <1>1, LeastOne
<1>. USE DEF T
<1>3. PICK x \in S : t = m - x
  BY <1>2
<1>4. \A y \in S : y <= x
  <2>1. ASSUME NEW y \in S PROVE y <= x
    <3>1. m - y \in T
      OBVIOUS
    <3>2. t <= m - y
      BY <1>2, <3>1
    <3>. QED BY <1>3, <3>2
  <2>. QED BY <2>1
<1>. QED BY <1>3, <1>4 DEF Greatest

-----------------------------------------------------------------------------
(***************************************************************************)
(* THE PARSERS (SheetParser).                                              *)
(***************************************************************************)

(* Places in the workbook.  Of some places, one comes first. *)
Places == Nat \X Nat \X Nat

LEMMA BeforeOrders ==
  /\ \A c, d, e \in Places : Before(c, d) /\ Before(d, e) => Before(c, e)
  /\ \A c, d \in Places : c = d \/ Before(c, d) \/ Before(d, c)
  /\ \A c, d \in Places : ~(Before(c, d) /\ Before(d, c))
BY DEF Before, Places

LEMMA EarliestOne ==
  ASSUME NEW S \in SUBSET Places, S # {}
  PROVE  Earliest(S) \in S /\ \A e \in S : e = Earliest(S) \/ Before(Earliest(S), e)
<1>. DEFINE A == {d[1] : d \in S}
            a == Least(A)
            B == {d[2] : d \in {c \in S : c[1] = a}}
            b == Least(B)
            C == {d[3] : d \in {c \in S : c[1] = a /\ c[2] = b}}
            z == Least(C)
<1>1. \A d \in S : d \in Places /\ d[1] \in Nat /\ d[2] \in Nat /\ d[3] \in Nat
                   /\ d = <<d[1], d[2], d[3]>>
  BY DEF Places
<1>2. a \in A /\ \A y \in A : a <= y
  <2>1. A \in SUBSET Nat /\ A # {}
    BY <1>1
  <2>. QED BY <2>1, LeastOne
<1>3. b \in B /\ \A y \in B : b <= y
  <2>1. B \in SUBSET Nat /\ B # {}
    BY <1>1, <1>2
  <2>. QED BY <2>1, LeastOne
<1>4. z \in C /\ \A y \in C : z <= y
  <2>1. C \in SUBSET Nat /\ C # {}
    BY <1>1, <1>3
  <2>. QED BY <2>1, LeastOne
<1>5. PICK d \in S : d[1] = a /\ d[2] = b /\ d[3] = z
  BY <1>4
<1>6. ASSUME NEW e \in S PROVE e = d \/ Before(d, e)
  <2>1. a <= e[1]
    BY <1>2
  <2>2. e[1] = a => b <= e[2]
    BY <1>3
  <2>3. e[1] = a /\ e[2] = b => z <= e[3]
    BY <1>4
  <2>4. d = <<a, b, z>> /\ e = <<e[1], e[2], e[3]>> /\ a \in Nat /\ b \in Nat /\ z \in Nat
    BY <1>1, <1>5
  <2>. HIDE DEF a, b, z
  <2>. QED BY <1>1, <1>5, <2>1, <2>2, <2>3, <2>4 DEF Before
<1>. QED BY <1>5, <1>6 DEF Earliest

(***************************************************************************)
(* Sections.  The loops over sections and their rows come to every row     *)
(* below a header once, under the nearest one.                             *)
(***************************************************************************)
Grid(rows) == rows \in Seq(ToSet(rows))

LEMMA AboveLemma ==
  ASSUME NEW rows, Grid(rows), NEW r \in DOMAIN rows, Above(rows, r) # {}
  PROVE  /\ Greatest(Above(rows, r)) \in HeaderRows(rows)
         /\ Greatest(Above(rows, r)) \in 1 .. r - 1
         /\ \A g \in HeaderRows(rows) : g < r => g <= Greatest(Above(rows, r))
<1>1. r \in Nat /\ DOMAIN rows = 1 .. Len(rows) /\ Len(rows) \in Nat /\ r <= Len(rows)
  BY DEF Grid
<1>2. Above(rows, r) \in SUBSET (0 .. r)
  BY <1>1 DEF Above
<1>3. /\ Greatest(Above(rows, r)) \in Above(rows, r)
      /\ \A y \in Above(rows, r) : y <= Greatest(Above(rows, r))
  BY <1>1, <1>2, GreatestOne
<1>. QED BY <1>1, <1>3 DEF Above, HeaderRows

(* Where a section ends. *)
LEMMA DataEndLemma ==
  ASSUME NEW rows, Grid(rows), NEW h \in HeaderRows(rows)
  PROVE  /\ DataEnd(rows, h) \in h .. Len(rows)
         /\ \A g \in HeaderRows(rows) : g > h => g > DataEnd(rows, h)
         /\ \A r \in DOMAIN rows : r > DataEnd(rows, h) =>
              \E g \in HeaderRows(rows) : g > h /\ g <= r
<1>. DEFINE below == {g \in HeaderRows(rows) : g > h}
<1>1. /\ DOMAIN rows = 1 .. Len(rows) /\ Len(rows) \in Nat
      /\ HeaderRows(rows) \subseteq 1 .. Len(rows)
  BY DEF Grid, HeaderRows
<1>2. CASE below = {}
  BY <1>1, <1>2 DEF DataEnd
<1>3. CASE below # {}
  <2>1. below \in SUBSET Nat
    BY <1>1
  <2>2. Least(below) \in below /\ \A y \in below : Least(below) <= y
    BY <1>3, <2>1, LeastOne
  <2>3. DataEnd(rows, h) = Least(below) - 1
    BY <1>3 DEF DataEnd
  <2>4. /\ Least(below) \in HeaderRows(rows) /\ Least(below) > h
        /\ \A g \in HeaderRows(rows) : g > h => Least(below) <= g
    BY <2>2
  <2>. HIDE DEF below
  <2>. QED BY <1>1, <2>3, <2>4
<1>. QED BY <1>2, <1>3

LEMMA SectionRow ==
  ASSUME NEW rows, Grid(rows), NEW h \in HeaderRows(rows), NEW r
  PROVE  r \in h + 1 .. DataEnd(rows, h) <=>
           /\ r \in DOMAIN rows /\ ~IsHeader(rows[r])
           /\ Above(rows, r) # {} /\ h = Greatest(Above(rows, r))
<1>1. /\ DOMAIN rows = 1 .. Len(rows) /\ Len(rows) \in Nat /\ h \in 1 .. Len(rows)
      /\ IsHeader(rows[h])
  BY DEF Grid, HeaderRows
<1>2. ASSUME r \in h + 1 .. DataEnd(rows, h)
      PROVE  /\ r \in DOMAIN rows /\ ~IsHeader(rows[r])
             /\ Above(rows, r) # {} /\ h = Greatest(Above(rows, r))
  <2>1. r \in DOMAIN rows /\ ~IsHeader(rows[r])
    BY <1>1, <1>2, DataEndLemma DEF HeaderRows
  <2>2. h \in Above(rows, r)
    BY <1>1, <1>2, <2>1 DEF Above
  <2>3. /\ Greatest(Above(rows, r)) \in HeaderRows(rows)
        /\ Greatest(Above(rows, r)) \in 1 .. r - 1
        /\ h <= Greatest(Above(rows, r))
    BY <1>1, <1>2, <2>1, <2>2, AboveLemma
  <2>4. ~(Greatest(Above(rows, r)) > h)
    BY <1>1, <1>2, <2>1, <2>3, DataEndLemma
  <2>. QED BY <1>1, <2>1, <2>2, <2>3, <2>4
<1>3. ASSUME /\ r \in DOMAIN rows /\ ~IsHeader(rows[r])
             /\ Above(rows, r) # {} /\ h = Greatest(Above(rows, r))
      PROVE  r \in h + 1 .. DataEnd(rows, h)
  <2>1. h \in 1 .. r - 1 /\ \A g \in HeaderRows(rows) : g < r => g <= h
    BY <1>3, AboveLemma
  <2>2. ~(r > DataEnd(rows, h))
    <3>1. ASSUME r > DataEnd(rows, h) PROVE FALSE
      <4>1. PICK g \in HeaderRows(rows) : g > h /\ g <= r
        BY <1>3, <3>1, DataEndLemma
      <4>2. g # r /\ g \in 1 .. Len(rows)
        BY <1>1, <1>3, <4>1 DEF HeaderRows
      <4>. QED BY <1>1, <1>3, <2>1, <4>1, <4>2
    <3>. QED BY <3>1
  <2>3. DataEnd(rows, h) \in h .. Len(rows)
    BY DataEndLemma
  <2>. QED BY <1>1, <1>3, <2>1, <2>2, <2>3
<1>. QED BY <1>2, <1>3

-----------------------------------------------------------------------------
(***************************************************************************)
(* The rows of the workbook, as both loops come to them.                   *)
(***************************************************************************)
AllRows(t)   == UNION {DataRows(t, n) : n \in DOMAIN workbook}
At(d)     == <<d[1], d[3]>>
RowsOf(t, d) == Shown(t, d[1])

LEMMA WorkbookGrid ==
  ASSUME workbook \in Workbooks
  PROVE  /\ Len(workbook) \in Nat /\ DOMAIN workbook = 1 .. Len(workbook)
         /\ \A n \in DOMAIN workbook : Grid(workbook[n].rows)
<1>1. \A b \in Workbooks :
        /\ b \in Seq(ToSet(b)) /\ \A n \in DOMAIN b : b[n].rows \in Seq(ToSet(b[n].rows))
  BY ParserAssumption
<1>2. workbook \in Seq(ToSet(workbook))
  BY <1>1
<1>. QED BY <1>1, <1>2 DEF Grid

(* What a track makes of a sheet has the rows and cells of the sheet. *)
LEMMA ShownGrid ==
  ASSUME workbook \in Workbooks, NEW t, NEW n \in DOMAIN workbook
  PROVE  /\ Grid(Shown(t, n)) /\ DOMAIN Shown(t, n) = DOMAIN workbook[n].rows
         /\ DOMAIN Texts(t, n) = DOMAIN workbook[n].rows
         /\ \A r \in DOMAIN workbook[n].rows :
              /\ DOMAIN Shown(t, n)[r] = DOMAIN workbook[n].rows[r]
              /\ DOMAIN Texts(t, n)[r] = DOMAIN workbook[n].rows[r]
<1>. DEFINE rows == workbook[n].rows
<1>1. DOMAIN rows = 1 .. Len(rows) /\ Len(rows) \in Nat
  BY WorkbookGrid DEF Grid
<1>2. /\ DOMAIN Shown(t, n) = DOMAIN rows /\ DOMAIN Texts(t, n) = DOMAIN rows
      /\ \A r \in DOMAIN rows : /\ DOMAIN Shown(t, n)[r] = DOMAIN rows[r]
                                /\ DOMAIN Texts(t, n)[r] = DOMAIN rows[r]
  BY DEF Shown, Texts
<1>3. Shown(t, n) = [r \in DOMAIN Shown(t, n) |-> Shown(t, n)[r]]
  BY DEF Shown
<1>4. \A r \in DOMAIN rows : Shown(t, n)[r] \in ToSet(Shown(t, n))
  BY <1>2 DEF ToSet
<1>. HIDE DEF rows
<1>5. Shown(t, n) \in [1 .. Len(rows) -> ToSet(Shown(t, n))]
  BY <1>1, <1>2, <1>3, <1>4
<1>6. Shown(t, n) \in Seq(ToSet(Shown(t, n)))
  BY <1>1, <1>5
<1>. QED BY <1>2, <1>6 DEF Grid, rows

LEMMA DataRowsLemma ==
  ASSUME workbook \in Workbooks, NEW t, NEW n \in DOMAIN workbook,
         NEW rows, rows = Shown(t, n), NEW d
  PROVE  d \in DataRows(t, n) <=>
           \E r \in DOMAIN rows : /\ ~IsHeader(rows[r]) /\ Above(rows, r) # {}
                                  /\ d = <<n, Greatest(Above(rows, r)), r>>
<1>. DEFINE sections == Sections(t, n)
<1>0. Grid(rows)
  BY ShownGrid
<1>1. /\ DOMAIN sections = HeaderRows(rows)
      /\ \A h \in HeaderRows(rows) : sections[h].first = h + 1 /\ sections[h].last = DataEnd(rows, h)
  BY DEF Sections, DetectSections
<1>2. DataRows(t, n) = UNION {{<<n, h, r>> : r \in sections[h].first .. sections[h].last} :
                             h \in DOMAIN sections}
  BY DEF DataRows
<1>. HIDE DEF sections
<1>3. d \in DataRows(t, n) <=>
        \E h \in HeaderRows(rows) : \E r \in h + 1 .. DataEnd(rows, h) : d = <<n, h, r>>
  BY <1>1, <1>2
<1>4. ASSUME d \in DataRows(t, n)
      PROVE  \E r \in DOMAIN rows : /\ ~IsHeader(rows[r]) /\ Above(rows, r) # {}
                                    /\ d = <<n, Greatest(Above(rows, r)), r>>
  <2>1. PICK h \in HeaderRows(rows) : \E r \in h + 1 .. DataEnd(rows, h) : d = <<n, h, r>>
    BY <1>3, <1>4
  <2>2. PICK r \in h + 1 .. DataEnd(rows, h) : d = <<n, h, r>>
    BY <2>1
  <2>. QED BY <1>0, <2>2, SectionRow
<1>5. ASSUME NEW r \in DOMAIN rows, ~IsHeader(rows[r]), Above(rows, r) # {},
             d = <<n, Greatest(Above(rows, r)), r>>
      PROVE  d \in DataRows(t, n)
  <2>1. Greatest(Above(rows, r)) \in HeaderRows(rows)
    BY <1>0, <1>5, AboveLemma
  <2>2. r \in Greatest(Above(rows, r)) + 1 .. DataEnd(rows, Greatest(Above(rows, r)))
    BY <1>0, <1>5, <2>1, SectionRow
  <2>. QED BY <1>3, <1>5, <2>1, <2>2
<1>. QED BY <1>4, <1>5

(* A row of a loop: its place, its header, and what is made of it. *)
LEMMA RowLemma ==
  ASSUME workbook \in Workbooks, NEW t, NEW d \in AllRows(t)
  PROVE  /\ d \in Places /\ d[1] \in DOMAIN workbook /\ d \in DataRows(t, d[1])
         /\ d[3] \in DOMAIN RowsOf(t, d) /\ Grid(RowsOf(t, d))
         /\ ~IsHeader(RowsOf(t, d)[d[3]]) /\ Above(RowsOf(t, d), d[3]) # {}
         /\ d[2] = Greatest(Above(RowsOf(t, d), d[3])) /\ d[2] \in HeaderRows(RowsOf(t, d))
<1>1. PICK n \in DOMAIN workbook : d \in DataRows(t, n)
  BY DEF AllRows
<1>2. PICK r \in DOMAIN Shown(t, n) :
        /\ ~IsHeader(Shown(t, n)[r]) /\ Above(Shown(t, n), r) # {}
        /\ d = <<n, Greatest(Above(Shown(t, n), r)), r>>
  BY <1>1, DataRowsLemma
<1>3. d[1] = n /\ d[3] = r /\ d[2] = Greatest(Above(Shown(t, n), r)) /\ RowsOf(t, d) = Shown(t, n)
  BY <1>2 DEF RowsOf
<1>4. Grid(Shown(t, n)) /\ n \in Nat
  BY WorkbookGrid, ShownGrid
<1>5. /\ Greatest(Above(Shown(t, n), r)) \in HeaderRows(Shown(t, n))
      /\ Greatest(Above(Shown(t, n), r)) \in 1 .. r - 1 /\ r \in Nat
  BY <1>2, <1>4, AboveLemma DEF Grid
<1>6. d \in Places
  BY <1>2, <1>4, <1>5 DEF Places
<1>. QED BY <1>1, <1>2, <1>3, <1>4, <1>5, <1>6

LEMMA SectionLemma ==
  ASSUME workbook \in Workbooks, NEW t, NEW d \in AllRows(t)
  PROVE  /\ SectionAt(t, d).match = Under(RowsOf(t, d), d[3])
         /\ SectionAt(t, d).title = FindTitleAbove(RowsOf(t, d), Texts(t, d[1]), d[2])
         /\ RowAt(t, d) = RowsOf(t, d)[d[3]]
         /\ PartNumberOf(RowAt(t, d), SectionAt(t, d).match) = PartAt(t, At(d))
<1>1. d[2] = Greatest(Above(RowsOf(t, d), d[3])) /\ d[2] \in HeaderRows(RowsOf(t, d))
  BY RowLemma
<1>2. SectionAt(t, d) = DetectSections(RowsOf(t, d), Texts(t, d[1]))[d[2]] /\ RowAt(t, d) = RowsOf(t, d)[d[3]]
  BY DEF SectionAt, Sections, RowAt, RowsOf
<1>3. /\ DetectSections(RowsOf(t, d), Texts(t, d[1]))[d[2]].match = MatchHeader(RowsOf(t, d)[d[2]])
      /\ DetectSections(RowsOf(t, d), Texts(t, d[1]))[d[2]].title = FindTitleAbove(RowsOf(t, d), Texts(t, d[1]), d[2])
  BY <1>1 DEF DetectSections
<1>4. SectionAt(t, d).match = Under(RowsOf(t, d), d[3])
  BY <1>1, <1>2, <1>3 DEF Under
<1>5. PartAt(t, At(d)) = PartNumberOf(RowsOf(t, d)[d[3]], Under(RowsOf(t, d), d[3]))
  BY DEF PartAt, At, RowsOf
<1>. QED BY <1>2, <1>3, <1>4, <1>5

LEMMA NumberedLemma ==
  ASSUME workbook \in Workbooks, NEW t
  PROVE  /\ \A d \in AllRows(t) :
              At(d) \in Numbered(t) <=> PartNumberOf(RowAt(t, d), SectionAt(t, d).match) \notin {None, ""}
         /\ \A a \in Numbered(t) : \E d \in AllRows(t) : At(d) = a
         /\ \A a \in Numbered(t) : a = <<a[1], a[2]>> /\ PartAt(t, a) # None
<1>0. \A n, r : <<n, r>> \in Numbered(t) <=>
        /\ n \in DOMAIN workbook /\ r \in DOMAIN workbook[n].rows
        /\ HasNumber(Shown(t, n), r)
  BY DEF Numbered
<1>1. \A n, r : <<n, r>> \in Numbered(t) <=>
        /\ n \in DOMAIN workbook /\ r \in DOMAIN Shown(t, n)
        /\ ~IsHeader(Shown(t, n)[r]) /\ Above(Shown(t, n), r) # {}
        /\ PartNumberOf(Shown(t, n)[r], Under(Shown(t, n), r)) \notin {None, ""}
  BY <1>0, ShownGrid DEF HasNumber
<1>2. \A a \in Numbered(t) : a = <<a[1], a[2]>>
  BY DEF Numbered
<1>3. ASSUME NEW d \in AllRows(t)
      PROVE  At(d) \in Numbered(t) <=> PartNumberOf(RowAt(t, d), SectionAt(t, d).match) \notin {None, ""}
  <2>1. At(d) \in Numbered(t) <=>
          PartNumberOf(RowsOf(t, d)[d[3]], Under(RowsOf(t, d), d[3])) \notin {None, ""}
    BY <1>1, RowLemma DEF At, RowsOf
  <2>. QED BY <2>1, SectionLemma
<1>4. ASSUME NEW a \in Numbered(t) PROVE (\E d \in AllRows(t) : At(d) = a) /\ PartAt(t, a) # None
  <2>1. /\ a = <<a[1], a[2]>>
        /\ a[1] \in DOMAIN workbook /\ a[2] \in DOMAIN Shown(t, a[1])
        /\ ~IsHeader(Shown(t, a[1])[a[2]]) /\ Above(Shown(t, a[1]), a[2]) # {}
        /\ PartNumberOf(Shown(t, a[1])[a[2]], Under(Shown(t, a[1]), a[2])) \notin {None, ""}
    BY <1>1, <1>2
  <2>2. <<a[1], Greatest(Above(Shown(t, a[1]), a[2])), a[2]>> \in DataRows(t, a[1])
    BY <2>1, DataRowsLemma
  <2>3. PartAt(t, a) # None
    BY <2>1 DEF PartAt
  <2>4. \E d \in AllRows(t) : d = <<a[1], Greatest(Above(Shown(t, a[1]), a[2])), a[2]>>
    BY <2>1, <2>2 DEF AllRows
  <2>5. \E d \in AllRows(t) : At(d) = <<a[1], a[2]>>
    BY <2>4 DEF At
  <2>. QED BY <2>1, <2>3, <2>5
<1>. QED BY <1>2, <1>3, <1>4

(* What either track accepts. *)
LEMMA AcceptedLemma ==
  ASSUME workbook \in Workbooks
  PROVE  /\ \A d \in AllRows("a") :
              AcceptedByTrackA(RowAt("a", d), SectionAt("a", d).match) <=> At(d) \in Numbered("a")
         /\ \A d \in AllRows("b") :
              Accepted(RowAt("b", d), SectionAt("b", d).match) <=> At(d) \in Listed
<1>1. ASSUME NEW d \in AllRows("a")
      PROVE  AcceptedByTrackA(RowAt("a", d), SectionAt("a", d).match) <=> At(d) \in Numbered("a")
  BY NumberedLemma DEF AcceptedByTrackA
<1>2. ASSUME NEW d \in AllRows("b")
      PROVE  Accepted(RowAt("b", d), SectionAt("b", d).match) <=> At(d) \in Listed
  <2>1. At(d) \in Numbered("b") <=> PartNumberOf(RowAt("b", d), SectionAt("b", d).match) \notin {None, ""}
    BY NumberedLemma
  <2>2. /\ SectionAt("b", d).match = Under(RowsOf("b", d), d[3])
        /\ PartNumberOf(RowAt("b", d), SectionAt("b", d).match) = PartAt("b", At(d))
    BY SectionLemma
  <2>3. At(d)[1] = d[1] /\ At(d)[2] = d[3]
    BY DEF At
  <2>4. At(d) \in Listed <=>
          At(d) \in Numbered("b") /\ ~IsLabelOf(PartAt("b", At(d)), Under(RowsOf("b", d), d[3]).signature)
    BY <2>3 DEF Listed, RowsOf
  <2>. QED BY <2>1, <2>2, <2>4 DEF Accepted
<1>. QED BY <1>1, <1>2

(* The order of the loops is that of the sheets and their rows. *)
LEMMA OrderLemma ==
  ASSUME workbook \in Workbooks, NEW t, NEW d \in AllRows(t), NEW e \in AllRows(t)
  PROVE  /\ Before(d, e) <=> Later(At(e), At(d))
         /\ At(d) = At(e) => d = e
<1>1. /\ d \in Places /\ e \in Places
      /\ d = <<d[1], d[2], d[3]>> /\ e = <<e[1], e[2], e[3]>>
      /\ d[1] \in Nat /\ e[1] \in Nat /\ d[2] \in Nat /\ e[2] \in Nat /\ d[3] \in Nat /\ e[3] \in Nat
  BY RowLemma DEF Places
<1>2. ASSUME d[1] = e[1], d[3] < e[3] PROVE d[2] <= e[2]
  <2>1. /\ d[2] \in HeaderRows(RowsOf(t, d)) /\ d[2] \in 1 .. d[3] - 1
    BY RowLemma, AboveLemma
  <2>2. RowsOf(t, d) = RowsOf(t, e)
    BY <1>2 DEF RowsOf
  <2>3. d[2] < e[3]
    BY <1>1, <1>2, <2>1
  <2>. QED BY <2>1, <2>2, <2>3, RowLemma, AboveLemma
<1>3. ASSUME d[1] = e[1], d[2] < e[2] PROVE d[3] < e[3]
  <2>1. /\ e[2] \in HeaderRows(RowsOf(t, e)) /\ e[2] \in 1 .. e[3] - 1
    BY RowLemma, AboveLemma
  <2>2. RowsOf(t, d) = RowsOf(t, e)
    BY <1>3 DEF RowsOf
  <2>3. d[3] # e[2]
    BY <2>1, <2>2, RowLemma DEF HeaderRows
  <2>4. ~(e[2] < d[3])
    <3>1. ASSUME e[2] < d[3] PROVE FALSE
      <4>1. e[2] <= d[2]
        BY <2>1, <2>2, <3>1, RowLemma, AboveLemma
      <4>. QED BY <1>1, <1>3, <4>1
    <3>. QED BY <3>1
  <2>. QED BY <1>1, <2>1, <2>3, <2>4
<1>4. d[1] = e[1] /\ d[3] = e[3] => d[2] = e[2]
  BY RowLemma DEF RowsOf
<1>5. At(d) = At(e) <=> d[1] = e[1] /\ d[3] = e[3]
  BY DEF At
<1>6. Later(At(e), At(d)) <=> e[1] > d[1] \/ (e[1] = d[1] /\ e[3] > d[3])
  BY DEF Later, At
<1>. QED BY <1>1, <1>2, <1>3, <1>4, <1>5, <1>6 DEF Before

-----------------------------------------------------------------------------
(***************************************************************************)
(* A turn of a loop.                                                       *)
(***************************************************************************)
LEMMA StartLemma ==
  ASSUME workbook \in Workbooks, NEW t
  PROVE  Start \in Places /\ \A d \in AllRows(t) : Before(Start, d)
<1>1. Start \in Places
  BY DEF Start, Places
<1>2. ASSUME NEW d \in AllRows(t) PROVE Before(Start, d)
  <2>1. d[1] \in 1 .. Len(workbook) /\ Len(workbook) \in Nat
    BY RowLemma, WorkbookGrid
  <2>. QED BY <2>1 DEF Before, Start
<1>. QED BY <1>1, <1>2

(* The next row of a loop over some rows: what is not after it is the row  *)
(* itself and what was not after the row before.                           *)
LEMMA TurnLemma ==
  ASSUME NEW S \in SUBSET Places, NEW q \in Places,
         {d \in S : Before(q, d)} # {}, NEW p, p = Earliest({d \in S : Before(q, d)})
  PROVE  /\ p \in S /\ Before(q, p)
         /\ \A d \in S : ~Before(p, d) <=> d = p \/ ~Before(q, d)
         /\ \A d \in S : ~Before(q, d) => Before(d, p)
<1>1. S \subseteq Places /\ q \in Places
  OBVIOUS
<1>2. /\ p \in S /\ Before(q, p)
      /\ \A d \in S : Before(q, d) => d = p \/ Before(p, d)
  <2>1. {d \in S : Before(q, d)} \in SUBSET Places
    BY <1>1
  <2>. QED BY <2>1, EarliestOne
<1>3. ASSUME NEW d \in S PROVE ~Before(p, d) <=> d = p \/ ~Before(q, d)
  <2>1. d \in Places /\ p \in Places
    BY <1>1, <1>2
  <2>. QED BY <1>1, <1>2, <2>1, BeforeOrders
<1>4. ASSUME NEW d \in S, ~Before(q, d) PROVE Before(d, p)
  <2>1. d \in Places /\ p \in Places /\ (d = q \/ Before(d, q))
    BY <1>1, <1>2, <1>4, BeforeOrders
  <2>. QED BY <1>1, <1>2, <2>1, BeforeOrders
<1>. QED BY <1>2, <1>3, <1>4

(* A step reads another row of the same workbook. *)
LEMMA WorkbookStays ==
  ASSUME workbook' = workbook
  PROVE  /\ \A t : AllRows(t)' = AllRows(t) /\ Numbered(t)' = Numbered(t)
         /\ \A t, n : DataRows(t, n)' = DataRows(t, n)
         /\ \A t, a : PartAt(t, a)' = PartAt(t, a)
         /\ \A d : ProductAt(d)' = ProductAt(d) /\ UpsertAt(d)' = UpsertAt(d)
         /\ Listed' = Listed
<1>1. \A t, n : Shown(t, n)' = Shown(t, n) /\ Texts(t, n)' = Texts(t, n)
  BY DEF Shown, Texts
<1>2. \A t, n : Sections(t, n)' = Sections(t, n)
  BY <1>1 DEF Sections
<1>3. \A t, n : DataRows(t, n)' = DataRows(t, n)
  BY <1>2 DEF DataRows
<1>4. \A t, d : RowAt(t, d)' = RowAt(t, d) /\ SectionAt(t, d)' = SectionAt(t, d)
  BY <1>1, <1>2 DEF RowAt, SectionAt
<1>5. \A d : ProductAt(d)' = ProductAt(d) /\ UpsertAt(d)' = UpsertAt(d)
  BY <1>4 DEF ProductAt, UpsertAt, CellsAt
<1>6. \A t, a : PartAt(t, a)' = PartAt(t, a)
  BY <1>1 DEF PartAt
<1>7. \A t : Numbered(t)' = Numbered(t)
  BY <1>1 DEF Numbered
<1>8. Listed' = Listed
  BY <1>1, <1>6, <1>7 DEF Listed
<1>9. \A t : AllRows(t)' = AllRows(t)
  BY <1>3 DEF AllRows
<1>. QED BY <1>3, <1>5, <1>6, <1>7, <1>8, <1>9

-----------------------------------------------------------------------------
(***************************************************************************)
(* Track B.  The products are those of the listed rows up to the one the   *)
(* parser has come to, in the order of the workbook.                       *)
(***************************************************************************)
ParserInv ==
  /\ workbook \in Workbooks /\ position \in {Start} \cup AllRows("b")
  /\ products \in Seq({ProductAt(d) : d \in AllRows("b")})
  /\ \A i \in DOMAIN products :
       \E d \in AllRows("b") : ~Before(position, d) /\ At(d) \in Listed /\ products[i] = ProductAt(d)
  /\ \A d \in AllRows("b") : ~Before(position, d) /\ At(d) \in Listed =>
       \E i \in DOMAIN products : products[i] = ProductAt(d)
  /\ \A i, j \in DOMAIN products : i < j => Later(products[j].at, products[i].at)
  /\ csv # None => Unparsed = {} /\ csv = LastPerPart(products)

LEMMA ProductLemma ==
  ASSUME workbook \in Workbooks, NEW d \in AllRows("b")
  PROVE  ProductAt(d).at = At(d) /\ ProductAt(d).part = PartAt("b", At(d))
BY SectionLemma DEF ProductAt, ToProduct, At

LEMMA ParserInit == ParityInit => ParserInv
<1>. SUFFICES ASSUME ParityInit PROVE ParserInv
  OBVIOUS
<1>. USE DEF ParityInit
<1>1. products \in Seq({ProductAt(d) : d \in AllRows("b")}) /\ DOMAIN products = {}
  OBVIOUS
<1>2. \A d \in AllRows("b") : Before(position, d)
  BY StartLemma
<1>. QED BY <1>1, <1>2 DEF ParserInv

LEMMA ParseRowInv ==
  ASSUME ParserInv, ParseRow  PROVE ParserInv'
<1>. DEFINE p == position'
            all == {ProductAt(d) : d \in AllRows("b")}
<1>1. workbook \in Workbooks /\ workbook' = workbook /\ csv' = csv
  BY DEF ParserInv, ParseRow
<1>2. /\ p \in AllRows("b") /\ Before(position, p)
      /\ \A d \in AllRows("b") : ~Before(p, d) <=> d = p \/ ~Before(position, d)
      /\ \A d \in AllRows("b") : ~Before(position, d) => Before(d, p)
  <2>1. {d \in AllRows("b") : Before(position, d)} = Unparsed
    BY DEF Unparsed, AllRows
  <2>2. Unparsed # {} /\ p = Earliest(Unparsed) /\ position \in {Start} \cup AllRows("b")
    BY DEF ParserInv, ParseRow
  <2>3. AllRows("b") \in SUBSET Places /\ position \in Places
    BY <1>1, <2>2, StartLemma, RowLemma
  <2>. HIDE DEF p
  <2>. QED BY <2>1, <2>2, <2>3, TurnLemma
<1>3. csv = None
  BY DEF ParserInv, ParseRow
<1>4. products' = IF At(p) \in Listed THEN Append(products, ProductAt(p)) ELSE products
  BY <1>1, <1>2, AcceptedLemma DEF ParseRow
<1>5. products \in Seq(all) /\ ProductAt(p) \in all
  BY <1>2 DEF ParserInv
<1>. HIDE DEF p
<1>6. CASE At(p) \notin Listed
  <2>1. products' = products
    BY <1>4, <1>6
  <2>. HIDE DEF all
  <2>. QED BY <1>1, <1>2, <1>3, <1>5, <1>6, <2>1, WorkbookStays DEF ParserInv, p, all
<1>7. CASE At(p) \in Listed
  <2>. DEFINE n == Len(products) + 1
  <2>0. products' = Append(products, ProductAt(p))
    BY <1>4, <1>7
  <2>1. /\ products' \in Seq(all) /\ Len(products) \in Nat
        /\ DOMAIN products = 1 .. Len(products) /\ DOMAIN products' = DOMAIN products \cup {n}
        /\ n \notin DOMAIN products
        /\ products'[n] = ProductAt(p) /\ \A i \in DOMAIN products : products'[i] = products[i]
    <3>. HIDE DEF all
    <3>. QED BY <1>5, <2>0
  <2>2. ASSUME NEW i \in DOMAIN products'
        PROVE  \E d \in AllRows("b") : ~Before(p, d) /\ At(d) \in Listed /\ products'[i] = ProductAt(d)
    <3>1. CASE i = n
      BY <1>2, <1>7, <2>1, <3>1
    <3>2. CASE i \in DOMAIN products
      BY <1>2, <2>1, <3>2 DEF ParserInv
    <3>. QED BY <2>1, <3>1, <3>2
  <2>3. ASSUME NEW d \in AllRows("b"), ~Before(p, d), At(d) \in Listed
        PROVE  \E i \in DOMAIN products' : products'[i] = ProductAt(d)
    <3>1. CASE d = p
      BY <2>1, <3>1
    <3>2. CASE d # p
      <4>1. PICK i \in DOMAIN products : products[i] = ProductAt(d)
        BY <1>2, <2>3, <3>2 DEF ParserInv
      <4>. QED BY <2>1, <4>1
    <3>. QED BY <3>1, <3>2
  <2>4. ASSUME NEW i \in DOMAIN products', NEW j \in DOMAIN products', i < j
        PROVE  Later(products'[j].at, products'[i].at)
    <3>1. CASE j \in DOMAIN products
      BY <2>1, <2>4, <3>1 DEF ParserInv
    <3>2. CASE j = n
      <4>1. i \in DOMAIN products
        BY <2>1, <2>4, <3>2
      <4>2. PICK d \in AllRows("b") : ~Before(position, d) /\ products[i] = ProductAt(d)
        BY <4>1 DEF ParserInv
      <4>3. Later(At(p), At(d))
        BY <1>1, <1>2, <4>2, OrderLemma
      <4>. QED BY <1>1, <1>2, <2>1, <3>2, <4>1, <4>2, <4>3, ProductLemma
    <3>. QED BY <2>1, <3>1, <3>2
  <2>. HIDE DEF n
  <2>5. products' \in Seq({ProductAt(d) : d \in AllRows("b")})
    BY <2>1
  <2>. HIDE DEF all
  <2>. QED BY <1>1, <1>2, <1>3, <2>2, <2>3, <2>4, <2>5, WorkbookStays DEF ParserInv, p
<1>. QED BY <1>6, <1>7

LEMMA ParserNext == ParserInv /\ [ParityNext]_parityVars => ParserInv'
<1>. SUFFICES ASSUME ParserInv, [ParityNext]_parityVars PROVE ParserInv'
  OBVIOUS
<1>1. CASE ParseRow
  BY <1>1, ParseRowInv
<1>2. CASE WriteCsv
  <2>1. /\ UNCHANGED <<workbook, position, products>> /\ Unparsed = {}
        /\ csv' = LastPerPart(products)
    BY <1>2 DEF WriteCsv
  <2>2. Unparsed' = Unparsed
    BY <2>1, WorkbookStays DEF Unparsed
  <2>3. LastPerPart(products)' = LastPerPart(products)
    BY <2>1 DEF LastPerPart
  <2>. QED BY <2>1, <2>2, <2>3, WorkbookStays DEF ParserInv
<1>3. ASSUME UNCHANGED <<workbook, position, products, csv>> PROVE ParserInv'
  <2>1. Unparsed' = Unparsed
    BY <1>3, WorkbookStays DEF Unparsed
  <2>2. LastPerPart(products)' = LastPerPart(products)
    BY <1>3 DEF LastPerPart
  <2>. QED BY <1>3, <2>1, <2>2, WorkbookStays DEF ParserInv
<1>4. ASSUME NEW n \in DOMAIN workbook, IngestRow(n) PROVE ParserInv'
  BY <1>3, <1>4 DEF IngestRow
<1>5. CASE UNCHANGED parityVars
  BY <1>3, <1>5 DEF parityVars
<1>. QED BY <1>1, <1>2, <1>4, <1>5 DEF ParityNext

LEMMA ParserAlways == ParitySpec => []ParserInv
BY ParserInit, ParserNext, PTL DEF ParitySpec

(* Of a part's products, that of the last row is kept. *)
LEMMA LastProduct ==
  ASSUME ParserInv, csv # None, NEW p \in DOMAIN csv
  PROVE  \E d \in AllRows("b") : /\ At(d) \in Listings(p) /\ csv[p] = ProductAt(d)
                            /\ \A a \in Listings(p) : a = At(d) \/ Later(At(d), a)
<1>. DEFINE mine == {i \in DOMAIN products : products[i].part = p}
<1>1. workbook \in Workbooks /\ csv = LastPerPart(products)
  BY DEF ParserInv
<1>2. DOMAIN products = 1 .. Len(products) /\ Len(products) \in Nat
  BY DEF ParserInv
<1>3. mine # {} /\ csv[p] = products[Greatest(mine)]
  BY <1>1 DEF LastPerPart
<1>4. mine \in SUBSET (0 .. Len(products))
  BY <1>2
<1>5. Greatest(mine) \in mine /\ \A j \in mine : j <= Greatest(mine)
  BY <1>2, <1>3, <1>4, GreatestOne
<1>6. PICK i \in mine : i = Greatest(mine)
  BY <1>5
<1>7. PICK d \in AllRows("b") : At(d) \in Listed /\ products[i] = ProductAt(d)
  BY DEF ParserInv
<1>8. At(d) \in Listings(p)
  BY <1>1, <1>6, <1>7, ProductLemma DEF Listings
<1>9. ASSUME NEW a \in Listings(p) PROVE a = At(d) \/ Later(At(d), a)
  <2>1. a \in Listed /\ a \in Numbered("b") /\ PartAt("b", a) = p
    BY DEF Listings, Listed
  <2>2. PICK e \in AllRows("b") : At(e) = a
    BY <1>1, <2>1, NumberedLemma
  <2>3. ~Before(position, e)
    BY DEF ParserInv, Unparsed, AllRows
  <2>4. PICK j \in DOMAIN products : products[j] = ProductAt(e)
    BY <2>1, <2>2, <2>3 DEF ParserInv
  <2>5. products[j].part = p /\ products[j].at = a /\ products[i].at = At(d)
    BY <1>1, <1>7, <2>1, <2>2, <2>4, ProductLemma
  <2>6. j \in mine
    BY <2>5
  <2>7. j = i \/ j < i
    <3>1. j <= i /\ j \in Nat /\ i \in Nat
      BY <1>2, <1>5, <1>6, <2>6
    <3>. QED BY <3>1
  <2>. HIDE DEF mine
  <2>8. CASE j = i
    BY <2>5, <2>8
  <2>9. CASE j < i
    BY <1>6, <2>5, <2>9 DEF ParserInv, mine
  <2>. QED BY <2>7, <2>8, <2>9
<1>. HIDE DEF mine
<1>. QED BY <1>3, <1>6, <1>7, <1>8, <1>9

(* Track B's file holds each part of the workbook once, as its last        *)
(* appearance has it, and nothing else: the loops of parse_xlsx.py lose no *)
(* row and the dictionary of parity_check.py keeps the last.               *)
THEOREM FileHoldsLast == ParitySpec => []LastAppearanceKept
<1>1. ParserInv => LastAppearanceKept
  <2>. SUFFICES ASSUME ParserInv, csv # None
       PROVE  /\ \A p \in DOMAIN csv : /\ csv[p].at \in Listings(p)
                                       /\ \A a \in Listings(p) : a = csv[p].at \/ Later(csv[p].at, a)
              /\ \A a \in Listed : PartAt("b", a) \in DOMAIN csv
    BY DEF LastAppearanceKept
  <2>0. workbook \in Workbooks /\ csv = LastPerPart(products)
    BY DEF ParserInv
  <2>1. ASSUME NEW p \in DOMAIN csv
        PROVE  /\ csv[p].at \in Listings(p)
               /\ \A a \in Listings(p) : a = csv[p].at \/ Later(csv[p].at, a)
    BY <2>0, LastProduct, ProductLemma
  <2>2. ASSUME NEW a \in Listed PROVE PartAt("b", a) \in DOMAIN csv
    <3>1. PICK d \in AllRows("b") : At(d) = a
      BY <2>0, NumberedLemma DEF Listed
    <3>2. PICK i \in DOMAIN products : products[i] = ProductAt(d)
      BY <3>1 DEF ParserInv, Unparsed, AllRows
    <3>3. products[i].part = PartAt("b", a)
      BY <2>0, <3>1, <3>2, ProductLemma
    <3>. QED BY <2>0, <3>3 DEF LastPerPart
  <2>. QED BY <2>1, <2>2
<1>. QED BY <1>1, ParserAlways, PTL

-----------------------------------------------------------------------------
(* Titles. *)
LEMMA TitleLemma ==
  ASSUME NEW rows, NEW texts, Grid(rows),
         \A r \in DOMAIN rows : DOMAIN texts[r] \subseteq Nat,
         NEW h \in HeaderRows(rows), FindTitleAbove(rows, texts, h) # None
  PROVE  \E t \in h - 4 .. h - 1 :
           /\ t > 0 /\ Above(rows, h) \cap t .. h = {}
           /\ \E c \in DOMAIN texts[t] : texts[t][c] = FindTitleAbove(rows, texts, h)
<1>. DEFINE titles == {r \in h - MaxLookback .. h - 1 :
                         /\ r > 0 /\ MayBeTitle(texts[r])
                         /\ \A q \in r .. h - 1 : ~IsHeader(rows[q])}
            t == Greatest(titles)
<1>1. DOMAIN rows = 1 .. Len(rows) /\ Len(rows) \in Nat /\ h \in 1 .. Len(rows)
  BY DEF Grid, HeaderRows
<1>2. titles # {} /\ FindTitleAbove(rows, texts, h) = First(texts[t])
  BY DEF FindTitleAbove
<1>3. titles \in SUBSET (0 .. h)
  BY <1>1 DEF MaxLookback
<1>4. t \in titles
  <2>1. h \in Nat /\ titles # {}
    BY <1>1, <1>2
  <2>. QED BY ONLY <1>3, <2>1, GreatestOne
<1>5. /\ t \in h - 4 .. h - 1 /\ t > 0 /\ MayBeTitle(texts[t]) /\ t \in DOMAIN rows
      /\ \A q \in t .. h - 1 : ~IsHeader(rows[q])
  BY <1>1, <1>4 DEF MaxLookback
<1>. HIDE DEF t, titles
<1>6. Filled(texts[t]) # {}
  <2>1. Cardinality(Filled(texts[t])) # 0
    BY <1>5 DEF MayBeTitle, TitleMaxFilledCells
  <2>2. Cardinality({}) = 0
    BY FS_EmptySet
  <2>. QED BY ONLY <2>1, <2>2
<1>7. Filled(texts[t]) \in SUBSET Nat /\ Filled(texts[t]) \subseteq DOMAIN texts[t]
  BY <1>5 DEF Filled
<1>8. Least(Filled(texts[t])) \in Filled(texts[t])
  BY <1>6, <1>7, LeastOne
<1>9. Above(rows, h) \cap t .. h = {}
  BY <1>1, <1>5 DEF Above
<1>. QED BY <1>2, <1>5, <1>7, <1>8, <1>9 DEF First

(* A row of the workbook has its cells. *)
LEMMA CellsLemma ==
  ASSUME workbook \in Workbooks, NEW n \in DOMAIN workbook, NEW r \in DOMAIN workbook[n].rows
  PROVE  LET cells == workbook[n].rows[r]
         IN  DOMAIN cells = 1 .. Len(cells) /\ Len(cells) \in Nat
<1>1. workbook[n].rows[r] \in Seq(ToSet(workbook[n].rows[r]))
  BY ParserAssumption
<1>. QED BY <1>1

(* Whatever stands around it, the title of a section is a text of one of   *)
(* the four rows above its own header: _find_title_above stops at another  *)
(* header.                                                                 *)
THEOREM SectionsNamedByOwnTitle == ParitySpec => []TitleIsOwn
<1>1. ParserInv => TitleIsOwn
  <2>. SUFFICES ASSUME ParserInv, NEW i \in DOMAIN products, NEW n, n = products[i].at[1],
                       NEW h, h = Greatest(Above(Shown("b", n), products[i].at[2])),
                       NEW title, title = products[i].fitment[1].section,
                       products[i].fitment # << >>, title # None
       PROVE  \E t \in h - 4 .. h - 1 :
                /\ t > 0 /\ Above(Shown("b", n), h) \cap t .. h = {}
                /\ \E c \in DOMAIN Texts("b", n)[t] : Texts("b", n)[t][c] = title
    BY DEF TitleIsOwn
  <2>1. workbook \in Workbooks
    BY DEF ParserInv
  <2>2. PICK d \in AllRows("b") : products[i] = ProductAt(d)
    BY DEF ParserInv
  <2>3. products[i].at[1] = d[1] /\ products[i].at[2] = d[3]
    <3>1. products[i].at = At(d)
      BY <2>1, <2>2, ProductLemma
    <3>. QED BY <3>1 DEF At
  <2>4. /\ n = d[1] /\ n \in DOMAIN workbook /\ Shown("b", n) = RowsOf("b", d)
        /\ h = d[2] /\ Grid(Shown("b", n)) /\ h \in HeaderRows(Shown("b", n))
    BY <2>1, <2>3, RowLemma DEF RowsOf
  <2>5. title = SectionAt("b", d).title
    BY <2>2 DEF ProductAt, ToProduct, Entry
  <2>6. title = FindTitleAbove(Shown("b", n), Texts("b", n), h)
    BY <2>1, <2>4, <2>5, SectionLemma
  <2>7. \A r \in DOMAIN Shown("b", n) : DOMAIN Texts("b", n)[r] \subseteq Nat
    BY <2>1, <2>4, ShownGrid, CellsLemma
  <2>. QED BY <2>4, <2>6, <2>7, TitleLemma
<1>. QED BY <1>1, ParserAlways, PTL

-----------------------------------------------------------------------------
(***************************************************************************)
(* Track A.  The jobs of the sheets overtake each other, but each goes     *)
(* through its own sheet in order: an entry has the values of some row     *)
(* that was upserted, the last so far of the sheet it is from.             *)
(***************************************************************************)
KeyOf(d)    == Norm(PartAt("a", At(d)))
Ingested(d) == ~Before(reached[d[1]], d) /\ At(d) \in Numbered("a")
Latest(k, d) ==
  /\ Ingested(d) /\ KeyOf(d) = k
  /\ catalogue[k].at = At(d) /\ catalogue[k].fitment = UpsertAt(d).fitment
  /\ UpsertAt(d).name \in {None, catalogue[k].name}
  /\ \A e \in DataRows("a", d[1]) : Ingested(e) /\ KeyOf(e) = k => ~Before(d, e)
Spelled(k, d) == Ingested(d) /\ KeyOf(d) = k /\ catalogue[k].part = PartAt("a", At(d))

StoreInv ==
  /\ workbook \in Workbooks
  /\ reached \in [DOMAIN workbook -> {Start} \cup AllRows("a")]
  /\ \A n \in DOMAIN workbook : reached[n] \in {Start} \cup DataRows("a", n)
  /\ \A k \in DOMAIN catalogue : (\E d \in AllRows("a") : Latest(k, d)) /\ \E d \in AllRows("a") : Spelled(k, d)
  /\ \A d \in AllRows("a") : Ingested(d) => KeyOf(d) \in DOMAIN catalogue

LEMMA StoreInit == ParityInit => StoreInv
<1>. SUFFICES ASSUME ParityInit PROVE StoreInv
  OBVIOUS
<1>. USE DEF ParityInit
<1>1. DOMAIN catalogue = {}
  OBVIOUS
<1>2. ASSUME NEW d \in AllRows("a") PROVE ~Ingested(d)
  <2>1. d[1] \in DOMAIN workbook /\ Before(Start, d)
    BY RowLemma, StartLemma
  <2>. QED BY <2>1 DEF Ingested
<1>. QED BY <1>1, <1>2 DEF StoreInv

LEMMA UpsertLemma ==
  ASSUME workbook \in Workbooks, NEW d \in AllRows("a")
  PROVE  UpsertAt(d).at = At(d) /\ UpsertAt(d).part = PartAt("a", At(d))
BY SectionLemma DEF UpsertAt, ToUpsert, At

LEMMA IngestRowInv ==
  ASSUME StoreInv, NEW n \in DOMAIN workbook, IngestRow(n)  PROVE StoreInv'
<1>0. PICK p, v, k : p = reached'[n] /\ v = UpsertAt(p) /\ k = Norm(v.part)
  OBVIOUS
<1>1. workbook \in Workbooks /\ workbook' = workbook
  BY DEF StoreInv, IngestRow
<1>2. /\ p \in DataRows("a", n) /\ p \in AllRows("a") /\ p[1] = n
      /\ \A d \in DataRows("a", n) : d[1] = n /\ d \in AllRows("a")
      /\ \A d \in DataRows("a", n) : ~Before(p, d) <=> d = p \/ ~Before(reached[n], d)
      /\ \A d \in DataRows("a", n) : ~Before(reached[n], d) => Before(d, p)
  <2>1. {d \in DataRows("a", n) : Before(reached[n], d)} = Waiting(n)
    BY DEF Waiting
  <2>2. Waiting(n) # {} /\ p = Earliest(Waiting(n)) /\ reached[n] \in {Start} \cup AllRows("a")
    BY <1>0 DEF StoreInv, IngestRow
  <2>3. DataRows("a", n) \in SUBSET AllRows("a")
    BY DEF AllRows
  <2>4. \A d \in DataRows("a", n) : d[1] = n
    BY <1>1, DataRowsLemma
  <2>5. \A d \in DataRows("a", n) : d \in AllRows("a")
    BY <2>3
  <2>6. /\ p \in DataRows("a", n) /\ Before(reached[n], p)
        /\ \A d \in DataRows("a", n) : ~Before(p, d) <=> d = p \/ ~Before(reached[n], d)
        /\ \A d \in DataRows("a", n) : ~Before(reached[n], d) => Before(d, p)
    <3>1. PICK rows, q : rows = DataRows("a", n) /\ q = reached[n]
      OBVIOUS
    <3>2. /\ rows \in SUBSET Places /\ q \in Places
          /\ {d \in rows : Before(q, d)} # {} /\ p = Earliest({d \in rows : Before(q, d)})
      BY <1>1, <2>1, <2>2, <2>5, <3>1, StartLemma, RowLemma
    <3>3. /\ p \in rows /\ Before(q, p)
          /\ \A d \in rows : ~Before(p, d) <=> d = p \/ ~Before(q, d)
          /\ \A d \in rows : ~Before(q, d) => Before(d, p)
      BY ONLY <3>2, TurnLemma
    <3>. QED BY <3>1, <3>3
  <2>. QED BY <2>4, <2>5, <2>6
<1>3. /\ reached' = [reached EXCEPT ![n] = p]
      /\ reached' \in [DOMAIN workbook -> {Start} \cup AllRows("a")]
      /\ \A m \in DOMAIN workbook : m # n => reached'[m] = reached[m]
  BY <1>0, <1>2 DEF StoreInv, IngestRow
<1>4. \A d \in AllRows("a") : /\ d[1] \in DOMAIN workbook /\ d \in DataRows("a", d[1])
                         /\ At(d)' = At(d) /\ KeyOf(d)' = KeyOf(d)
  BY <1>1, RowLemma, WorkbookStays DEF At, KeyOf
<1>5. ASSUME NEW d \in AllRows("a")
      PROVE  Ingested(d)' <=> Ingested(d) \/ (d = p /\ At(d) \in Numbered("a"))
  <2>1. Ingested(d)' <=> ~Before(reached'[d[1]], d) /\ At(d) \in Numbered("a")
    BY <1>1, WorkbookStays DEF Ingested
  <2>2. CASE d[1] = n
    BY <1>0, <1>2, <1>4, <2>1, <2>2 DEF Ingested
  <2>3. CASE d[1] # n
    BY <1>2, <1>3, <1>4, <2>1, <2>3 DEF Ingested
  <2>. QED BY <2>2, <2>3
<1>6. /\ v.at = At(p) /\ k = KeyOf(p) /\ UpsertAt(p) = v /\ UpsertAt(p)' = v
  BY <1>0, <1>1, <1>2, UpsertLemma, WorkbookStays DEF KeyOf
<1>7. CASE At(p) \notin Numbered("a")
  <2>1. catalogue' = catalogue
    BY <1>0, <1>1, <1>2, <1>7, AcceptedLemma DEF IngestRow
  <2>2. \A d \in AllRows("a") : Ingested(d)' <=> Ingested(d)
    BY <1>5, <1>7
  <2>3. ASSUME NEW c \in DOMAIN catalogue, NEW d \in AllRows("a"), Latest(c, d) PROVE Latest(c, d)'
    <3>1. DataRows("a", d[1])' = DataRows("a", d[1]) /\ UpsertAt(d)' = UpsertAt(d) /\ DataRows("a", d[1]) \subseteq AllRows("a")
      BY <1>1, <1>4, WorkbookStays DEF AllRows
    <3>. QED BY <1>4, <2>1, <2>2, <2>3, <3>1 DEF Latest
  <2>4. ASSUME NEW c \in DOMAIN catalogue, NEW d \in AllRows("a"), Spelled(c, d) PROVE Spelled(c, d)'
    <3>1. PartAt("a", At(d))' = PartAt("a", At(d))
      BY <1>1, WorkbookStays DEF At
    <3>. QED BY <1>4, <2>1, <2>2, <2>4, <3>1 DEF Spelled
  <2>. QED BY <1>1, <1>2, <1>3, <1>4, <2>1, <2>2, <2>3, <2>4, WorkbookStays DEF StoreInv
<1>8. CASE At(p) \in Numbered("a")
  <2>. DEFINE new == IF k \notin DOMAIN catalogue THEN v
                     ELSE [v EXCEPT !.part = catalogue[k].part,
                                    !.name = OrElse(v.name, catalogue[k].name)]
  <2>1. catalogue' = [c \in DOMAIN catalogue \cup {k} |-> IF c = k THEN new ELSE catalogue[c]]
    BY <1>0, <1>1, <1>2, <1>8, AcceptedLemma DEF IngestRow, Upsert
  <2>2. DOMAIN v = {"part", "at", "name", "fitment"}
    BY <1>0 DEF UpsertAt, ToUpsert
  <2>3. /\ new.at = v.at /\ new.fitment = v.fitment /\ v.name \in {None, new.name}
        /\ k \notin DOMAIN catalogue => new.part = v.part
        /\ k \in DOMAIN catalogue => new.part = catalogue[k].part
    BY <2>2 DEF OrElse
  <2>. HIDE DEF new
  <2>4. /\ DOMAIN catalogue' = DOMAIN catalogue \cup {k} /\ catalogue'[k] = new
        /\ \A c \in DOMAIN catalogue : c # k => catalogue'[c] = catalogue[c]
    BY <2>1
  <2>5. ASSUME NEW d \in AllRows("a"), Ingested(d)' PROVE KeyOf(d)' \in DOMAIN catalogue'
    BY <1>4, <1>5, <1>6, <2>4, <2>5 DEF StoreInv
  <2>6. Latest(k, p)'
    <3>1. DataRows("a", p[1])' = DataRows("a", n)
      BY <1>1, <1>2, WorkbookStays
    <3>2. ASSUME NEW e \in DataRows("a", n), Ingested(e)' PROVE ~Before(p, e)
      <4>1. e = p \/ ~Before(reached[n], e)
        BY <1>2, <1>5, <3>2 DEF Ingested
      <4>. QED BY <1>2, <4>1
    <3>3. Ingested(p)' /\ KeyOf(p)' = k
      BY <1>2, <1>4, <1>5, <1>6, <1>8
    <3>4. /\ (catalogue[k].at)' = At(p)' /\ (catalogue[k].fitment)' = (UpsertAt(p).fitment)'
          /\ (UpsertAt(p).name)' \in {None, (catalogue[k].name)'}
      BY <1>2, <1>4, <1>6, <2>3, <2>4
    <3>5. \A e \in DataRows("a", p[1])' : Ingested(e)' /\ KeyOf(e)' = k => ~Before(p, e)
      BY <3>1, <3>2
    <3>. QED BY <3>3, <3>4, <3>5 DEF Latest
  <2>7. ASSUME NEW c \in DOMAIN catalogue, c # k PROVE \E d \in AllRows("a") : Latest(c, d)'
    <3>1. PICK d \in AllRows("a") : Latest(c, d)
      BY DEF StoreInv
    <3>2. /\ DataRows("a", d[1])' = DataRows("a", d[1]) /\ UpsertAt(d)' = UpsertAt(d)
          /\ DataRows("a", d[1]) \subseteq AllRows("a")
      BY <1>1, <1>4, WorkbookStays DEF AllRows
    <3>3. ASSUME NEW e \in DataRows("a", d[1]), Ingested(e)', KeyOf(e)' = c PROVE ~Before(d, e)
      <4>1. Ingested(e) /\ KeyOf(e) = c
        BY <1>4, <1>5, <1>6, <2>7, <3>2, <3>3
      <4>. QED BY <3>1, <4>1 DEF Latest
    <3>. QED BY <1>4, <1>5, <2>4, <2>7, <3>1, <3>2, <3>3 DEF Latest
  <2>8. ASSUME NEW c \in DOMAIN catalogue' PROVE \E d \in AllRows("a") : Spelled(c, d)'
    <3>0. \A d : PartAt("a", At(d))' = PartAt("a", At(d))
      BY <1>1, WorkbookStays DEF At
    <3>1. CASE c \in DOMAIN catalogue
      <4>1. PICK d \in AllRows("a") : Spelled(c, d)
        BY <3>1 DEF StoreInv
      <4>2. catalogue'[c].part = catalogue[c].part
        BY <2>3, <2>4, <3>1
      <4>. QED BY <1>4, <1>5, <3>0, <4>1, <4>2 DEF Spelled
    <3>2. CASE c \notin DOMAIN catalogue
      <4>1. c = k /\ catalogue'[c].part = PartAt("a", At(p))
        BY <1>1, <1>2, <2>3, <2>4, <1>6, <3>2, UpsertLemma
      <4>. QED BY <1>2, <1>4, <1>5, <1>6, <1>8, <3>0, <4>1 DEF Spelled
    <3>. QED BY <3>1, <3>2
  <2>9. \A m \in DOMAIN workbook : reached'[m] \in {Start} \cup DataRows("a", m)
    BY <1>0, <1>2, <1>3 DEF StoreInv
  <2>10. AllRows("a")' = AllRows("a") /\ \A m : DataRows("a", m)' = DataRows("a", m)
    BY <1>1, WorkbookStays
  <2>11. \A c \in DOMAIN catalogue' : \E d \in AllRows("a") : Latest(c, d)'
    BY <1>2, <2>4, <2>6, <2>7
  <2>. QED BY <1>1, <1>3, <2>5, <2>8, <2>9, <2>10, <2>11 DEF StoreInv
<1>. QED BY <1>7, <1>8

LEMMA StoreNext == StoreInv /\ [ParityNext]_parityVars => StoreInv'
<1>. SUFFICES ASSUME StoreInv, [ParityNext]_parityVars PROVE StoreInv'
  OBVIOUS
<1>1. ASSUME UNCHANGED <<workbook, reached, catalogue>> PROVE StoreInv'
  <2>1. /\ AllRows("a")' = AllRows("a") /\ \A m : DataRows("a", m)' = DataRows("a", m)
        /\ \A d : Ingested(d)' = Ingested(d) /\ KeyOf(d)' = KeyOf(d) /\ PartAt("a", At(d))' = PartAt("a", At(d))
        /\ \A d : UpsertAt(d)' = UpsertAt(d) /\ At(d)' = At(d)
    BY <1>1, WorkbookStays DEF Ingested, KeyOf, At
  <2>2. \A c, d : (Latest(c, d)' <=> Latest(c, d)) /\ (Spelled(c, d)' <=> Spelled(c, d))
    BY <1>1, <2>1 DEF Latest, Spelled
  <2>. QED BY <1>1, <2>1, <2>2 DEF StoreInv
<1>2. ASSUME NEW n \in DOMAIN workbook, IngestRow(n) PROVE StoreInv'
  BY <1>2, IngestRowInv
<1>3. CASE ParseRow \/ WriteCsv \/ UNCHANGED parityVars
  BY <1>1, <1>3 DEF ParseRow, WriteCsv, parityVars
<1>. QED BY <1>2, <1>3 DEF ParityNext

LEMMA StoreAlways == ParitySpec => []StoreInv
BY StoreInit, StoreNext, PTL DEF ParitySpec

-----------------------------------------------------------------------------
(***************************************************************************)
(* The two together.                                                       *)
(***************************************************************************)
LEMMA FinishedLemma ==
  ASSUME ParserInv, StoreInv, Finished, NEW a \in Numbered("a")
  PROVE  \E d \in AllRows("a") : At(d) = a /\ Ingested(d) /\ Norm(PartAt("a", a)) \in DOMAIN catalogue
<1>1. PICK d \in AllRows("a") : At(d) = a
  BY NumberedLemma DEF ParserInv
<1>2. d[1] \in DOMAIN workbook /\ d \in DataRows("a", d[1])
  BY RowLemma DEF ParserInv
<1>3. Ingested(d)
  BY <1>1, <1>2 DEF Finished, Waiting, Ingested
<1>. QED BY <1>1, <1>3 DEF StoreInv, KeyOf

(* The header of a section is one of the three signatures.                 *)
LEMMA UnderSignature ==
  ASSUME NEW rows, NEW r, IsHeader(rows[Greatest(Above(rows, r))])
  PROVE  \E k \in DOMAIN Signatures : Under(rows, r).signature = Signatures[k]
<1>1. PICK header : header = rows[Greatest(Above(rows, r))]
  OBVIOUS
<1>2. Matching(header) \in SUBSET Nat /\ Matching(header) \subseteq DOMAIN Signatures
  <2>1. Matching(header) \subseteq DOMAIN Signatures
    BY DEF Matching
  <2>2. DOMAIN Signatures \subseteq Nat
    BY DEF Signatures
  <2>. QED BY ONLY <2>1, <2>2
<1>3. Least(Matching(header)) \in Matching(header)
  BY <1>1, <1>2, LeastOne DEF IsHeader
<1>4. Under(rows, r).signature = Signatures[Least(Matching(header))]
  BY <1>1 DEF Under, MatchHeader
<1>. QED BY <1>2, <1>3, <1>4

(* What the cells of a workbook have in common when both show them alike.  *)
LEMMA AlikeLemma ==
  ASSUME workbook \in Workbooks, ShownAlike
  PROVE  /\ AllRows("a") = AllRows("b") /\ Numbered("a") = Numbered("b")
         /\ \A a \in Numbered("b") : PartAt("a", a) = PartAt("b", a)
         /\ \A d \in AllRows("b") : /\ RowAt("a", d) = RowAt("b", d)
                                    /\ SectionAt("a", d).match = SectionAt("b", d).match
<1>1. \A n \in DOMAIN workbook : Shown("a", n) = Shown("b", n)
  BY DEF ShownAlike
<1>2. ASSUME NEW n \in DOMAIN workbook PROVE DataRows("a", n) = DataRows("b", n)
  <2>1. \A d : d \in DataRows("a", n) <=> d \in DataRows("b", n)
    BY <1>1, DataRowsLemma
  <2>2. \A d \in DataRows("a", n) : d \in DataRows("b", n)
    BY <2>1
  <2>3. \A d \in DataRows("b", n) : d \in DataRows("a", n)
    BY <2>1
  <2>. QED BY <2>2, <2>3 DEF DataRows
<1>3. AllRows("a") = AllRows("b")
  BY <1>2 DEF AllRows
<1>4. Numbered("a") = Numbered("b")
  BY <1>1 DEF Numbered
<1>5. ASSUME NEW a \in Numbered("b") PROVE PartAt("a", a) = PartAt("b", a)
  <2>1. a[1] \in DOMAIN workbook
    BY DEF Numbered
  <2>. QED BY <1>1, <2>1 DEF PartAt
<1>6. ASSUME NEW d \in AllRows("b")
      PROVE  RowAt("a", d) = RowAt("b", d) /\ SectionAt("a", d).match = SectionAt("b", d).match
  <2>1. d[1] \in DOMAIN workbook
    BY RowLemma
  <2>2. RowsOf("a", d) = RowsOf("b", d)
    BY <1>1, <2>1 DEF RowsOf
  <2>. QED BY <1>3, <2>2, SectionLemma
<1>. QED BY <1>3, <1>4, <1>5, <1>6

(* Whatever the order of Track A's jobs, the tracks list the same parts of *)
(* cells that they show alike, but for the column labels that only         *)
(* normalise_row rejects and for the spellings that the generated column   *)
(* makes one.                                                              *)
THEOREM TracksListSameParts == ParitySpec => []SamePartNumbers
<1>1. ParserInv /\ StoreInv => SamePartNumbers
  <2>. SUFFICES ASSUME ParserInv, StoreInv, Finished, ShownAlike
       PROVE  /\ \A p \in DiffSummary.onlyB : \E q \in DOMAIN Reference : Norm(q) = Norm(p) /\ q # p
              /\ \A p \in DiffSummary.onlyA : \E k \in DOMAIN Signatures : IsLabelOf(p, Signatures[k])
    BY DEF SamePartNumbers, SameParts
  <2>1. workbook \in Workbooks /\ csv # None
    BY DEF ParserInv, Finished
  <2>2. DOMAIN Reference = {catalogue[k].part : k \in DOMAIN catalogue}
    BY DEF Reference
  <2>3. ASSUME NEW p \in DiffSummary.onlyB
        PROVE  \E q \in DOMAIN Reference : Norm(q) = Norm(p) /\ q # p
    <3>1. p \in DOMAIN csv /\ p \notin DOMAIN Reference
      BY DEF DiffSummary
    <3>2. PICK a \in Listings(p) : TRUE
      BY <2>1, <3>1, LastProduct
    <3>3. a \in Numbered("a") /\ PartAt("a", a) = p
      BY <2>1, AlikeLemma DEF Listings, Listed
    <3>4. Norm(p) \in DOMAIN catalogue
      BY <3>3, FinishedLemma
    <3>5. Norm(catalogue[Norm(p)].part) = Norm(p)
      BY <3>4 DEF StoreInv, Spelled, KeyOf
    <3>. QED BY <2>2, <3>1, <3>4, <3>5
  <2>4. ASSUME NEW p \in DiffSummary.onlyA
        PROVE  \E k \in DOMAIN Signatures : IsLabelOf(p, Signatures[k])
    <3>1. p \in DOMAIN Reference /\ p \notin DOMAIN csv
      BY DEF DiffSummary
    <3>2. PICK k \in DOMAIN catalogue : catalogue[k].part = p
      BY <2>2, <3>1
    <3>3. PICK d \in AllRows("b") : At(d) \in Numbered("b") /\ PartAt("b", At(d)) = p
      BY <2>1, <3>2, AlikeLemma DEF StoreInv, Spelled, Ingested
    <3>4. At(d) \notin Listed
      <4>1. ASSUME At(d) \in Listed PROVE FALSE
        <5>1. PICK i \in DOMAIN products : products[i] = ProductAt(d)
          BY <2>1, <4>1 DEF ParserInv, Unparsed, AllRows
        <5>2. products[i].part = p
          BY <2>1, <3>3, <5>1, ProductLemma
        <5>. QED BY <2>1, <3>1, <5>2 DEF ParserInv, LastPerPart
      <4>. QED BY <4>1
    <3>5. IsLabelOf(p, Under(RowsOf("b", d), d[3]).signature)
      BY <3>3, <3>4 DEF Listed, At, RowsOf
    <3>6. IsHeader(RowsOf("b", d)[Greatest(Above(RowsOf("b", d), d[3]))])
      BY <2>1, RowLemma DEF HeaderRows
    <3>. QED BY <3>5, <3>6, UnderSignature
  <2>. QED BY <2>3, <2>4
<1>. QED BY <1>1, ParserAlways, StoreAlways, PTL

(* A title's row is one in both tracks, with the same title, if its cells  *)
(* are the same texts, or numbers in both.                                 *)
LEMMA SameTitle ==
  ASSUME NEW x, NEW y, DOMAIN x = DOMAIN y, DOMAIN y \subseteq Nat,
         \A c \in DOMAIN y : x[c] = y[c] \/ {x[c], y[c]} \subseteq PartOrCallout
  PROVE  /\ MayBeTitle(x) <=> MayBeTitle(y)
         /\ MayBeTitle(y) => First(x) = First(y)
<1>1. Filled(x) = Filled(y)
  BY ParserAssumption DEF Filled
<1>2. CASE Filled(y) = {}
  <2>1. Cardinality(Filled(x)) = 0 /\ Cardinality(Filled(y)) = 0
    BY <1>1, <1>2, FS_EmptySet
  <2>. QED BY <2>1 DEF MayBeTitle
<1>3. CASE Filled(y) # {}
  <2>1. Filled(y) \in SUBSET Nat /\ Filled(y) \subseteq DOMAIN y
    BY DEF Filled
  <2>2. Least(Filled(y)) \in DOMAIN y
    BY <1>3, <2>1, LeastOne
  <2>3. \/ First(x) = First(y)
        \/ First(x) \in PartOrCallout /\ First(y) \in PartOrCallout
    BY <1>1, <2>2 DEF First
  <2>. QED BY <1>1, <2>3 DEF MayBeTitle
<1>. QED BY <1>2, <1>3

LEMMA SameSection ==
  ASSUME workbook \in Workbooks, ShownAlike, NEW d \in AllRows("b"), TitlesAlike(At(d))
  PROVE  SectionAt("a", d).title = SectionAt("b", d).title
<1>. DEFINE n == d[1]
            h == d[2]
            rows == Shown("b", n)
            x == Texts("a", n)
            y == Texts("b", n)
            Titles(texts) == {r \in h - MaxLookback .. h - 1 :
                                /\ r > 0 /\ MayBeTitle(texts[r])
                                /\ \A q \in r .. h - 1 : ~IsHeader(rows[q])}
<1>1. /\ n \in DOMAIN workbook /\ h = Greatest(Above(rows, d[3])) /\ h \in HeaderRows(rows)
      /\ RowsOf("b", d) = rows /\ RowsOf("a", d) = rows /\ d \in AllRows("a")
  BY RowLemma, AlikeLemma DEF RowsOf, ShownAlike
<1>2. DOMAIN rows = 1 .. Len(rows) /\ Len(rows) \in Nat /\ h \in 1 .. Len(rows)
  BY <1>1, ShownGrid DEF Grid, HeaderRows
<1>3. ASSUME NEW r \in h - 4 .. h - 1, r > 0
      PROVE  /\ MayBeTitle(x[r]) <=> MayBeTitle(y[r])
             /\ MayBeTitle(y[r]) => First(x[r]) = First(y[r])
  <2>1. r \in DOMAIN rows /\ DOMAIN x[r] = DOMAIN y[r] /\ DOMAIN y[r] \subseteq Nat
    <3>1. r \in DOMAIN rows
      BY <1>2, <1>3
    <3>. QED BY <1>1, <3>1, ShownGrid, CellsLemma
  <2>2. \A c \in DOMAIN y[r] : x[r][c] = y[r][c] \/ {x[r][c], y[r][c]} \subseteq PartOrCallout
    <3>1. At(d)[1] = n /\ At(d)[2] = d[3]
      BY DEF At
    <3>. QED BY <1>1, <1>3, <3>1 DEF TitlesAlike
  <2>. QED BY ONLY <2>1, <2>2, SameTitle
<1>4. /\ SectionAt("a", d).title = FindTitleAbove(rows, x, h)
      /\ SectionAt("b", d).title = FindTitleAbove(rows, y, h)
  BY <1>1, SectionLemma
<1>5. Titles(x) = Titles(y)
  BY <1>3 DEF MaxLookback
<1>6. CASE Titles(y) = {}
  BY <1>4, <1>5, <1>6 DEF FindTitleAbove
<1>7. CASE Titles(y) # {}
  <2>1. Titles(y) \in SUBSET (0 .. h)
    BY <1>2 DEF MaxLookback
  <2>2. Greatest(Titles(y)) \in Titles(y)
    <3>1. h \in Nat
      BY <1>2
    <3>. QED BY ONLY <1>7, <2>1, <3>1, GreatestOne
  <2>3. First(x[Greatest(Titles(y))]) = First(y[Greatest(Titles(y))])
    BY <1>3, <2>2 DEF MaxLookback
  <2>4. /\ FindTitleAbove(rows, x, h) = First(x[Greatest(Titles(x))])
        /\ FindTitleAbove(rows, y, h) = First(y[Greatest(Titles(y))])
    BY <1>5, <1>7 DEF FindTitleAbove
  <2>. QED BY <1>4, <1>5, <2>3, <2>4
<1>. QED BY <1>6, <1>7

(* Of a cell, both keep the same callout, unless exceljs returns an object. *)
LEMMA SameCallout ==
  ASSUME NEW c, c # None /\ c.whole # None => c.whole # "" /\ Trimmed(c.text) # ""
  PROVE  ParseCalloutA(c) \in {ParseCalloutB(c), "[object Object]"}
<1>1. CASE c = None
  BY <1>1 DEF ParseCalloutA, ParseCalloutB, StringA, StringB, NonEmpty
<1>2. CASE c # None /\ c.kind \in Objects
  BY <1>2 DEF ParseCalloutA, StringA, NonEmpty
<1>3. CASE c # None /\ c.kind \notin Objects
  BY <1>3 DEF ParseCalloutA, ParseCalloutB, StringA, StringB, NonEmpty, OrElse
<1>. QED BY <1>1, <1>2, <1>3

LEMMA ColumnLemma ==
  ASSUME NEW row, DOMAIN row \subseteq Nat \ {0}, NEW label \in DOMAIN MatchHeader(row).columns
  PROVE  MatchHeader(row).columns[label] \in Nat \ {0}
<1>1. Labelled(row, label) # {} /\ MatchHeader(row).columns[label] = Least(Labelled(row, label))
  BY DEF MatchHeader
<1>2. Labelled(row, label) \in SUBSET Nat /\ Labelled(row, label) \subseteq DOMAIN row
  BY DEF Labelled
<1>3. Least(Labelled(row, label)) \in Labelled(row, label)
  BY <1>1, <1>2, LeastOne
<1>. QED BY <1>1, <1>2, <1>3

(* What both make of one row. *)
LEMMA SameRow ==
  ASSUME workbook \in Workbooks, ShownAlike, NEW d \in AllRows("b")
  PROVE  LET f == ProductAt(d).fitment  g == UpsertAt(d).fitment IN
         /\ ProductAt(d).name = UpsertAt(d).name /\ Len(f) = Len(g) /\ DOMAIN f \subseteq {1}
         /\ \A i \in DOMAIN f :
              /\ \A field \in {"year", "code", "variant"} : f[i][field] = g[i][field]
              /\ g[i].callout \in {f[i].callout, "[object Object]"}
              /\ TitlesAlike(At(d)) => f[i].section = g[i].section
<1>. DEFINE name == workbook[d[1]].name
            match == SectionAt("b", d).match
            cell == Get(CellsAt(d), match, "No.")
            Made(title, callout, m, c) == Entry(name, title, callout, m, c)
<1>1. RowAt("a", d) = RowAt("b", d) /\ SectionAt("a", d).match = match
  BY AlikeLemma
<1>2. ProductAt(d).name = UpsertAt(d).name
  BY <1>1 DEF ProductAt, UpsertAt, ToProduct, ToUpsert
<1>3. CASE Resolve(name) = None
  <2>1. ProductAt(d).fitment = << >> /\ UpsertAt(d).fitment = << >>
    BY <1>3 DEF ProductAt, UpsertAt, ToProduct, ToUpsert
  <2>. QED BY <1>2, <2>1
<1>4. CASE Resolve(name) # None
  <2>1. PICK m1, c1 : ProductAt(d).fitment =
          << Made(SectionAt("b", d).title, ParseCalloutB(cell), m1, c1) >>
    BY <1>4 DEF ProductAt, ToProduct
  <2>2. PICK m2, c2 : UpsertAt(d).fitment =
          << Made(SectionAt("a", d).title, ParseCalloutA(cell), m2, c2) >>
    BY <1>1, <1>4 DEF UpsertAt, ToUpsert
  <2>3. ParseCalloutA(cell) \in {ParseCalloutB(cell), "[object Object]"}
    <3>1. cell # None /\ cell.whole # None => cell.whole # "" /\ Trimmed(cell.text) # ""
      <4>1. d[1] \in DOMAIN workbook /\ d[3] \in DOMAIN workbook[d[1]].rows
        BY RowLemma, ShownGrid DEF RowsOf
      <4>2. \A c \in DOMAIN CellsAt(d) :
              CellsAt(d)[c] # None /\ CellsAt(d)[c].whole # None =>
                CellsAt(d)[c].whole # "" /\ Trimmed(CellsAt(d)[c].text) # ""
        BY <4>1, ParserAssumption DEF CellsAt
      <4>3. cell # None => \E c \in DOMAIN CellsAt(d) : cell = CellsAt(d)[c]
        <5>. SUFFICES ASSUME "No." \in DOMAIN match.columns, match.columns["No."] <= Len(CellsAt(d))
                      PROVE  match.columns["No."] \in DOMAIN CellsAt(d)
          BY DEF Get
        <5>1. match = MatchHeader(Shown("b", d[1])[d[2]]) /\ d[2] \in DOMAIN workbook[d[1]].rows
          BY <4>1, SectionLemma, RowLemma, ShownGrid DEF Under, RowsOf, HeaderRows
        <5>2. DOMAIN Shown("b", d[1])[d[2]] \subseteq Nat \ {0}
          BY <4>1, <5>1, ShownGrid, CellsLemma
        <5>3. match.columns["No."] \in Nat \ {0}
          BY ONLY <5>1, <5>2, "No." \in DOMAIN match.columns, ColumnLemma
        <5>4. DOMAIN CellsAt(d) = 1 .. Len(CellsAt(d)) /\ Len(CellsAt(d)) \in Nat
          BY <4>1, CellsLemma DEF CellsAt
        <5>. QED BY <5>3, <5>4
      <4>. QED BY <4>2, <4>3
    <3>. QED BY <3>1, SameCallout
  <2>4. TitlesAlike(At(d)) => SectionAt("a", d).title = SectionAt("b", d).title
    BY SameSection
  <2>5. PICK f, g : f = ProductAt(d).fitment /\ g = UpsertAt(d).fitment
    OBVIOUS
  <2>6. Len(f) = Len(g) /\ DOMAIN f = {1} /\ DOMAIN g = {1}
    BY <2>1, <2>2, <2>5
  <2>7. /\ f[1] = Entry(name, SectionAt("b", d).title, ParseCalloutB(cell), m1, c1)
        /\ g[1] = Entry(name, SectionAt("a", d).title, ParseCalloutA(cell), m2, c2)
    BY <2>1, <2>2, <2>5
  <2>. HIDE DEF cell
  <2>8. /\ \A field \in {"year", "code", "variant"} : f[1][field] = g[1][field]
        /\ f[1].callout = ParseCalloutB(cell) /\ g[1].callout = ParseCalloutA(cell)
        /\ f[1].section = SectionAt("b", d).title /\ g[1].section = SectionAt("a", d).title
    BY <2>7 DEF Entry
  <2>. QED BY <1>2, <2>3, <2>4, <2>5, <2>6, <2>8
<1>. QED BY <1>3, <1>4

(* A part that one sheet lists, in one spelling, is read from the same row *)
(* and says the same in both tracks, although Track A upserts every row    *)
(* and Track B keeps the last product of a list; a rich text or a formula  *)
(* can change only the callout or the section it stands in for.            *)
THEOREM TracksReadAlike == ParitySpec => []TracksAgree
<1>1. ParserInv /\ StoreInv => TracksAgree
  <2>. SUFFICES ASSUME ParserInv, StoreInv, Finished, ShownAlike, NEW p \in DOMAIN csv, Plain(p)
       PROVE  LET f == csv[p].fitment  g == catalogue[Norm(p)].fitment IN
              /\ csv[p].at = catalogue[Norm(p)].at
              /\ csv[p].name \in {None, catalogue[Norm(p)].name}
              /\ Len(f) = Len(g)
              /\ \A i \in DOMAIN f :
                   /\ \A field \in {"year", "code", "variant"} : f[i][field] = g[i][field]
                   /\ g[i].callout \in {f[i].callout, "[object Object]"}
                   /\ TitlesAlike(csv[p].at) => f[i].section = g[i].section
    BY DEF TracksAgree
  <2>1. workbook \in Workbooks /\ csv # None
    BY DEF ParserInv, Finished
  <2>2. PICK d \in AllRows("b") : /\ At(d) \in Listings(p) /\ csv[p] = ProductAt(d)
                             /\ \A a \in Listings(p) : a = At(d) \/ Later(At(d), a)
    BY <2>1, LastProduct
  <2>3. At(d) \in Numbered("b") /\ PartAt("b", At(d)) = p
    BY <2>2 DEF Listings, Listed
  <2>4. Ingested(d) /\ Norm(p) \in DOMAIN catalogue
    <3>1. /\ AllRows("a") = AllRows("b") /\ At(d) \in Numbered("a") /\ PartAt("a", At(d)) = p
      BY <2>1, <2>3, AlikeLemma
    <3>2. PICK e \in AllRows("a") : At(e) = At(d) /\ Ingested(e) /\ Norm(p) \in DOMAIN catalogue
      BY <3>1, FinishedLemma
    <3>. QED BY <2>1, <3>1, <3>2, OrderLemma
  <2>5. PICK e \in AllRows("b") : Latest(Norm(p), e)
    BY <2>1, <2>4, AlikeLemma DEF StoreInv
  <2>6. At(e) \in Listings(p)
    BY <2>5 DEF Plain, Latest, Ingested, KeyOf
  <2>7. d[1] = e[1]
    <3>. DEFINE sheets == {a[1] : a \in Listings(p)}
    <3>1. sheets \subseteq DOMAIN workbook
      <4>1. \A a \in Numbered("b") : a[1] \in DOMAIN workbook
        BY DEF Numbered
      <4>. QED BY <4>1 DEF Listings, Listed
    <3>2. IsFiniteSet(sheets)
      <4>1. IsFiniteSet(1 .. Len(workbook))
        BY <2>1, WorkbookGrid, FS_Interval
      <4>. QED BY <2>1, <3>1, <4>1, WorkbookGrid, FS_Subset
    <3>3. \E x : sheets = {x}
      BY <3>2, FS_Singleton DEF Plain
    <3>4. At(d)[1] \in sheets /\ At(e)[1] \in sheets
      BY <2>2, <2>6
    <3>. HIDE DEF sheets
    <3>. QED BY <3>3, <3>4 DEF At
  <2>8. ~Before(e, d)
    <3>1. d \in DataRows("a", e[1])
      BY <2>1, <2>7, RowLemma, AlikeLemma
    <3>2. KeyOf(d) = Norm(p)
      BY <2>1, <2>3, AlikeLemma DEF KeyOf
    <3>. QED BY <2>4, <2>5, <3>1, <3>2 DEF Latest
  <2>9. e = d
    <3>1. At(e) = At(d) \/ Before(e, d)
      BY <2>1, <2>2, <2>6, OrderLemma
    <3>. QED BY <2>1, <2>8, <3>1, OrderLemma
  <2>10. /\ csv[p].at = catalogue[Norm(p)].at
         /\ catalogue[Norm(p)].fitment = UpsertAt(d).fitment
         /\ UpsertAt(d).name \in {None, catalogue[Norm(p)].name}
    BY <2>1, <2>2, <2>5, <2>9, ProductLemma DEF Latest
  <2>11. csv[p].at = At(d)
    BY <2>1, <2>2, ProductLemma
  <2>12. /\ csv[p].name = UpsertAt(d).name /\ csv[p].fitment = ProductAt(d).fitment
         /\ catalogue[Norm(p)].fitment = UpsertAt(d).fitment
    BY <2>1, <2>2, <2>10, SameRow
  <2>13. PICK f, g : f = ProductAt(d).fitment /\ g = UpsertAt(d).fitment
    OBVIOUS
  <2>14. /\ Len(f) = Len(g)
         /\ \A i \in DOMAIN f :
              /\ \A field \in {"year", "code", "variant"} : f[i][field] = g[i][field]
              /\ g[i].callout \in {f[i].callout, "[object Object]"}
              /\ TitlesAlike(At(d)) => f[i].section = g[i].section
    BY <2>1, <2>13, SameRow
  <2>15. /\ csv[p].fitment = f /\ catalogue[Norm(p)].fitment = g
         /\ TitlesAlike(csv[p].at) <=> TitlesAlike(At(d))
         /\ csv[p].at = catalogue[Norm(p)].at /\ csv[p].name \in {None, catalogue[Norm(p)].name}
    BY <2>10, <2>11, <2>12, <2>13
  <2>. QED BY ONLY <2>14, <2>15
<1>. QED BY <1>1, ParserAlways, StoreAlways, PTL

(* Type correctness of both reads. *)
THEOREM ParityTypeCorrect == ParitySpec => []ParityTypeOK
<1>1. ParserInv /\ StoreInv => ParityTypeOK
  <2>. SUFFICES ASSUME ParserInv, StoreInv PROVE ParityTypeOK
    OBVIOUS
  <2>1. workbook \in Workbooks
    BY DEF ParserInv
  <2>2. ASSUME NEW i \in DOMAIN products
        PROVE  products[i].part # None /\ products[i].at \in Listed
    <3>1. PICK d \in AllRows("b") : At(d) \in Listed /\ products[i] = ProductAt(d)
      BY DEF ParserInv
    <3>2. At(d) \in Numbered("b")
      BY <3>1 DEF Listed
    <3>3. PartAt("b", At(d)) # None
      BY <2>1, <3>2, NumberedLemma
    <3>. QED BY <2>1, <3>1, <3>3, ProductLemma
  <2>3. ASSUME NEW k \in DOMAIN catalogue
        PROVE  Norm(catalogue[k].part) = k /\ catalogue[k].at \in Numbered("a")
    BY DEF StoreInv, Latest, Spelled, Ingested, KeyOf
  <2>. QED BY <2>2, <2>3 DEF ParityTypeOK, ParserInv, StoreInv, AllRows
<1>. QED BY <1>1, ParserAlways, StoreAlways, PTL

-----------------------------------------------------------------------------
(***************************************************************************)
(* THE MLX BATCH (MlxBatch).                                               *)
(***************************************************************************)

(***************************************************************************)
(* The inductive invariant.  A grade is given once, by phase 3, to a        *)
(* reading of phase 1 or of phase 2, and the two are graded differently:   *)
(* so a record must be known to be an answer of the phase of its file, as  *)
(* long as it is in a file and while a stage holds on to what it read.     *)
(* From phase 3 on a row is graded no better than some answer deserves.    *)
(***************************************************************************)
Heard(r, phase) == <<r.picture, phase, r.reading>> \in answered

Graded(r) == \/ r.reading = None /\ r.tier # "high"
             \/ \E a \in answered : /\ a[1] = r.picture /\ a[3] = r.reading
                                    /\ Ranks[r.tier] <= Ranks[Confidence(a[2], a[3])]

FilesHeard ==
  /\ DOMAIN out = Names
  /\ \A f \in Names : DOMAIN out[f] = DOMAIN Empty /\ \A r \in out[f].recs : Heard(r, Phase(f))

StageHeard ==
  /\ stage.step = "phase3" => \A r \in stage.rows : Heard(r, 1)
  /\ stage.step \in {"phase4", "integrate"} =>
       \A r \in stage.rows : DOMAIN r = {"picture", "reading", "tier"} /\ Graded(r)

OutputsGraded ==
  \A r \in final.rows \cup coverage.rows :
    DOMAIN r = {"picture", "reading", "tier"} /\ Graded(r)

BInv == FilesHeard /\ StageHeard /\ OutputsGraded /\ \A r \in callouts : Graded(r)

-----------------------------------------------------------------------------
(* Lemmas on the grades.                                                    *)

LEMMA ConfidenceType ==
  ASSUME NEW phase, NEW reading
  PROVE  /\ Confidence(phase, reading) \in {"low", "medium", "high"}
         /\ ~reading.list => Confidence(phase, reading) # "high"
<1>1. Confidence(phase, reading) \in {"low", "medium", "high"}
  BY DEF Confidence
<1>2. ASSUME ~reading.list PROVE Confidence(phase, reading) # "high"
  <2>1. Layer3(reading) # {}
    BY <1>2 DEF Layer3
  <2>. QED BY <2>1 DEF Confidence
<1>. QED BY <1>1, <1>2

LEMMA RankValues ==
  Ranks["dead"] = 0 /\ Ranks["low"] = 1 /\ Ranks["medium"] = 2 /\ Ranks["high"] = 3
BY DEF Ranks

(* What phase 4 makes of a grade, and what the integration makes of it. *)
Lowered(r, tier) == \/ tier = r.tier
                    \/ tier = "low"
                    \/ tier = "medium" /\ r.tier = "high"

LEMMA LoweredGraded ==
  ASSUME NEW r, Graded(r), NEW q, q.picture = r.picture, q.reading = r.reading,
         Lowered(r, q.tier)
  PROVE  Graded(q)
<1>1. CASE r.reading = None /\ r.tier # "high"
  BY <1>1 DEF Graded, Lowered
<1>2. ASSUME NEW a \in answered, a[1] = r.picture, a[3] = r.reading,
             Ranks[r.tier] <= Ranks[Confidence(a[2], a[3])]
      PROVE  Graded(q)
  <2>1. Ranks[q.tier] <= Ranks[Confidence(a[2], a[3])]
    BY <1>2, ConfidenceType, RankValues DEF Lowered
  <2>. QED BY <1>2, <2>1 DEF Graded
<1>. QED BY <1>1, <1>2 DEF Graded

LEMMA AdjustedLowers ==
  ASSUME NEW r, NEW parts  PROVE Lowered(r, Adjusted(r, parts))
BY DEF Adjusted, Lowered

(* The integration: a reading that is no list is dropped with its callouts. *)
LEMMA CalloutGraded ==
  ASSUME NEW r, Graded(r),
         NEW q, q.picture = r.picture,
         q.reading = IF r.reading # None /\ r.reading.list THEN r.reading ELSE None,
         q.tier = IF r.tier = "dead" THEN "low" ELSE r.tier
  PROVE  Graded(q)
<1>1. CASE r.reading = None \/ r.reading.list
  BY <1>1, LoweredGraded DEF Lowered
<1>2. CASE r.reading # None /\ ~r.reading.list
  <2>1. PICK a \in answered : a[3] = r.reading /\ Ranks[r.tier] <= Ranks[Confidence(a[2], a[3])]
    BY <1>2 DEF Graded
  <2>2. Ranks[Confidence(a[2], a[3])] <= 2
    BY <1>2, <2>1, ConfidenceType, RankValues
  <2>3. r.tier # "high"
    BY <2>1, <2>2, ConfidenceType, RankValues
  <2>. QED BY <1>2, <2>3 DEF Graded
<1>. QED BY <1>1, <1>2

(* Phase 3: the record of phase 1, or what phase 2 recovered. *)
LEMMA VerifiedGraded ==
  ASSUME FilesHeard, NEW r, Heard(r, 1)
  PROVE  DOMAIN Verified(r) = {"picture", "reading", "tier"} /\ Graded(Verified(r))
<1>. DEFINE again == {q \in out[Refined].recs : q.picture = r.picture /\ q.reading # None}
            row(reading, tier) == [picture |-> r.picture, reading |-> reading, tier |-> tier]
<1>1. CASE r.reading # None
  <2>1. Verified(r) = row(r.reading, Confidence(1, r.reading))
    BY <1>1 DEF Verified
  <2>2. Ranks[Confidence(1, r.reading)] <= Ranks[Confidence(1, r.reading)]
    BY ConfidenceType, RankValues
  <2>3. <<r.picture, 1, r.reading>> \in answered
    BY DEF Heard
  <2>. QED BY <2>1, <2>2, <2>3 DEF Graded
<1>2. CASE r.reading = None /\ again # {}
  <2>1. PICK q \in again : Verified(r) = row(q.reading, Confidence(2, q.reading))
    BY <1>2 DEF Verified
  <2>2. Refined \in Names /\ Phase(Refined) = 2
    BY DEF Names, Phase, Refined
  <2>3. <<r.picture, 2, q.reading>> \in answered
    BY <2>1, <2>2 DEF FilesHeard, Heard
  <2>4. Ranks[Confidence(2, q.reading)] <= Ranks[Confidence(2, q.reading)]
    BY ConfidenceType, RankValues
  <2>. HIDE DEF again
  <2>. QED BY <2>1, <2>3, <2>4 DEF Graded
<1>3. CASE r.reading = None /\ again = {}
  <2>1. Verified(r) = row(None, "dead")
    BY <1>3 DEF Verified
  <2>. QED BY <2>1 DEF Graded
<1>. QED BY <1>1, <1>2, <1>3

(* Phase 4: a row keeps its picture and its reading. *)
LEMMA CoveredGraded ==
  ASSUME NEW r, DOMAIN r = {"picture", "reading", "tier"}, Graded(r), NEW parts,
         NEW q, q = [r EXCEPT !.tier = Adjusted(r, parts)]
  PROVE  DOMAIN q = {"picture", "reading", "tier"} /\ Graded(q)
<1>1. DOMAIN q = DOMAIN r /\ q.picture = r.picture /\ q.reading = r.reading
      /\ q.tier = Adjusted(r, parts)
  OBVIOUS
<1>. QED BY <1>1, AdjustedLowers, LoweredGraded

-----------------------------------------------------------------------------
(* The steps.                                                               *)

LEMMA StillGraded ==
  ASSUME answered \subseteq answered'
  PROVE  /\ \A r, phase : Heard(r, phase) => Heard(r, phase)'
         /\ \A r : Graded(r) => Graded(r)'
BY DEF Heard, Graded

(* A step of a worker: the stages and what they wrote are left alone. *)
LEMMA WorkerFrame ==
  ASSUME BInv, answered \subseteq answered', UNCHANGED <<final, coverage, stage, callouts>>,
         FilesHeard'
  PROVE  BInv'
BY StillGraded DEF BInv, StageHeard, OutputsGraded

LEMMA EmptiedHeard ==
  ASSUME FilesHeard, NEW f, out' \in {out, [out EXCEPT ![f] = Empty]}, answered' = answered
  PROVE  FilesHeard'
<1>1. \A g \in Names : out'[g] \in {out[g], Empty}
  BY DEF FilesHeard
<1>2. Empty.recs = {}
  BY DEF Empty
<1>. QED BY <1>1, <1>2, StillGraded DEF FilesHeard

(* A record is appended to the file of the phase it was read in. *)
LEMMA RecordInv ==
  ASSUME BInv, NEW w \in Workers, NEW reading, Record(w, reading)  PROVE BInv'
<1>1. PICK f, p : f = worker[w].file /\ p = Head(worker[w].todo)
  OBVIOUS
<1>2. answered' = answered \cup {<<p, Phase(f), reading>>}
  BY <1>1 DEF Record
<1>3. \/ out' = [out EXCEPT ![f].torn = FALSE]
      \/ out' = [out EXCEPT ![f].recs = @ \cup {[picture |-> p, reading |-> reading]}]
  BY <1>1 DEF Record
<1>4. ASSUME NEW g \in Names
      PROVE  /\ DOMAIN out'[g] = DOMAIN Empty
             /\ \/ out'[g].recs = out[g].recs
                \/ g = f /\ out'[g].recs = out[g].recs \cup {[picture |-> p, reading |-> reading]}
  BY <1>3 DEF BInv, FilesHeard, Empty
<1>5. FilesHeard'
  <2>1. DOMAIN out' = Names
    BY <1>3 DEF BInv, FilesHeard
  <2>2. ASSUME NEW g \in Names, NEW r \in out'[g].recs PROVE Heard(r, Phase(g))'
    <3>1. r \in out[g].recs \/ (g = f /\ r = [picture |-> p, reading |-> reading])
      BY <1>4, <2>2
    <3>. QED BY <1>2, <3>1 DEF BInv, FilesHeard, Heard
  <2>. QED BY <1>4, <2>1, <2>2 DEF FilesHeard
<1>. QED BY <1>2, <1>5, WorkerFrame DEF Record

LEMMA KillWorkerInv ==
  ASSUME BInv, NEW w \in Workers, KillWorker(w)  PROVE BInv'
<1>1. PICK f : f = worker[w].file
  OBVIOUS
<1>2. out' = out \/ out' = [out EXCEPT ![f].torn = TRUE]
  BY <1>1 DEF KillWorker
<1>3. /\ DOMAIN out' = Names
      /\ \A g \in Names : DOMAIN out'[g] = DOMAIN Empty /\ out'[g].recs = out[g].recs
  BY <1>2 DEF BInv, FilesHeard, Empty
<1>4. answered' = answered
  BY DEF KillWorker, history
<1>5. FilesHeard'
  BY <1>3, <1>4, StillGraded DEF BInv, FilesHeard
<1>. QED BY <1>4, <1>5, WorkerFrame DEF KillWorker

LEMMA WorkerInv == ASSUME BInv, NEW w \in Workers, WorkerStep(w) PROVE BInv'
<1>1. ASSUME NEW idx, NEW total, NEW resume, StartBatch(w, idx, total, resume) PROVE BInv'
  <2>1. PICK f : out' \in {out, [out EXCEPT ![f] = Empty]}
    BY <1>1 DEF StartBatch
  <2>2. UNCHANGED <<answered, final, coverage, stage, callouts>>
    BY <1>1 DEF StartBatch, history
  <2>3. FilesHeard'
    BY <2>1, <2>2, EmptiedHeard DEF BInv
  <2>. QED BY <2>2, <2>3, WorkerFrame
<1>2. ASSUME NEW idx, NEW total, StartPhase2(w, idx, total) PROVE BInv'
  <2>1. PICK f : out' \in {out, [out EXCEPT ![f] = Empty]}
    BY <1>2 DEF StartPhase2
  <2>2. UNCHANGED <<answered, final, coverage, stage, callouts>>
    BY <1>2 DEF StartPhase2, history
  <2>3. FilesHeard'
    BY <2>1, <2>2, EmptiedHeard DEF BInv
  <2>. QED BY <2>2, <2>3, WorkerFrame
<1>. QED BY <1>1, <1>2, RecordInv, KillWorkerInv DEF WorkerStep

(* A step of a stage: the files of the phases are left alone. *)
LEMMA StageFrame ==
  ASSUME BInv, UNCHANGED <<out, answered>>, StageHeard', OutputsGraded',
         \A r \in callouts' : Graded(r)
  PROVE  BInv'
BY StillGraded DEF BInv, FilesHeard

LEMMA LoadInv == ASSUME BInv, LoadPhase1 \/ LoadFinal \/ LoadGraded PROVE BInv'
<1>1. PICK step, rows :
        /\ stage' = [step |-> step, rows |-> rows]
        /\ \/ step = "phase3" /\ rows = Merged
           \/ step \in {"phase4", "integrate"} /\ rows \in {final.rows, coverage.rows}
        /\ UNCHANGED <<files, callouts, history>>
  <2>1. CASE LoadPhase1
    BY <2>1 DEF LoadPhase1, Begin
  <2>2. CASE LoadFinal
    BY <2>2 DEF LoadFinal, Begin
  <2>3. CASE LoadGraded
    BY <2>3 DEF LoadGraded, Begin
  <2>. QED BY <2>1, <2>2, <2>3
<1>2. \A r \in Merged : Heard(r, 1)
  <2>1. SUFFICES ASSUME NEW r \in Merged PROVE Heard(r, 1)
    OBVIOUS
  <2>2. PICK f \in Phase1Files : r \in out[f].recs
    BY DEF Merged
  <2>3. f \in Names /\ Phase(f) = 1
    BY DEF Phase1Files, Slices, Phase, Refined
  <2>. QED BY <2>2, <2>3 DEF BInv, FilesHeard
<1>3. answered' = answered /\ out' = out /\ final' = final /\ coverage' = coverage
  BY <1>1 DEF files, history
<1>4. \A r \in rows :
        /\ step = "phase3" => Heard(r, 1)
        /\ step \in {"phase4", "integrate"} =>
             DOMAIN r = {"picture", "reading", "tier"} /\ Graded(r)
  BY <1>1, <1>2 DEF BInv, OutputsGraded
<1>5. StageHeard'
  BY <1>1, <1>3, <1>4, StillGraded DEF StageHeard
<1>6. OutputsGraded'
  BY <1>3, StillGraded DEF BInv, OutputsGraded
<1>. QED BY <1>1, <1>3, <1>5, <1>6, StageFrame DEF BInv

(* A stage that ends, or that is killed with any part of its output. *)
LEMMA StageInv == ASSUME BInv, Phase3 \/ Phase4 \/ Integrate \/ KillStage PROVE BInv'
<1>1. stage' = NoStage /\ out' = out /\ answered' = answered
  BY DEF Phase3, Phase4, Integrate, KillStage, Ends, files, history
<1>2. StageHeard'
  BY <1>1 DEF StageHeard, NoStage
<1>3. PICK made : made = {Verified(r) : r \in stage.rows}
  OBVIOUS
<1>4. PICK covered : covered = {[r EXCEPT !.tier = Adjusted(r, PartsOf(r.picture))] : r \in stage.rows}
  OBVIOUS
<1>5. stage.step = "phase3" => \A r \in made : DOMAIN r = {"picture", "reading", "tier"} /\ Graded(r)
  BY <1>3, VerifiedGraded DEF BInv, StageHeard
<1>6. stage.step = "phase4" => \A r \in covered : DOMAIN r = {"picture", "reading", "tier"} /\ Graded(r)
  BY <1>4, CoveredGraded DEF BInv, StageHeard
<1>7. /\ final'.rows = final.rows \/ (stage.step = "phase3" /\ final'.rows \subseteq made)
      /\ coverage'.rows = coverage.rows \/ (stage.step = "phase4" /\ coverage'.rows \subseteq covered)
  <2>1. CASE Phase3
    BY <1>3, <2>1 DEF Phase3, Written
  <2>2. CASE Phase4
    BY <1>4, <2>2 DEF Phase4, Written
  <2>3. CASE Integrate
    BY <2>3 DEF Integrate, files
  <2>4. CASE KillStage
    <3>1. \A rows : \A x \in Cut(rows) : x.rows \subseteq rows
      BY DEF Cut, Written
    <3>. QED BY <1>3, <1>4, <2>4, <3>1 DEF KillStage
  <2>. QED BY <2>1, <2>2, <2>3, <2>4
<1>8. OutputsGraded'
  <2>1. \A r \in final'.rows \cup coverage'.rows :
          DOMAIN r = {"picture", "reading", "tier"} /\ Graded(r)
    BY <1>5, <1>6, <1>7 DEF BInv, OutputsGraded
  <2>. QED BY <1>1, <2>1, StillGraded DEF OutputsGraded
<1>9. \A r \in callouts' : Graded(r)
  <2>1. CASE UNCHANGED callouts
    BY <2>1 DEF BInv
  <2>2. CASE Integrate
    <3>1. ASSUME NEW q \in callouts' PROVE q \in callouts \/ \E r \in stage.rows :
            q = [picture |-> r.picture,
                 reading |-> IF r.reading # None /\ r.reading.list THEN r.reading ELSE None,
                 tier |-> IF r.tier = "dead" THEN "low" ELSE r.tier]
      BY <2>2, <3>1 DEF Integrate
    <3>2. \A r \in stage.rows : Graded(r)
      BY <2>2 DEF Integrate, BInv, StageHeard
    <3>3. ASSUME NEW r \in stage.rows, NEW q,
                 q = [picture |-> r.picture,
                      reading |-> IF r.reading # None /\ r.reading.list THEN r.reading ELSE None,
                      tier |-> IF r.tier = "dead" THEN "low" ELSE r.tier]
          PROVE  Graded(q)
      BY <3>2, <3>3, CalloutGraded
    <3>. QED BY <3>1, <3>3 DEF BInv
  <2>. QED BY <2>1, <2>2 DEF Phase3, Phase4, KillStage
<1>. QED BY <1>1, <1>2, <1>8, <1>9, StageFrame

LEMMA BInit == Init => BInv
BY DEF Init, BInv, FilesHeard, StageHeard, OutputsGraded, Empty, Unwritten, NoStage

LEMMA BNext == BInv /\ [Next]_vars => BInv'
<1>. SUFFICES ASSUME BInv, [Next]_vars PROVE BInv'
  OBVIOUS
<1>1. CASE UNCHANGED vars
  <2>1. /\ UNCHANGED <<out, final, coverage, stage, callouts, answered>>
    BY <1>1 DEF vars, files, history
  <2>2. FilesHeard'
    BY <2>1, StillGraded DEF BInv, FilesHeard
  <2>. QED BY <2>1, <2>2, WorkerFrame
<1>. QED BY <1>1, WorkerInv, LoadInv, StageInv DEF Next, StageStep

-----------------------------------------------------------------------------
(* Whatever was killed, cut, read again or is left from an earlier pass, a *)
(* row of the merged file, of the graded file or of image_callouts holds   *)
(* an answer the model gave for its picture, graded no better than         *)
(* phase3_verify.py grades that answer (phase4_coverage.py:25).            *)
THEOREM GradesNotRaised == Spec => []NoGradeIsRaised
<1>1. BInv => NoGradeIsRaised
  BY DEF BInv, OutputsGraded, Graded, NoGradeIsRaised
<1>. QED BY BInit, BNext, <1>1, PTL DEF Spec
-----------------------------------------------------------------------------
(***************************************************************************)
(* Lists.  The library's induction theorems take an operator, which the    *)
(* provers cannot instantiate; the least number a claim fails for does     *)
(* the same with a set.                                                    *)
(***************************************************************************)
LEMMA LeastFailure ==
  ASSUME NEW holds \in SUBSET Nat, 0 \in holds,
         \A n \in Nat : n \in holds => n + 1 \in holds
  PROVE  holds = Nat
<1>1. SUFFICES ASSUME Nat \ holds # {} PROVE FALSE
  OBVIOUS
<1>2. PICK n \in Nat \ holds : \A m \in Nat \ holds : n <= m
  BY <1>1, LeastOne
<1>3. n \in Nat /\ n # 0
  BY <1>2
<1>4. n - 1 \in Nat /\ n = (n - 1) + 1 /\ ~(n <= n - 1)
  BY <1>3
<1>5. n - 1 \notin holds
  BY <1>2, <1>4
<1>. QED BY <1>2, <1>4, <1>5

(* What Only has kept of the first i items, for every i up to n. *)
Kept(list, set, n, only) ==
  only = [i \in 0..n |-> IF i = 0 THEN << >>
                         ELSE IF list[i] \in set THEN Append(only[i - 1], list[i])
                         ELSE only[i - 1]]

LEMMA KeptExists ==
  ASSUME NEW list, NEW set, NEW n \in Nat  PROVE \E only : Kept(list, set, n, only)
<1>. DEFINE holds == {m \in Nat : \E only : Kept(list, set, m, only)}
<1>1. 0 \in holds
  <2>1. Kept(list, set, 0, [i \in 0..0 |-> << >>])
    BY DEF Kept
  <2>. QED BY <2>1
<1>2. ASSUME NEW m \in Nat, m \in holds PROVE m + 1 \in holds
  <2>1. PICK only : Kept(list, set, m, only)
    BY <1>2
  <2>2. PICK more : more = [i \in 0..(m + 1) |->
            IF i <= m THEN only[i]
            ELSE IF list[i] \in set THEN Append(only[m], list[i]) ELSE only[m]]
    OBVIOUS
  <2>3. ASSUME NEW i \in 0..(m + 1)
        PROVE  more[i] = IF i = 0 THEN << >>
                         ELSE IF list[i] \in set THEN Append(more[i - 1], list[i])
                         ELSE more[i - 1]
    <3>1. CASE i = 0
      BY <2>1, <2>2, <3>1 DEF Kept
    <3>2. CASE i \in 1..m
      <4>1. i - 1 \in 0..m /\ i \in 0..m /\ i - 1 \in 0..(m + 1)
        BY <3>2
      <4>2. more[i] = only[i] /\ more[i - 1] = only[i - 1]
        BY <2>2, <4>1
      <4>3. only[i] = IF list[i] \in set THEN Append(only[i - 1], list[i]) ELSE only[i - 1]
        <5>1. \A j \in 0..m : only[j] = IF j = 0 THEN << >>
                         ELSE IF list[j] \in set THEN Append(only[j - 1], list[j])
                         ELSE only[j - 1]
          BY <2>1 DEF Kept
        <5>. QED BY <5>1, <3>2, <4>1
      <4>. QED BY <3>2, <4>2, <4>3
    <3>3. CASE i = m + 1
      BY <2>2, <3>3
    <3>. QED BY <3>1, <3>2, <3>3
  <2>4. Kept(list, set, m + 1, more)
    BY <2>2, <2>3 DEF Kept
  <2>. QED BY <2>4
<1>. HIDE DEF holds
<1>3. holds \in SUBSET Nat
  BY DEF holds
<1>4. holds = Nat
  BY <1>1, <1>2, <1>3, LeastFailure
<1>. QED BY <1>4 DEF holds

LEMMA OnlyKept ==
  ASSUME NEW list, NEW set, Len(list) \in Nat
  PROVE  \E only : Kept(list, set, Len(list), only) /\ Only(list, set) = only[Len(list)]
<1>1. PICK only : only = CHOOSE any : Kept(list, set, Len(list), any)
  OBVIOUS
<1>2. Kept(list, set, Len(list), only)
  BY <1>1, KeptExists
<1>3. Only(list, set) = only[Len(list)]
  BY <1>1 DEF Only, Kept
<1>. QED BY <1>2, <1>3

(* Only and AtPlaces keep what they say. *)
LEMMA OnlyLemma ==
  ASSUME NEW S, NEW list \in Seq(S), NEW set
  PROVE  Only(list, set) \in Seq(S) /\ ToSet(Only(list, set)) = ToSet(list) \cap set
<1>1. Len(list) \in Nat /\ DOMAIN list = 1..Len(list) /\ \A i \in 1..Len(list) : list[i] \in S
  OBVIOUS
<1>2. PICK only : Kept(list, set, Len(list), only) /\ Only(list, set) = only[Len(list)]
  BY <1>1, OnlyKept
<1>. DEFINE claim(n) == /\ only[n] \in Seq(S)
                        /\ ToSet(only[n]) = {list[i] : i \in 1..n} \cap set
            holds == {n \in Nat : n <= Len(list) => claim(n)}
<1>3. \A j \in 0..Len(list) :
        only[j] = IF j = 0 THEN << >>
                  ELSE IF list[j] \in set THEN Append(only[j - 1], list[j]) ELSE only[j - 1]
  BY <1>2 DEF Kept
<1>4. 0 \in holds
  <2>1. only[0] = << >>
    BY <1>1, <1>3
  <2>2. claim(0)
    BY <2>1 DEF ToSet
  <2>. QED BY <2>2
<1>5. ASSUME NEW n \in Nat, n \in holds PROVE n + 1 \in holds
  <2>1. SUFFICES ASSUME n + 1 <= Len(list) PROVE claim(n + 1)
    OBVIOUS
  <2>2. claim(n)
    BY <1>1, <1>5, <2>1
  <2>3. only[n + 1] = IF list[n + 1] \in set THEN Append(only[n], list[n + 1]) ELSE only[n]
    <3>1. n + 1 \in 0..Len(list) /\ n + 1 # 0 /\ (n + 1) - 1 = n
      BY <1>1, <2>1
    <3>. QED BY <1>3, <3>1
  <2>4. list[n + 1] \in S
    BY <1>1, <2>1
  <2>5. {list[i] : i \in 1..(n + 1)} = {list[i] : i \in 1..n} \cup {list[n + 1]}
    <3>1. 1..(n + 1) = 1..n \cup {n + 1}
      OBVIOUS
    <3>. QED BY <3>1
  <2>6. PICK before : before = only[n]
    OBVIOUS
  <2>7. CASE list[n + 1] \in set
    <3>1. PICK after : after = Append(before, list[n + 1])
      OBVIOUS
    <3>2. before \in Seq(S)
      BY <2>2, <2>6
    <3>3. after \in Seq(S) /\ DOMAIN after = DOMAIN before \cup {Len(before) + 1}
          /\ after[Len(before) + 1] = list[n + 1] /\ \A i \in DOMAIN before : after[i] = before[i]
      BY <2>4, <3>1, <3>2
    <3>4. ToSet(after) = ToSet(before) \cup {list[n + 1]}
      BY <3>3 DEF ToSet
    <3>5. only[n + 1] = after
      BY <2>3, <2>6, <2>7, <3>1
    <3>. QED BY ZenonT(30), <2>2, <2>5, <2>6, <2>7, <3>3, <3>4, <3>5
  <2>8. CASE list[n + 1] \notin set
    BY <2>2, <2>3, <2>5, <2>8
  <2>. QED BY <2>7, <2>8
<1>6. Len(list) \in holds
  <2>. HIDE DEF holds
  <2>1. holds \in SUBSET Nat
    BY DEF holds
  <2>. QED BY <1>1, <1>4, <1>5, <2>1, LeastFailure
<1>7. claim(Len(list))
  BY <1>1, <1>6
<1>8. ToSet(list) = {list[i] : i \in 1..Len(list)}
  BY <1>1 DEF ToSet
<1>. QED BY <1>2, <1>7, <1>8

LEMMA PlacesLemma ==
  ASSUME NEW S, NEW list \in Seq(S), NEW places
  PROVE  /\ AtPlaces(list, places) \in Seq(S)
         /\ ToSet(AtPlaces(list, places)) = {list[i] : i \in DOMAIN list \cap places}
<1>1. PICK all : all = [i \in DOMAIN list |-> i]
  OBVIOUS
<1>2. all \in Seq(DOMAIN list) /\ ToSet(all) = DOMAIN list
  <2>1. DOMAIN list = 1..Len(list) /\ Len(list) \in Nat
    OBVIOUS
  <2>2. all \in Seq(DOMAIN list)
    BY <1>1, <2>1
  <2>3. DOMAIN all = DOMAIN list /\ \A i \in DOMAIN list : all[i] = i
    BY <1>1
  <2>. QED BY <2>2, <2>3 DEF ToSet
<1>3. PICK at : at = Only(all, places)
  OBVIOUS
<1>4. at \in Seq(DOMAIN list) /\ ToSet(at) = DOMAIN list \cap places
  BY <1>2, <1>3, OnlyLemma
<1>5. AtPlaces(list, places) = [k \in DOMAIN at |-> list[at[k]]]
  BY <1>1, <1>3 DEF AtPlaces
<1>6. AtPlaces(list, places) \in Seq(S)
  BY <1>4, <1>5
<1>7. ToSet(AtPlaces(list, places)) = {list[i] : i \in ToSet(at)}
  BY <1>5 DEF ToSet
<1>. QED BY <1>4, <1>6, <1>7

(* FlattenSeq makes a sequence of a sequence of them. *)
Flat(seqs, n, flat) == flat = [i \in 1..n |-> IF i = 1 THEN seqs[i] ELSE flat[i - 1] \o seqs[i]]

LEMMA FlatExists ==
  ASSUME NEW seqs, NEW n \in Nat  PROVE \E flat : Flat(seqs, n, flat)
<1>. DEFINE holds == {m \in Nat : \E flat : Flat(seqs, m, flat)}
<1>1. 0 \in holds
  <2>1. Flat(seqs, 0, [i \in 1..0 |-> << >>])
    BY DEF Flat
  <2>. QED BY <2>1
<1>2. ASSUME NEW m \in Nat, m \in holds PROVE m + 1 \in holds
  <2>1. PICK flat : Flat(seqs, m, flat)
    BY <1>2
  <2>2. PICK more : more = [i \in 1..(m + 1) |->
            IF i <= m THEN flat[i] ELSE IF i = 1 THEN seqs[i] ELSE flat[m] \o seqs[i]]
    OBVIOUS
  <2>3. ASSUME NEW i \in 1..(m + 1)
        PROVE  more[i] = IF i = 1 THEN seqs[i] ELSE more[i - 1] \o seqs[i]
    <3>1. CASE i \in 1..m
      <4>1. \A j \in 1..m : flat[j] = IF j = 1 THEN seqs[j] ELSE flat[j - 1] \o seqs[j]
        BY <2>1 DEF Flat
      <4>2. more[i] = flat[i]
        BY <2>2, <3>1
      <4>3. i # 1 => more[i - 1] = flat[i - 1]
        BY <2>2, <3>1
      <4>. QED BY <3>1, <4>1, <4>2, <4>3
    <3>2. CASE i = m + 1
      <4>1. i # 1 => more[i - 1] = flat[m]
        BY <2>2, <3>2
      <4>2. more[i] = IF i = 1 THEN seqs[i] ELSE flat[m] \o seqs[i]
        BY <2>2, <3>2
      <4>. QED BY <4>1, <4>2
    <3>. QED BY <3>1, <3>2
  <2>4. Flat(seqs, m + 1, more)
    BY <2>2, <2>3 DEF Flat
  <2>. QED BY <2>4
<1>. HIDE DEF holds
<1>3. holds \in SUBSET Nat
  BY DEF holds
<1>4. holds = Nat
  BY <1>1, <1>2, <1>3, LeastFailure
<1>. QED BY <1>4 DEF holds

LEMMA FlattenLemma ==
  ASSUME NEW S, NEW seqs \in Seq(Seq(S))  PROVE FlattenSeq(seqs) \in Seq(S)
<1>1. Len(seqs) \in Nat /\ \A i \in 1..Len(seqs) : seqs[i] \in Seq(S)
  OBVIOUS
<1>2. CASE Len(seqs) = 0
  BY <1>2 DEF FlattenSeq
<1>3. CASE Len(seqs) # 0
  <2>1. PICK flat : flat = CHOOSE any : Flat(seqs, Len(seqs), any)
    OBVIOUS
  <2>2. Flat(seqs, Len(seqs), flat)
    BY <1>1, <2>1, FlatExists
  <2>3. FlattenSeq(seqs) = flat[Len(seqs)]
    BY <1>3, <2>1 DEF FlattenSeq, Flat
  <2>4. \A i \in 1..Len(seqs) : flat[i] = IF i = 1 THEN seqs[i] ELSE flat[i - 1] \o seqs[i]
    BY <2>2 DEF Flat
  <2>. DEFINE holds == {n \in Nat : n \in 1..Len(seqs) => flat[n] \in Seq(S)}
  <2>5. 0 \in holds
    OBVIOUS
  <2>6. ASSUME NEW n \in Nat, n \in holds PROVE n + 1 \in holds
    <3>1. SUFFICES ASSUME n + 1 \in 1..Len(seqs) PROVE flat[n + 1] \in Seq(S)
      OBVIOUS
    <3>2. seqs[n + 1] \in Seq(S)
      BY <1>1, <3>1
    <3>3. CASE n = 0
      BY <2>4, <3>1, <3>2, <3>3
    <3>4. CASE n # 0
      <4>1. n \in 1..Len(seqs) /\ (n + 1) - 1 = n /\ n + 1 # 1
        BY <1>1, <3>1, <3>4
      <4>2. flat[n] \in Seq(S)
        BY <2>6, <4>1
      <4>3. flat[n + 1] = flat[n] \o seqs[n + 1]
        BY <2>4, <3>1, <4>1
      <4>. QED BY <3>2, <4>2, <4>3
    <3>. QED BY <3>3, <3>4
  <2>. HIDE DEF holds
  <2>7. holds \in SUBSET Nat
    BY DEF holds
  <2>8. Len(seqs) \in holds
    BY <1>1, <2>5, <2>6, <2>7, LeastFailure
  <2>. QED BY <1>1, <1>3, <2>3, <2>8 DEF holds
<1>. QED BY <1>2, <1>3

LEMMA AppearancesLemma ==
  Appearances(Workbook) \in Seq(UNION {ToSet(Workbook[s].pictures) : s \in DOMAIN Workbook})
<1>. DEFINE S == UNION {ToSet(Workbook[s].pictures) : s \in DOMAIN Workbook}
<1>1. [s \in DOMAIN Workbook |-> Workbook[s].pictures] \in Seq(Seq(S))
  <2>1. ASSUME NEW s \in DOMAIN Workbook PROVE Workbook[s].pictures \in Seq(S)
    <3>1. PICK list : list = Workbook[s].pictures
      OBVIOUS
    <3>2. list \in Seq(ToSet(list)) /\ ToSet(list) \subseteq S
      BY <3>1, MlxBatchAssumption
    <3>. QED BY <3>1, <3>2
  <2>2. DOMAIN Workbook = 1..Len(Workbook) /\ Len(Workbook) \in Nat
    BY MlxBatchAssumption
  <2>. QED BY <2>1, <2>2
<1>. QED BY <1>1, FlattenLemma DEF Appearances

LEMMA ImagesLemma == Images \in Seq(Pictures)
<1>. DEFINE S == UNION {ToSet(Workbook[s].pictures) : s \in DOMAIN Workbook}
<1>1. Images \in Seq(S)
  BY AppearancesLemma, PlacesLemma DEF Images, Extracted
<1>. QED BY <1>1 DEF Pictures, ToSet

(* Phase 2, unsliced, has all that is to be refined. *)
LEMMA WholeSlice ==
  ASSUME NEW S, NEW list \in Seq(S)
  PROVE  Slice(list, 0, 1) \in Seq(S) /\ ToSet(Slice(list, 0, 1)) = ToSet(list)
<1>1. \A i \in DOMAIN list : (i - 1) % 1 = 0
  OBVIOUS
<1>2. DOMAIN list \cap {i \in DOMAIN list : (i - 1) % 1 = 0} = DOMAIN list
  BY <1>1
<1>3. PICK places : places = {i \in DOMAIN list : (i - 1) % 1 = 0}
  OBVIOUS
<1>4. AtPlaces(list, places) \in Seq(S)
      /\ ToSet(AtPlaces(list, places)) = {list[i] : i \in DOMAIN list}
  BY <1>2, <1>3, PlacesLemma
<1>. QED BY <1>3, <1>4 DEF Slice, ToSet

-----------------------------------------------------------------------------
(***************************************************************************)
(* Workers.  A picture a worker started for is still to be read, has a     *)
(* record, had its record swallowed, or was read well by phase 1; no two   *)
(* workers write to one file, so that nobody cuts or tears it meanwhile.   *)
(***************************************************************************)
Left(w, p) == p \in ToSet(worker[w].todo) \/ p \in Recorded(worker[w].file)

ReadWell(p) == \E a \in answered : a[1] = p /\ a[2] = 1 /\ a[3] # None

Sliced(w) ==
  Phase(worker[w].file) = 1 =>
    \A p \in ToSet(Slice(Images, worker[w].idx, worker[w].total)) :
      Left(w, p) \/ <<worker[w].file, p>> \in swallowed

Refines(w) ==
  worker[w].file = Refined =>
    ~out[Refined].torn /\ \A p \in Pictures : Left(w, p) \/ ReadWell(p)

Works(w) == /\ worker[w].file \in Names
            /\ worker[w].todo \in Seq(Pictures) /\ worker[w].todo # << >>
            /\ Sliced(w) /\ Refines(w)

WInv == /\ DOMAIN worker = Workers /\ \A w \in Workers : DOMAIN worker[w] = DOMAIN Idle
        /\ \A w \in Workers : worker[w] # Idle => Works(w)
        /\ \A v, w \in Workers : worker[v] # Idle /\ worker[w] # Idle
                                 /\ worker[v].file = worker[w].file => v = w
        /\ kills \in Nat

(* The bodies of the two properties. *)
SliceEnds ==
  \A w \in Workers :
    LET f == worker[w].file IN
    /\ worker[w] # Idle /\ worker'[w] = Idle /\ kills' = kills
    /\ Phase(f) = 1
    => \A p \in ToSet(Slice(Images, worker[w].idx, worker[w].total)) :
         p \in {r.picture : r \in out'[f].recs} \/ <<f, p>> \in swallowed'

RefineEnds ==
  \A w \in Workers :
    /\ worker[w].file = Refined /\ worker'[w] = Idle /\ kills' = kills
    => \A p \in Pictures : \/ p \in {r.picture : r \in out'[Refined].recs}
                           \/ \E a \in answered : a[1] = p /\ a[2] = 1 /\ a[3] # None

LEMMA IdleNotRefined == Idle.file = None /\ Idle.todo = << >> /\ DOMAIN Idle = {"file", "idx", "total", "resume", "todo"}
BY DEF Idle

(* What a step does to the file of a worker that stays at it. *)
Spared(f) == /\ Recorded(f) \subseteq Recorded(f)'
             /\ out'[f].torn => out[f].torn
             /\ \A p : <<f, p>> \in swallowed => <<f, p>> \in swallowed' \/ p \in Recorded(f)'

LEMMA StillWorks ==
  ASSUME NEW w \in Workers, Works(w), worker'[w] = worker[w], answered \subseteq answered',
         Spared(worker[w].file)
  PROVE  Works(w)'
<1>1. PICK x : x = worker[w]
  OBVIOUS
<1>2. \A p : Left(w, p) => Left(w, p)'
  BY <1>1 DEF Left, Spared, Recorded
<1>3. \A p : ReadWell(p) => ReadWell(p)'
  BY DEF ReadWell
<1>4. Sliced(w)'
  BY <1>1, <1>2 DEF Works, Sliced, Spared, Left, Recorded
<1>5. Refines(w)'
  BY <1>1, <1>2, <1>3 DEF Works, Refines, Spared
<1>. QED BY <1>1, <1>4, <1>5 DEF Works

(* A step of one worker; the others' files are spared. *)
LEMMA OneWorks ==
  ASSUME WInv, NEW w \in Workers, NEW x, worker' = [worker EXCEPT ![w] = x],
         DOMAIN x = DOMAIN Idle, answered \subseteq answered', kills' \in Nat,
         \A v \in Workers \ {w} : worker[v] # Idle => Spared(worker[v].file),
         x # Idle => Works(w)',
         x # Idle => \A v \in Workers \ {w} : worker[v] # Idle => worker[v].file # x.file
  PROVE  WInv'
<1>1. worker'[w] = x /\ \A v \in Workers \ {w} : worker'[v] = worker[v]
  BY DEF WInv
<1>2. ASSUME NEW v \in Workers, worker'[v] # Idle PROVE Works(v)'
  BY <1>1, <1>2, StillWorks DEF WInv
<1>3. DOMAIN worker' = Workers /\ \A v \in Workers : DOMAIN worker'[v] = DOMAIN Idle
  BY <1>1 DEF WInv
<1>4. ASSUME NEW v \in Workers, NEW u \in Workers, worker'[v] # Idle, worker'[u] # Idle,
             worker'[v].file = worker'[u].file
      PROVE  v = u
  BY <1>1, <1>4 DEF WInv
<1>. QED BY <1>2, <1>3, <1>4 DEF WInv

(* A worker that does not end in the step. *)
LEMMA NobodyEnds ==
  ASSUME WInv, \A w \in Workers : worker[w] = Idle \/ worker'[w] # Idle \/ kills' # kills,
         None # Refined
  PROVE  SliceEnds /\ RefineEnds
BY IdleNotRefined DEF SliceEnds, RefineEnds

(* A new worker and the file it cuts or resumes. *)
LEMMA StartWorks ==
  ASSUME WInv, FilesHeard, NEW w \in Workers, worker[w] = Idle, NEW f \in Names, NEW x,
         DOMAIN x = DOMAIN Idle,
         \A v \in Workers : worker[v].file # f,
         x = Idle \/ x.file = f,
         x # Idle => Works(w)',
         worker' = [worker EXCEPT ![w] = x], UNCHANGED <<kills, history>>,
         out' \in {out, [out EXCEPT ![f] = Empty]}, None # Refined
  PROVE  WInv' /\ SliceEnds /\ RefineEnds
<1>1. answered' = answered /\ swallowed' = swallowed /\ kills' \in Nat
  BY DEF history, WInv
<1>2. ASSUME NEW v \in Workers \ {w}, worker[v] # Idle PROVE Spared(worker[v].file)
  <2>1. PICK g \in Names : g = worker[v].file /\ g # f
    BY <1>2 DEF WInv, Works
  <2>2. out'[g] = out[g]
    BY <2>1 DEF FilesHeard
  <2>. QED BY <1>1, <2>1, <2>2 DEF Spared, Recorded
<1>3. WInv'
  BY <1>1, <1>2, OneWorks
<1>4. \A v \in Workers \ {w} : worker'[v] = worker[v]
  BY DEF WInv
<1>. QED BY <1>3, <1>4, NobodyEnds

LEMMA NameLemma ==
  /\ \A total \in Splits : \A idx \in 0..(total - 1) :
       LET f == IF total > 1 THEN idx ELSE Unsliced IN f \in Names /\ f < Refined
  /\ \A total \in Splits2 : \A idx \in 0..(total - 1) :
       LET f == IF total > 1 THEN Refined + 1 + idx ELSE Refined IN
       f \in Names /\ ~(f < Refined) /\ (f = Refined => total = 1 /\ idx = 0)
<1>1. \A total \in Splits : total \in 1..10 /\ 0..(total - 1) \subseteq Names
  BY MlxBatchAssumption DEF Names
<1>2. \A total \in Splits2 : total \in 1..10
        /\ (Refined + 1)..(Refined + total) \subseteq Names
  <2>1. ASSUME NEW total \in Splits2, NEW f \in (Refined + 1)..(Refined + total)
        PROVE  f \in Names
    <3>1. PICK own : own = (Refined + 1)..(Refined + total)
      OBVIOUS
    <3>2. own \in {(Refined + 1)..(Refined + n) : n \in Splits2}
      BY <3>1
    <3>. QED BY <2>1, <3>1, <3>2 DEF Names
  <2>. QED BY <2>1, MlxBatchAssumption
<1>3. Unsliced \in Names /\ Refined \in Names
  BY DEF Names
<1>4. ASSUME NEW total \in Splits, NEW idx \in 0..(total - 1), NEW f,
             f = IF total > 1 THEN idx ELSE Unsliced
      PROVE  f \in Names /\ f < Refined
  BY <1>1, <1>3, <1>4 DEF Unsliced, Refined
<1>5. ASSUME NEW total \in Splits2, NEW idx \in 0..(total - 1), NEW f,
             f = IF total > 1 THEN Refined + 1 + idx ELSE Refined
      PROVE  f \in Names /\ ~(f < Refined) /\ (f = Refined => total = 1 /\ idx = 0)
  <2>1. CASE total > 1
    <3>1. f \in (Refined + 1)..(Refined + total)
      BY <1>2, <1>5, <2>1 DEF Refined
    <3>. QED BY <1>2, <1>5, <2>1, <3>1 DEF Refined
  <2>2. CASE ~(total > 1)
    BY <1>2, <1>3, <1>5, <2>2 DEF Refined
  <2>. QED BY <2>1, <2>2
<1>. QED BY <1>4, <1>5

LEMMA BatchWorks ==
  ASSUME WInv, FilesHeard, NEW w \in Workers, NEW total \in Splits, NEW idx \in 0..(total - 1),
         NEW resume \in BOOLEAN, StartBatch(w, idx, total, resume), None # Refined
  PROVE  WInv' /\ SliceEnds /\ RefineEnds
<1>1. PICK f : f = IF total > 1 THEN idx ELSE Unsliced
  OBVIOUS
<1>2. f \in Names /\ f < Refined
  BY <1>1, NameLemma
<1>3. PICK done : done = IF resume THEN Recorded(f) ELSE {}
  OBVIOUS
<1>4. PICK slice : slice = Slice(Images, idx, total)
  OBVIOUS
<1>5. slice \in Seq(Pictures)
  BY <1>4, ImagesLemma, PlacesLemma DEF Slice
<1>6. PICK todo : todo = Only(slice, Pictures \ done)
  OBVIOUS
<1>7. todo \in Seq(Pictures) /\ ToSet(todo) = ToSet(slice) \cap (Pictures \ done)
  BY <1>5, <1>6, OnlyLemma
<1>8. PICK x : x = IF todo = << >> THEN Idle
                   ELSE [file |-> f, idx |-> idx, total |-> total, resume |-> resume,
                         todo |-> todo]
  OBVIOUS
<1>9. /\ worker[w] = Idle /\ \A v \in Workers : worker[v].file # f
      /\ worker' = [worker EXCEPT ![w] = x]
      /\ out' = IF resume THEN out ELSE [out EXCEPT ![f] = Empty]
      /\ UNCHANGED <<kills, history>>
  BY <1>1, <1>3, <1>4, <1>6, <1>8 DEF StartBatch
<1>10. DOMAIN x = DOMAIN Idle /\ (x = Idle \/ x.file = f)
  BY <1>8, IdleNotRefined
<1>11. ASSUME x # Idle PROVE Works(w)'
  <2>1. x.file = f /\ x.todo = todo /\ x.idx = idx /\ x.total = total /\ todo # << >>
    BY <1>8, <1>11
  <2>2. worker'[w] = x
    BY <1>9 DEF WInv
  <2>3. f # Refined
    <3>1. f # Refined \/ f = 20
      BY DEF Refined
    <3>. QED BY <1>2, <3>1 DEF Refined
  <2>4. ToSet(slice) \subseteq Pictures
    BY <1>5 DEF ToSet
  <2>5. ASSUME NEW p \in ToSet(slice) PROVE p \in ToSet(todo) \/ p \in Recorded(f)'
    <3>1. p \in ToSet(todo) \/ p \in done
      BY <1>7, <2>4, <2>5
    <3>. QED BY <1>3, <1>9, <3>1 DEF Recorded
  <2>6. Sliced(w)'
    BY <1>4, <2>1, <2>2, <2>5 DEF Sliced, Left, Recorded
  <2>. QED BY <1>2, <1>7, <2>1, <2>2, <2>3, <2>6 DEF Works, Refines
<1>. QED BY <1>2, <1>9, <1>10, <1>11, StartWorks

LEMMA Phase2Works ==
  ASSUME WInv, FilesHeard, NEW w \in Workers, NEW total \in Splits2, NEW idx \in 0..(total - 1),
         StartPhase2(w, idx, total), None # Refined
  PROVE  WInv' /\ SliceEnds /\ RefineEnds
<1>1. PICK f : f = IF total > 1 THEN Refined + 1 + idx ELSE Refined
  OBVIOUS
<1>2. f \in Names /\ ~(f < Refined) /\ (f = Refined => total = 1 /\ idx = 0)
  BY <1>1, NameLemma
<1>3. PICK list : list = ToRefine
  OBVIOUS
<1>4. list \in Seq(Pictures) /\ ToSet(list) = Pictures \cap (Failed \cup (Pictures \ Succeeded))
  BY <1>3, ImagesLemma, OnlyLemma DEF ToRefine, Pictures
<1>5. PICK todo : todo = Slice(list, idx, total)
  OBVIOUS
<1>6. todo \in Seq(Pictures)
  BY <1>4, <1>5, PlacesLemma DEF Slice
<1>7. PICK x : x = [file |-> f, idx |-> idx, total |-> total, resume |-> FALSE, todo |-> todo]
  OBVIOUS
<1>8. /\ worker[w] = Idle /\ \A v \in Workers : worker[v].file # f
      /\ worker' = [worker EXCEPT ![w] = x] /\ todo # << >>
      /\ out' = [out EXCEPT ![f] = Empty]
      /\ UNCHANGED <<kills, history>>
  BY <1>1, <1>3, <1>5, <1>7 DEF StartPhase2
<1>9. DOMAIN x = DOMAIN Idle /\ x.file = f /\ x.todo = todo
  BY <1>7, IdleNotRefined
<1>10. worker'[w] = x
  BY <1>8 DEF WInv
<1>11. ASSUME NEW p \in Succeeded PROVE ReadWell(p)'
  <2>1. PICK g \in Phase1Files : \E r \in out[g].recs : r.picture = p /\ r.reading # None
    BY <1>11 DEF Succeeded
  <2>2. PICK r \in out[g].recs : r.picture = p /\ r.reading # None
    BY <2>1
  <2>3. g \in Names /\ Phase(g) = 1
    BY DEF Phase1Files, Slices, Phase, Refined
  <2>4. <<p, 1, r.reading>> \in answered
    BY <2>2, <2>3 DEF FilesHeard, Heard
  <2>5. PICK a : a = <<p, 1, r.reading>>
    OBVIOUS
  <2>6. a \in answered' /\ a[1] = p /\ a[2] = 1 /\ a[3] # None
    BY <1>8, <2>2, <2>4, <2>5 DEF history
  <2>. QED BY <2>6 DEF ReadWell
<1>12. Works(w)'
  <2>1. Sliced(w)'
    BY <1>2, <1>9, <1>10 DEF Sliced, Phase
  <2>2. ASSUME f = Refined PROVE Refines(w)'
    <3>1. todo \in Seq(Pictures) /\ ToSet(todo) = ToSet(list)
      BY <1>2, <1>4, <1>5, <2>2, WholeSlice
    <3>2. ~out'[Refined].torn
      BY <1>2, <1>8, <2>2 DEF FilesHeard, Empty
    <3>3. ASSUME NEW p \in Pictures PROVE Left(w, p)' \/ ReadWell(p)'
      <4>1. p \in ToSet(todo) \/ p \in Succeeded
        BY <1>4, <3>1
      <4>. QED BY <1>9, <1>10, <1>11, <4>1 DEF Left
    <3>. QED BY <3>2, <3>3 DEF Refines
  <2>3. Refines(w)'
    BY <1>9, <1>10, <2>2 DEF Refines
  <2>. QED BY <1>2, <1>6, <1>8, <1>9, <1>10, <2>1, <2>3 DEF Works
<1>. QED BY <1>2, <1>8, <1>9, <1>12, StartWorks

(* A record, or what is left of it after a torn line. *)
LEMMA RecordWorks ==
  ASSUME WInv, FilesHeard, NEW w \in Workers, NEW reading, Record(w, reading), None # Refined
  PROVE  WInv' /\ SliceEnds /\ RefineEnds
<1>1. PICK y : y = worker[w]
  OBVIOUS
<1>2. y # Idle /\ DOMAIN y = DOMAIN Idle /\ Works(w)
  BY <1>1 DEF Record, WInv
<1>3. PICK f, todo, p : f = y.file /\ todo = y.todo /\ p = Head(todo)
  OBVIOUS
<1>4. f \in Names /\ todo \in Seq(Pictures) /\ todo # << >>
  BY <1>1, <1>2, <1>3 DEF Works
<1>5. PICK rest : rest = Tail(todo)
  OBVIOUS
<1>6. rest \in Seq(Pictures) /\ ToSet(todo) = {p} \cup ToSet(rest)
  <2>1. rest \in Seq(Pictures)
    BY <1>4, <1>5
  <2>2. Len(todo) \in Nat \ {0} /\ DOMAIN todo = 1..Len(todo) /\ p = todo[1]
        /\ DOMAIN rest = 1..(Len(todo) - 1) /\ \A i \in 1..(Len(todo) - 1) : rest[i] = todo[i + 1]
    BY <1>3, <1>4, <1>5
  <2>3. ASSUME NEW i \in DOMAIN todo PROVE todo[i] = p \/ \E j \in DOMAIN rest : todo[i] = rest[j]
    <3>1. CASE i = 1
      BY <2>2, <3>1
    <3>2. CASE i # 1
      <4>1. i - 1 \in DOMAIN rest /\ (i - 1) + 1 = i
        BY <2>2, <3>2
      <4>. QED BY <2>2, <4>1
    <3>. QED BY <3>1, <3>2
  <2>4. ASSUME NEW j \in DOMAIN rest PROVE j + 1 \in DOMAIN todo /\ rest[j] = todo[j + 1]
    BY <2>2
  <2>5. 1 \in DOMAIN todo
    BY <2>2
  <2>6. ToSet(todo) \subseteq {p} \cup ToSet(rest)
    BY <2>3 DEF ToSet
  <2>7. {p} \cup ToSet(rest) \subseteq ToSet(todo)
    BY <2>2, <2>4, <2>5 DEF ToSet
  <2>. QED BY <2>1, <2>6, <2>7
<1>7. PICK x : x = IF Len(todo) = 1 THEN Idle ELSE [y EXCEPT !.todo = rest]
  OBVIOUS
<1>8. /\ DOMAIN x = DOMAIN Idle
      /\ x = Idle => rest = << >>
      /\ x # Idle => /\ x.file = f /\ x.todo = rest /\ x.idx = y.idx /\ x.total = y.total
                     /\ rest # << >>
  <2>1. CASE Len(todo) = 1
    BY <1>4, <1>5, <1>7, <2>1
  <2>2. CASE Len(todo) # 1
    <3>1. rest # << >>
      <4>1. Len(rest) = Len(todo) - 1 /\ Len(todo) # 0 /\ Len(todo) \in Nat
        BY <1>4, <1>5
      <4>. QED BY <2>2, <4>1
    <3>2. x.file = f /\ x.todo = rest /\ x.idx = y.idx /\ x.total = y.total /\ DOMAIN x = DOMAIN y
      BY <1>2, <1>3, <1>7, <2>2, IdleNotRefined
    <3>3. x # Idle
      BY <3>1, <3>2, IdleNotRefined
    <3>. QED BY <1>2, <3>1, <3>2, <3>3
  <2>. QED BY <2>1, <2>2
<1>9. worker' = [worker EXCEPT ![w] = x]
  BY <1>1, <1>3, <1>5, <1>7 DEF Record, Next1
<1>10. worker'[w] = x /\ \A v \in Workers \ {w} : worker'[v] = worker[v]
  BY <1>9 DEF WInv
<1>11. answered \subseteq answered' /\ kills' = kills
  BY DEF Record, bounds
<1>12. /\ Recorded(f) \subseteq Recorded(f)'
       /\ p \in Recorded(f)' \/ (out[f].torn /\ <<f, p>> \in swallowed')
       /\ \A q : <<f, q>> \in swallowed => <<f, q>> \in swallowed' \/ q \in Recorded(f)'
       /\ out'[f].torn => out[f].torn
       /\ \A g \in Names \ {f} : out'[g] = out[g]
       /\ \A g \in Names \ {f} : \A q : <<g, q>> \in swallowed => <<g, q>> \in swallowed'
  <2>1. DOMAIN out = Names /\ DOMAIN out[f] = {"recs", "torn"}
    BY <1>4 DEF FilesHeard, Empty
  <2>2. CASE out[f].torn /\ out' = [out EXCEPT ![f].torn = FALSE]
             /\ swallowed' = swallowed \cup {<<f, p>>}
    <3>1. out'[f].recs = out[f].recs /\ ~out'[f].torn /\ \A g \in Names \ {f} : out'[g] = out[g]
      BY <1>4, <2>1, <2>2
    <3>. QED BY <2>2, <3>1 DEF Recorded
  <2>3. CASE /\ out' = [out EXCEPT ![f].recs = @ \cup {[picture |-> p, reading |-> reading]}]
             /\ swallowed' = swallowed \ {<<f, p>>}
    <3>1. /\ out'[f].recs = out[f].recs \cup {[picture |-> p, reading |-> reading]}
          /\ out'[f].torn = out[f].torn /\ \A g \in Names \ {f} : out'[g] = out[g]
      BY <1>4, <2>1, <2>3
    <3>2. p \in Recorded(f)' /\ Recorded(f) \subseteq Recorded(f)'
      <4>1. [picture |-> p, reading |-> reading] \in out'[f].recs
            /\ [picture |-> p, reading |-> reading].picture = p
        BY <3>1
      <4>2. p \in {r.picture : r \in out'[f].recs}
        BY <4>1
      <4>3. out[f].recs \subseteq out'[f].recs
        BY <3>1
      <4>. QED BY <4>2, <4>3 DEF Recorded
    <3>3. \A q : <<f, q>> \in swallowed /\ q # p => <<f, q>> \in swallowed'
      BY <2>3
    <3>4. \A g \in Names \ {f} : \A q : <<g, q>> \in swallowed => <<g, q>> \in swallowed'
      BY <2>3
    <3>. QED BY <3>1, <3>2, <3>3, <3>4
  <2>. QED BY <1>1, <1>3, <2>2, <2>3 DEF Record
<1>13. \A v \in Workers \ {w} : worker[v] # Idle =>
         Spared(worker[v].file) /\ worker[v].file # f
  <2>1. ASSUME NEW v \in Workers \ {w}, worker[v] # Idle, NEW g, g = worker[v].file
        PROVE  Spared(g) /\ g # f
    <3>1. g \in Names /\ g # f
      BY <1>1, <1>2, <1>3, <2>1 DEF WInv, Works
    <3>. QED BY <1>12, <3>1 DEF Spared, Recorded
  <2>. QED BY <2>1
<1>14. \A q : Left(w, q) => \/ q \in ToSet(rest) \/ q \in Recorded(f)'
                            \/ (out[f].torn /\ <<f, q>> \in swallowed')
  BY <1>1, <1>3, <1>6, <1>12 DEF Left
<1>15. ASSUME Phase(f) = 1, NEW q \in ToSet(Slice(Images, y.idx, y.total))
       PROVE  q \in ToSet(rest) \/ q \in Recorded(f)' \/ <<f, q>> \in swallowed'
  BY <1>1, <1>2, <1>3, <1>12, <1>14, <1>15 DEF Works, Sliced
<1>16. ASSUME f = Refined, NEW q \in Pictures
       PROVE  q \in ToSet(rest) \/ q \in Recorded(f)' \/ ReadWell(q)
  BY <1>1, <1>2, <1>3, <1>14, <1>16 DEF Works, Refines
<1>17. x # Idle => Works(w)'
  <2>1. SUFFICES ASSUME x # Idle PROVE Works(w)'
    OBVIOUS
  <2>2. Sliced(w)'
    BY <1>8, <1>10, <1>15, <2>1 DEF Sliced, Left, Recorded
  <2>3. \A q : ReadWell(q) => ReadWell(q)'
    BY <1>11 DEF ReadWell
  <2>4. f = Refined => ~out'[f].torn
    BY <1>1, <1>2, <1>3, <1>12 DEF Works, Refines
  <2>5. Refines(w)'
    BY <1>8, <1>10, <1>16, <2>1, <2>3, <2>4 DEF Refines, Left, Recorded
  <2>. QED BY <1>4, <1>6, <1>8, <1>10, <2>1, <2>2, <2>5 DEF Works
<1>18. WInv'
  <2>1. kills' \in Nat /\ \A v \in Workers \ {w} : worker[v] # Idle => Spared(worker[v].file)
    BY <1>11, <1>13 DEF WInv
  <2>2. x # Idle => \A v \in Workers \ {w} : worker[v] # Idle => worker[v].file # x.file
    BY <1>8, <1>13
  <2>. QED BY <1>8, <1>9, <1>11, <1>17, <2>1, <2>2, OneWorks
<1>19. ToSet(<< >>) = {}
  BY DEF ToSet
<1>20. SliceEnds
  <2>1. SUFFICES ASSUME NEW v \in Workers, worker[v] # Idle, worker'[v] = Idle,
                        Phase(worker[v].file) = 1,
                        NEW q \in ToSet(Slice(Images, worker[v].idx, worker[v].total))
                 PROVE  \/ q \in {r.picture : r \in out'[worker[v].file].recs}
                        \/ <<worker[v].file, q>> \in swallowed'
    BY DEF SliceEnds
  <2>2. v = w /\ rest = << >>
    BY <1>8, <1>10, <2>1
  <2>. QED BY <1>1, <1>3, <1>15, <1>19, <2>1, <2>2 DEF Recorded
<1>21. RefineEnds
  <2>1. SUFFICES ASSUME NEW v \in Workers, worker[v].file = Refined, worker'[v] = Idle,
                        NEW q \in Pictures
                 PROVE  q \in {r.picture : r \in out'[Refined].recs} \/ ReadWell(q)
    BY DEF RefineEnds, ReadWell
  <2>2. v = w /\ rest = << >>
    BY <1>8, <1>10, <2>1, IdleNotRefined
  <2>. QED BY <1>1, <1>3, <1>16, <1>19, <2>1, <2>2 DEF Recorded
<1>. QED BY <1>18, <1>20, <1>21

LEMMA KillWorks ==
  ASSUME WInv, FilesHeard, NEW w \in Workers, KillWorker(w), None # Refined
  PROVE  WInv' /\ SliceEnds /\ RefineEnds
<1>1. PICK f : f = worker[w].file
  OBVIOUS
<1>2. /\ worker[w] # Idle /\ f \in Names /\ worker' = [worker EXCEPT ![w] = Idle]
      /\ kills' = kills + 1 /\ out' \in {out, [out EXCEPT ![f].torn = TRUE]}
      /\ answered' = answered /\ swallowed' = swallowed
  BY <1>1 DEF KillWorker, history, WInv, Works
<1>3. kills' \in Nat /\ kills' # kills
  BY <1>2 DEF WInv
<1>4. ASSUME NEW v \in Workers \ {w}, worker[v] # Idle PROVE Spared(worker[v].file)
  <2>1. PICK g \in Names : g = worker[v].file /\ g # f
    BY <1>1, <1>2, <1>4 DEF WInv, Works
  <2>2. out'[g] = out[g]
    BY <1>2, <2>1 DEF FilesHeard
  <2>. QED BY <1>2, <2>1, <2>2 DEF Spared, Recorded
<1>5. WInv'
  BY <1>2, <1>3, <1>4, OneWorks
<1>. QED BY <1>3, <1>5, NobodyEnds

(* A step that leaves the workers and their files alone. *)
LEMMA RestWorks ==
  ASSUME WInv, UNCHANGED <<out, worker, history>>, kills' \in {kills, kills + 1}, None # Refined
  PROVE  WInv' /\ SliceEnds /\ RefineEnds
<1>1. answered' = answered /\ swallowed' = swallowed /\ kills' \in Nat
  BY DEF history, WInv
<1>2. \A w \in Workers : Spared(worker[w].file)
  BY <1>1 DEF Spared, Recorded
<1>3. \A w \in Workers : worker[w] # Idle => Works(w)'
  BY <1>1, <1>2, StillWorks DEF WInv
<1>4. WInv'
  BY <1>1, <1>3 DEF WInv
<1>. QED BY <1>4, NobodyEnds

LEMMA WInit == Init => WInv
BY DEF Init, WInv

LEMMA WNext == BInv /\ WInv /\ [Next]_vars => WInv' /\ SliceEnds /\ RefineEnds
<1>. SUFFICES ASSUME BInv, WInv, [Next]_vars PROVE WInv' /\ SliceEnds /\ RefineEnds
  OBVIOUS
<1>1. FilesHeard /\ None # Refined
  BY MlxBatchAssumption DEF BInv, Refined
<1>2. ASSUME NEW w \in Workers, WorkerStep(w) PROVE WInv' /\ SliceEnds /\ RefineEnds
  BY <1>1, <1>2, BatchWorks, Phase2Works, RecordWorks, KillWorks DEF WorkerStep
<1>3. CASE StageStep
  <2>1. /\ UNCHANGED <<out, worker, history>> /\ kills' \in {kills, kills + 1}
    BY <1>3 DEF StageStep, LoadPhase1, Phase3, LoadFinal, Phase4, LoadGraded, Integrate,
                KillStage, Begin, Ends, files, history
  <2>. QED BY <1>1, <2>1, RestWorks
<1>4. CASE UNCHANGED vars
  <2>1. UNCHANGED <<out, worker, history, kills>>
    BY <1>4 DEF vars, files, bounds
  <2>. QED BY <1>1, <2>1, RestWorks
<1>. QED BY <1>2, <1>3, <1>4 DEF Next

-----------------------------------------------------------------------------
(* A batch worker that ends has left a record of every picture of its      *)
(* slice, after however many deaths and --resume and whoever works beside  *)
(* it, but for those whose record continued a torn line: the filter and    *)
(* the append mode of batch_vision_ocr.py:98 fit together.                 *)
THEOREM SlicesComplete == Spec => FinishedSliceIsComplete
<1>1. BInv /\ WInv /\ [Next]_vars =>
        [\A w \in Workers :
           LET f == worker[w].file IN
           /\ worker[w] # Idle /\ worker'[w] = Idle /\ kills' = kills
           /\ Phase(f) = 1
           => \A p \in ToSet(Slice(Images, worker[w].idx, worker[w].total)) :
                p \in {r.picture : r \in out'[f].recs} \/ <<f, p>> \in swallowed']_vars
  BY WNext DEF SliceEnds
<1>. QED BY BInit, BNext, WInit, WNext, <1>1, PTL DEF Spec, FinishedSliceIsComplete

(* What phase 2 has no record of when it ends was read well in phase 1: no *)
(* failure and no picture of a dead worker is forgotten                    *)
(* (phase2_refine.py:14-17).                                               *)
THEOREM AllRefined == Spec => RefinedOrRead
<1>1. BInv /\ WInv /\ [Next]_vars =>
        [\A w \in Workers :
           /\ worker[w].file = Refined /\ worker'[w] = Idle /\ kills' = kills
           => \A p \in Pictures :
                \/ p \in {r.picture : r \in out'[Refined].recs}
                \/ \E a \in answered : a[1] = p /\ a[2] = 1 /\ a[3] # None]_vars
  BY WNext DEF RefineEnds
<1>. QED BY BInit, BNext, WInit, WNext, <1>1, PTL DEF Spec, RefinedOrRead

-----------------------------------------------------------------------------
(* Lists without repetitions.                                               *)

LEMMA OnlyOnce ==
  ASSUME NEW S, NEW list \in Seq(S), NEW set, IsInjective(list)
  PROVE  IsInjective(Only(list, set))
<1>1. Len(list) \in Nat /\ DOMAIN list = 1..Len(list) /\ \A i \in 1..Len(list) : list[i] \in S
  OBVIOUS
<1>2. PICK only : Kept(list, set, Len(list), only) /\ Only(list, set) = only[Len(list)]
  BY <1>1, OnlyKept
<1>3. \A j \in 0..Len(list) :
        only[j] = IF j = 0 THEN << >>
                  ELSE IF list[j] \in set THEN Append(only[j - 1], list[j]) ELSE only[j - 1]
  BY <1>2 DEF Kept
<1>. DEFINE claim(n) == /\ only[n] \in Seq(S) /\ IsInjective(only[n])
                        /\ \A k \in DOMAIN only[n] : \E i \in 1..n : only[n][k] = list[i]
            holds == {n \in Nat : n <= Len(list) => claim(n)}
<1>4. 0 \in holds
  <2>1. only[0] = << >>
    BY <1>1, <1>3
  <2>2. claim(0)
    BY <2>1 DEF IsInjective
  <2>. QED BY <2>2
<1>5. ASSUME NEW n \in Nat, n \in holds PROVE n + 1 \in holds
  <2>1. SUFFICES ASSUME n + 1 <= Len(list) PROVE claim(n + 1)
    OBVIOUS
  <2>2. PICK before : before = only[n]
    OBVIOUS
  <2>3. /\ before \in Seq(S) /\ IsInjective(before)
        /\ \A k \in DOMAIN before : \E i \in 1..n : before[k] = list[i]
    BY <1>1, <1>5, <2>1, <2>2
  <2>4. only[n + 1] = IF list[n + 1] \in set THEN Append(before, list[n + 1]) ELSE before
    <3>1. n + 1 \in 0..Len(list) /\ n + 1 # 0 /\ (n + 1) - 1 = n
      BY <1>1, <2>1
    <3>. QED BY <1>3, <2>2, <3>1
  <2>5. list[n + 1] \in S /\ n + 1 \in DOMAIN list /\ 1..n \subseteq DOMAIN list
    BY <1>1, <2>1
  <2>6. CASE list[n + 1] \in set
    <3>1. PICK after : after = Append(before, list[n + 1])
      OBVIOUS
    <3>2. /\ after \in Seq(S) /\ DOMAIN after = DOMAIN before \cup {Len(before) + 1}
          /\ after[Len(before) + 1] = list[n + 1] /\ \A i \in DOMAIN before : after[i] = before[i]
      BY <2>3, <2>5, <3>1
    <3>3. \A k \in DOMAIN before : before[k] # list[n + 1]
      <4>1. \A i \in 1..n : list[i] # list[n + 1]
        BY <2>5 DEF IsInjective
      <4>. QED BY <2>3, <4>1
    <3>4. IsInjective(after)
      BY <2>3, <3>2, <3>3 DEF IsInjective
    <3>5. \A k \in DOMAIN after : \E i \in 1..(n + 1) : after[k] = list[i]
      BY <2>3, <3>2
    <3>. QED BY <2>4, <2>6, <3>1, <3>2, <3>4, <3>5
  <2>7. CASE list[n + 1] \notin set
    <3>1. \A k \in DOMAIN before : \E i \in 1..(n + 1) : before[k] = list[i]
      BY <2>3
    <3>. QED BY <2>3, <2>4, <2>7, <3>1
  <2>. QED BY <2>6, <2>7
<1>6. Len(list) \in holds
  <2>. HIDE DEF holds
  <2>1. holds \in SUBSET Nat
    BY DEF holds
  <2>. QED BY <1>1, <1>4, <1>5, <2>1, LeastFailure
<1>. QED BY <1>1, <1>2, <1>6

(* What is taken at places where no value is repeated. *)
LEMMA PlacesOnce ==
  ASSUME NEW S, NEW list \in Seq(S), NEW places,
         \A i, j \in DOMAIN list \cap places : list[i] = list[j] => i = j
  PROVE  IsInjective(AtPlaces(list, places))
<1>1. PICK all : all = [i \in DOMAIN list |-> i]
  OBVIOUS
<1>2. all \in Seq(DOMAIN list) /\ IsInjective(all)
  <2>1. DOMAIN list = 1..Len(list) /\ Len(list) \in Nat
    OBVIOUS
  <2>. QED BY <1>1, <2>1 DEF IsInjective
<1>3. PICK at : at = Only(all, places)
  OBVIOUS
<1>4. at \in Seq(DOMAIN list) /\ ToSet(at) = ToSet(all) \cap places /\ IsInjective(at)
  BY <1>2, <1>3, OnlyLemma, OnlyOnce
<1>5. AtPlaces(list, places) = [k \in DOMAIN at |-> list[at[k]]]
  BY <1>1, <1>3 DEF AtPlaces
<1>6. \A k \in DOMAIN at : at[k] \in DOMAIN list \cap places
  BY <1>4 DEF ToSet
<1>. QED BY <1>4, <1>5, <1>6 DEF IsInjective

(* The extraction takes a picture once; so does what is made of its list. *)
LEMMA ImagesOnce == IsInjective(Images)
<1>. DEFINE S == UNION {ToSet(Workbook[s].pictures) : s \in DOMAIN Workbook}
<1>1. PICK shown : shown = Appearances(Workbook)
  OBVIOUS
<1>2. shown \in Seq(S)
  BY <1>1, AppearancesLemma
<1>3. PICK places : places = {i \in DOMAIN shown : \A j \in 1..(i - 1) : shown[j] # shown[i]}
  OBVIOUS
<1>4. ASSUME NEW i \in DOMAIN shown \cap places, NEW j \in DOMAIN shown \cap places,
             shown[i] = shown[j]
      PROVE  i = j
  <2>1. i \in Nat \ {0} /\ j \in Nat \ {0}
    BY <1>2
  <2>2. ~(i < j) /\ ~(j < i)
    BY <1>3, <1>4, <2>1
  <2>. QED BY <2>1, <2>2
<1>. HIDE DEF S
<1>5. IsInjective(AtPlaces(shown, places))
  BY <1>2, <1>4, PlacesOnce
<1>. QED BY <1>1, <1>3, <1>5 DEF Images, Extracted

LEMMA SliceOnce ==
  ASSUME NEW S, NEW list \in Seq(S), IsInjective(list), NEW idx, NEW total
  PROVE  IsInjective(Slice(list, idx, total))
BY PlacesOnce DEF Slice, IsInjective

-----------------------------------------------------------------------------
(***************************************************************************)
(* One of each.  A worker has no picture twice and none that its file has, *)
(* so a file has one record of a picture; phase 3 takes it from the last   *)
(* file that has one, and each later stage has one row for it.             *)
(***************************************************************************)
OneEach(rows) == \A r, s \in rows : r.picture = s.picture => r = s

Answers == {None} \cup UNION {Readings[ph][p] : ph \in 1..2, p \in Pictures}
Reads(recs) == \A r \in recs : r.picture \in Pictures /\ r.reading \in Answers
GradedRows == Rows(DOMAIN Ranks)

FileOnce(f) == out[f].torn \in BOOLEAN /\ OneEach(out[f].recs) /\ Reads(out[f].recs)

Ahead(w) ==
  worker[w] # Idle =>
    /\ IsInjective(worker[w].todo)
    /\ \A p \in ToSet(worker[w].todo) : p \notin Recorded(worker[w].file)

StageOnce ==
  /\ OneEach(stage.rows)
  /\ stage.step = "phase3" => Reads(stage.rows)
  /\ stage.step \in {"phase4", "integrate"} => stage.rows \subseteq GradedRows

OutputsOnce ==
  /\ OneEach(final.rows) /\ OneEach(coverage.rows) /\ OneEach(callouts)
  /\ final.rows \cup coverage.rows \subseteq GradedRows
  /\ callouts \subseteq Rows(DOMAIN Ranks \ {"dead"})

DInv == /\ \A f \in Names : FileOnce(f)
        /\ \A w \in Workers : Ahead(w)
        /\ StageOnce /\ OutputsOnce

LEMMA FileStays ==
  ASSUME NEW f, out'[f] = out[f]
  PROVE  (FileOnce(f) => FileOnce(f)') /\ Recorded(f)' = Recorded(f)
BY DEF FileOnce, OneEach, Reads, Recorded

LEMMA EmptyOnce ==
  ASSUME NEW f, out'[f] = Empty
  PROVE  FileOnce(f)' /\ Recorded(f)' = {}
BY DEF FileOnce, OneEach, Reads, Recorded, Empty

(* A step of one worker, which touches its own file only. *)
LEMMA OneAhead ==
  ASSUME DInv, WInv, NEW w \in Workers, NEW f \in Names, NEW x,
         worker' = [worker EXCEPT ![w] = x], x = Idle \/ x.file = f,
         \A v \in Workers \ {w} : worker[v] # Idle => worker[v].file # f,
         \A g \in Names \ {f} : out'[g] = out[g], FileOnce(f)',
         x # Idle => IsInjective(x.todo) /\ \A p \in ToSet(x.todo) : p \notin Recorded(f)',
         UNCHANGED <<final, coverage, stage, callouts>>
  PROVE  DInv'
<1>1. worker'[w] = x /\ \A v \in Workers \ {w} : worker'[v] = worker[v]
  BY DEF WInv
<1>2. \A g \in Names : FileOnce(g)'
  BY FileStays DEF DInv
<1>3. Ahead(w)'
  BY <1>1 DEF Ahead, Recorded
<1>4. ASSUME NEW v \in Workers \ {w} PROVE Ahead(v)'
  <2>1. CASE worker[v] = Idle
    BY <1>1, <2>1 DEF Ahead
  <2>2. CASE worker[v] # Idle
    <3>1. PICK g \in Names : g = worker[v].file /\ out'[g] = out[g]
      BY <2>2 DEF WInv, Works
    <3>2. Recorded(g)' = Recorded(g)
      BY <3>1, FileStays
    <3>. QED BY <1>1, <2>2, <3>1, <3>2 DEF DInv, Ahead
  <2>. QED BY <2>1, <2>2
<1>5. StageOnce' /\ OutputsOnce'
  BY DEF DInv, StageOnce, OutputsOnce
<1>. QED BY <1>2, <1>3, <1>4, <1>5 DEF DInv

LEMMA BatchOnce ==
  ASSUME DInv, WInv, FilesHeard, NEW w \in Workers, NEW total \in Splits,
         NEW idx \in 0..(total - 1), NEW resume \in BOOLEAN, StartBatch(w, idx, total, resume)
  PROVE  DInv'
<1>1. PICK f : f = IF total > 1 THEN idx ELSE Unsliced
  OBVIOUS
<1>2. PICK done : done = IF resume THEN Recorded(f) ELSE {}
  OBVIOUS
<1>3. PICK slice : slice = Slice(Images, idx, total)
  OBVIOUS
<1>4. slice \in Seq(Pictures) /\ IsInjective(slice)
  <2>1. slice \in Seq(Pictures)
    BY <1>3, ImagesLemma, PlacesLemma DEF Slice
  <2>. QED BY <1>3, <2>1, ImagesLemma, ImagesOnce, SliceOnce
<1>5. PICK todo : todo = Only(slice, Pictures \ done)
  OBVIOUS
<1>6. IsInjective(todo) /\ ToSet(todo) = ToSet(slice) \cap (Pictures \ done)
  BY <1>4, <1>5, OnlyLemma, OnlyOnce
<1>7. PICK x : x = IF todo = << >> THEN Idle
                   ELSE [file |-> f, idx |-> idx, total |-> total, resume |-> resume,
                         todo |-> todo]
  OBVIOUS
<1>8. /\ \A v \in Workers : worker[v].file # f
      /\ worker' = [worker EXCEPT ![w] = x]
      /\ out' = IF resume THEN out ELSE [out EXCEPT ![f] = Empty]
      /\ UNCHANGED <<final, coverage, stage, callouts>>
  BY <1>1, <1>2, <1>3, <1>5, <1>7 DEF StartBatch
<1>9. f \in Names
  BY <1>1, NameLemma
<1>10. FileOnce(f)' /\ Recorded(f)' = done
  <2>1. CASE resume
    BY <1>2, <1>8, <1>9, <2>1, FileStays DEF DInv
  <2>2. CASE ~resume
    <3>1. out'[f] = Empty
      BY <1>8, <1>9, <2>2 DEF FilesHeard
    <3>. QED BY <1>2, <2>2, <3>1, EmptyOnce
  <2>. QED BY <2>1, <2>2
<1>11. \A g \in Names \ {f} : out'[g] = out[g]
  BY <1>8 DEF FilesHeard
<1>12. x = Idle \/ (x.file = f /\ x.todo = todo)
  BY <1>7
<1>13. \A p \in ToSet(todo) : p \notin Recorded(f)'
  BY <1>6, <1>10
<1>. QED BY <1>6, <1>8, <1>9, <1>10, <1>11, <1>12, <1>13, OneAhead

LEMMA Phase2Once ==
  ASSUME DInv, WInv, FilesHeard, NEW w \in Workers, NEW total \in Splits2,
         NEW idx \in 0..(total - 1), StartPhase2(w, idx, total)
  PROVE  DInv'
<1>1. PICK f : f = IF total > 1 THEN Refined + 1 + idx ELSE Refined
  OBVIOUS
<1>2. PICK todo : todo = Slice(ToRefine, idx, total)
  OBVIOUS
<1>3. IsInjective(todo)
  BY <1>2, ImagesLemma, ImagesOnce, OnlyLemma, OnlyOnce, SliceOnce DEF ToRefine
<1>4. PICK x : x = [file |-> f, idx |-> idx, total |-> total, resume |-> FALSE, todo |-> todo]
  OBVIOUS
<1>5. /\ \A v \in Workers : worker[v].file # f
      /\ worker' = [worker EXCEPT ![w] = x]
      /\ out' = [out EXCEPT ![f] = Empty]
      /\ UNCHANGED <<final, coverage, stage, callouts>>
  BY <1>1, <1>2, <1>4 DEF StartPhase2
<1>6. f \in Names
  BY <1>1, NameLemma
<1>7. out'[f] = Empty /\ \A g \in Names \ {f} : out'[g] = out[g]
  BY <1>5, <1>6 DEF FilesHeard
<1>8. FileOnce(f)' /\ Recorded(f)' = {}
  BY <1>7, EmptyOnce
<1>9. x.file = f /\ x.todo = todo
  BY <1>4
<1>. QED BY <1>3, <1>5, <1>6, <1>7, <1>8, <1>9, OneAhead

(* The head of a list is not in its tail. *)
LEMMA TailOnce ==
  ASSUME NEW S, NEW list \in Seq(S), list # << >>, IsInjective(list)
  PROVE  /\ IsInjective(Tail(list)) /\ ToSet(Tail(list)) \subseteq ToSet(list)
         /\ Head(list) \in ToSet(list) /\ Head(list) \in S /\ Head(list) \notin ToSet(Tail(list))
<1>1. PICK n \in Nat : n = Len(list) - 1 /\ DOMAIN list = 1..(n + 1)
  <2>1. Len(list) \in Nat /\ Len(list) # 0 /\ DOMAIN list = 1..Len(list)
    OBVIOUS
  <2>2. Len(list) - 1 \in Nat /\ Len(list) = (Len(list) - 1) + 1
    BY <2>1
  <2>. QED BY <2>1, <2>2
<1>2. PICK rest : rest = Tail(list)
  OBVIOUS
<1>3. DOMAIN rest = 1..n /\ \A i \in 1..n : rest[i] = list[i + 1]
  BY <1>1, <1>2
<1>4. Head(list) = list[1] /\ 1 \in DOMAIN list /\ list[1] \in S
  BY <1>1
<1>5. \A i \in 1..n : i + 1 \in DOMAIN list /\ i + 1 # 1
  BY <1>1
<1>6. IsInjective(rest)
  <2>1. ASSUME NEW i \in 1..n, NEW j \in 1..n, rest[i] = rest[j] PROVE i = j
    <3>1. i + 1 = j + 1
      BY <1>3, <1>5, <2>1 DEF IsInjective
    <3>. QED BY <3>1
  <2>. QED BY <1>3, <2>1 DEF IsInjective
<1>7. ToSet(rest) \subseteq ToSet(list)
  BY <1>3, <1>5 DEF ToSet
<1>8. ASSUME NEW i \in 1..n PROVE rest[i] # list[1]
  BY <1>3, <1>4, <1>5 DEF IsInjective
<1>. QED BY <1>2, <1>3, <1>4, <1>6, <1>7, <1>8 DEF ToSet

LEMMA RecordOnce ==
  ASSUME DInv, WInv, FilesHeard, NEW w \in Workers, NEW reading, Record(w, reading)
  PROVE  DInv'
<1>1. PICK f, todo, p : f = worker[w].file /\ todo = worker[w].todo /\ p = Head(todo)
  OBVIOUS
<1>2. worker[w] # Idle /\ DOMAIN worker[w] = DOMAIN Idle /\ Works(w)
  BY DEF Record, WInv
<1>3. f \in Names /\ todo \in Seq(Pictures) /\ todo # << >>
  BY <1>1, <1>2 DEF Works
<1>4. IsInjective(todo) /\ \A q \in ToSet(todo) : q \notin Recorded(f)
  BY <1>1, <1>2 DEF DInv, Ahead
<1>5. PICK rest : rest = Tail(todo)
  OBVIOUS
<1>6. /\ IsInjective(rest) /\ ToSet(rest) \subseteq ToSet(todo)
      /\ p \in ToSet(todo) /\ p \in Pictures /\ p \notin ToSet(rest)
  BY <1>1, <1>3, <1>4, <1>5, TailOnce
<1>7. PICK x : x = IF Len(todo) = 1 THEN Idle ELSE [worker[w] EXCEPT !.todo = rest]
  OBVIOUS
<1>8. x = Idle \/ (x.file = f /\ x.todo = rest)
  BY <1>1, <1>2, <1>7 DEF Idle
<1>9. worker' = [worker EXCEPT ![w] = x]
  BY <1>1, <1>5, <1>7 DEF Record, Next1
<1>10. \A v \in Workers \ {w} : worker[v] # Idle => worker[v].file # f
  BY <1>1, <1>2 DEF WInv
<1>11. PICK r : r = [picture |-> p, reading |-> reading]
  OBVIOUS
<1>12. reading \in Answers
  <2>1. Phase(f) \in 1..2 /\ reading \in Readings[Phase(f)][p]
    BY <1>1 DEF Record, Phase
  <2>. QED BY <1>6, <2>1 DEF Answers
<1>13. /\ out'[f].recs \in {out[f].recs, out[f].recs \cup {r}}
       /\ out'[f].torn \in {out[f].torn, FALSE}
       /\ \A g \in Names \ {f} : out'[g] = out[g]
  <2>1. DOMAIN out = Names /\ DOMAIN out[f] = {"recs", "torn"}
    BY <1>3 DEF FilesHeard, Empty
  <2>2. \/ out' = [out EXCEPT ![f].torn = FALSE]
        \/ out' = [out EXCEPT ![f].recs = @ \cup {r}]
    BY <1>1, <1>11 DEF Record
  <2>. QED BY <1>3, <2>1, <2>2
<1>14. FileOnce(f) /\ p \notin Recorded(f)
  BY <1>3, <1>4, <1>6 DEF DInv
<1>15. FileOnce(f)'
  <2>1. \A q \in out[f].recs : q.picture # r.picture
    BY <1>11, <1>14 DEF Recorded
  <2>2. PICK recs : recs = out'[f].recs
    OBVIOUS
  <2>3. OneEach(recs)
    BY <1>13, <1>14, <2>1, <2>2 DEF FileOnce, OneEach
  <2>4. Reads(recs)
    BY <1>6, <1>11, <1>12, <1>13, <1>14, <2>2 DEF FileOnce, Reads
  <2>5. Reads(recs)'
    BY <2>4 DEF Reads, Answers
  <2>6. out'[f].torn \in BOOLEAN
    BY <1>13, <1>14 DEF FileOnce
  <2>. QED BY <2>2, <2>3, <2>5, <2>6 DEF FileOnce, OneEach, Reads
<1>16. \A q \in ToSet(rest) : q \notin Recorded(f)'
  <2>1. Recorded(f)' \subseteq Recorded(f) \cup {p}
    BY <1>11, <1>13 DEF Recorded
  <2>. QED BY <1>4, <1>6, <2>1
<1>17. UNCHANGED <<final, coverage, stage, callouts>>
  BY DEF Record
<1>. QED BY <1>3, <1>6, <1>8, <1>9, <1>10, <1>13, <1>15, <1>16, <1>17, OneAhead

LEMMA KillOnce ==
  ASSUME DInv, WInv, FilesHeard, NEW w \in Workers, KillWorker(w)
  PROVE  DInv'
<1>1. PICK f : f = worker[w].file
  OBVIOUS
<1>2. worker[w] # Idle /\ f \in Names /\ worker' = [worker EXCEPT ![w] = Idle]
  BY <1>1 DEF KillWorker, WInv, Works
<1>3. /\ out'[f].recs = out[f].recs /\ out'[f].torn \in {out[f].torn, TRUE}
      /\ \A g \in Names \ {f} : out'[g] = out[g]
  <2>1. DOMAIN out = Names /\ DOMAIN out[f] = {"recs", "torn"}
    BY <1>2 DEF FilesHeard, Empty
  <2>2. out' = out \/ out' = [out EXCEPT ![f].torn = TRUE]
    BY <1>1 DEF KillWorker
  <2>. QED BY <1>2, <2>1, <2>2
<1>4. FileOnce(f)'
  <2>1. FileOnce(f)
    BY <1>2 DEF DInv
  <2>2. PICK recs : recs = out[f].recs /\ out'[f].recs = recs
    BY <1>3
  <2>3. OneEach(recs) /\ Reads(recs)
    BY <2>1, <2>2 DEF FileOnce
  <2>4. Reads(recs)'
    BY <2>3 DEF Reads, Answers
  <2>5. out'[f].torn \in BOOLEAN
    BY <1>3, <2>1 DEF FileOnce
  <2>. QED BY <2>2, <2>3, <2>4, <2>5 DEF FileOnce, OneEach, Reads
<1>5. \A v \in Workers \ {w} : worker[v] # Idle => worker[v].file # f
  BY <1>1, <1>2 DEF WInv
<1>. QED BY <1>2, <1>3, <1>4, <1>5, OneAhead DEF KillWorker

(* Stages.  A step of one leaves the workers and their files alone. *)
LEMMA StageAhead ==
  ASSUME DInv, UNCHANGED <<out, worker>>, StageOnce', OutputsOnce'
  PROVE  DInv'
<1>1. \A f \in Names : FileOnce(f)'
  BY DEF DInv, FileOnce, OneEach, Reads, Answers
<1>2. \A w \in Workers : Ahead(w)'
  BY DEF DInv, Ahead, Recorded
<1>. QED BY <1>1, <1>2 DEF DInv

(* The record of the last file that has one. *)
LEMMA MergedOnce == ASSUME DInv PROVE OneEach(Merged) /\ Reads(Merged)
<1>1. ASSUME NEW r \in Merged
      PROVE  \E f \in Phase1Files : r \in out[f].recs
               /\ \A g \in Phase1Files : g > f => r.picture \notin Recorded(g)
  BY DEF Merged
<1>2. ASSUME NEW r \in Merged, NEW s \in Merged, r.picture = s.picture PROVE r = s
  <2>1. PICK f \in Phase1Files : r \in out[f].recs
               /\ \A g \in Phase1Files : g > f => r.picture \notin Recorded(g)
    BY <1>1
  <2>2. PICK g \in Phase1Files : s \in out[g].recs
               /\ \A h \in Phase1Files : h > g => s.picture \notin Recorded(h)
    BY <1>1
  <2>3. r.picture \in Recorded(f) /\ s.picture \in Recorded(g)
    BY <2>1, <2>2 DEF Recorded
  <2>4. f \in Nat /\ g \in Nat
    BY DEF Phase1Files, Slices
  <2>5. ~(f < g) /\ ~(g < f)
    BY <1>2, <2>1, <2>2, <2>3, <2>4
  <2>6. f = g /\ f \in Names
    BY <2>4, <2>5 DEF Phase1Files
  <2>. QED BY <1>2, <2>1, <2>2, <2>6 DEF DInv, FileOnce, OneEach
<1>3. Reads(Merged)
  BY <1>1 DEF Reads, DInv, FileOnce, Phase1Files
<1>. QED BY <1>2, <1>3 DEF OneEach

LEMMA LoadOnce == ASSUME DInv, LoadPhase1 \/ LoadFinal \/ LoadGraded PROVE DInv'
<1>1. PICK step, rows :
        /\ stage' = [step |-> step, rows |-> rows]
        /\ \/ step = "phase3" /\ rows = Merged
           \/ step \in {"phase4", "integrate"} /\ rows \in {final.rows, coverage.rows}
        /\ UNCHANGED <<files, worker, callouts>>
  <2>1. CASE LoadPhase1
    BY <2>1 DEF LoadPhase1, Begin
  <2>2. CASE LoadFinal
    BY <2>2 DEF LoadFinal, Begin
  <2>3. CASE LoadGraded
    BY <2>3 DEF LoadGraded, Begin
  <2>. QED BY <2>1, <2>2, <2>3
<1>2. UNCHANGED <<out, final, coverage>>
  BY <1>1 DEF files
<1>3. /\ OneEach(rows) /\ (step = "phase3" => Reads(rows))
      /\ step \in {"phase4", "integrate"} => rows \subseteq GradedRows
  BY <1>1, MergedOnce DEF DInv, OutputsOnce
<1>4. StageOnce'
  BY <1>1, <1>3 DEF StageOnce
<1>5. OutputsOnce'
  BY <1>1, <1>2 DEF DInv, OutputsOnce
<1>. QED BY <1>1, <1>2, <1>4, <1>5, StageAhead

LEMMA VerifiedRow ==
  ASSUME DInv, NEW r, r.picture \in Pictures, r.reading \in Answers
  PROVE  Verified(r).picture = r.picture /\ Verified(r) \in GradedRows
<1>. DEFINE again == {q \in out[Refined].recs : q.picture = r.picture /\ q.reading # None}
            row(reading, tier) == [picture |-> r.picture, reading |-> reading, tier |-> tier]
<1>1. \A tier \in {"dead", "low", "medium", "high"}, reading \in Answers :
        row(reading, tier) \in GradedRows
  BY DEF GradedRows, Rows, Answers, Ranks
<1>2. CASE r.reading # None
  <2>1. Verified(r) = row(r.reading, Confidence(1, r.reading))
    BY <1>2 DEF Verified
  <2>. QED BY <1>1, <2>1, ConfidenceType
<1>3. CASE r.reading = None /\ again # {}
  <2>1. PICK q \in again : Verified(r) = row(q.reading, Confidence(2, q.reading))
    BY <1>3 DEF Verified
  <2>2. q.reading \in Answers
    BY <2>1 DEF DInv, FileOnce, Reads, Names
  <2>. QED BY <1>1, <2>1, <2>2, ConfidenceType
<1>4. CASE r.reading = None /\ again = {}
  <2>1. Verified(r) = row(None, "dead")
    BY <1>4 DEF Verified
  <2>. QED BY <1>1, <2>1 DEF Answers
<1>. QED BY <1>2, <1>3, <1>4

LEMMA CoveredRow ==
  ASSUME NEW r \in GradedRows, NEW parts, NEW q, q = [r EXCEPT !.tier = Adjusted(r, parts)]
  PROVE  q.picture = r.picture /\ q \in GradedRows
<1>1. Adjusted(r, parts) \in {r.tier, "low", "medium"}
  BY DEF Adjusted
<1>. QED BY <1>1 DEF GradedRows, Rows, Ranks

(* A row for each row, for the same picture: in a file that is written,    *)
(* or of which a part is.                                                  *)
LEMMA VerifiedOnce ==
  ASSUME DInv, stage.step = "phase3", NEW rows, rows \subseteq {Verified(r) : r \in stage.rows}
  PROVE  OneEach(rows) /\ rows \subseteq GradedRows
<1>1. \A r \in stage.rows : r.picture \in Pictures /\ r.reading \in Answers
  BY DEF DInv, StageOnce, Reads
<1>2. \A r \in stage.rows : Verified(r).picture = r.picture /\ Verified(r) \in GradedRows
  BY <1>1, VerifiedRow
<1>3. OneEach(stage.rows)
  BY DEF DInv, StageOnce
<1>. QED BY <1>2, <1>3 DEF OneEach

LEMMA CoveredOnce ==
  ASSUME DInv, stage.step = "phase4", NEW rows,
         rows \subseteq {[r EXCEPT !.tier = Adjusted(r, PartsOf(r.picture))] : r \in stage.rows}
  PROVE  OneEach(rows) /\ rows \subseteq GradedRows
<1>1. stage.rows \subseteq GradedRows /\ OneEach(stage.rows)
  BY DEF DInv, StageOnce
<1>2. ASSUME NEW q \in rows
      PROVE  q \in GradedRows /\ \E r \in stage.rows : q.picture = r.picture
               /\ q = [r EXCEPT !.tier = Adjusted(r, PartsOf(r.picture))]
  <2>1. PICK r \in stage.rows : q = [r EXCEPT !.tier = Adjusted(r, PartsOf(r.picture))]
    BY <1>2
  <2>2. PICK parts : parts = PartsOf(r.picture)
    OBVIOUS
  <2>3. q.picture = r.picture /\ q \in GradedRows
    BY <1>1, <2>1, <2>2, CoveredRow
  <2>. QED BY <2>1, <2>3
<1>. QED BY <1>1, <1>2 DEF OneEach

LEMMA CutRows ==
  ASSUME NEW rows, NEW cut \in Cut(rows)
  PROVE  cut.rows \subseteq rows
BY DEF Cut, Written

(* The upsert replaces the row of a picture. *)
LEMMA UpsertOnce ==
  ASSUME DInv, Integrate
  PROVE  OneEach(callouts') /\ callouts' \subseteq Rows(DOMAIN Ranks \ {"dead"})
<1>. DEFINE row(r) == [picture |-> r.picture,
                       reading |-> IF r.reading # None /\ r.reading.list THEN r.reading ELSE None,
                       tier |-> IF r.tier = "dead" THEN "low" ELSE r.tier]
            kept == {c \in callouts : \A r \in stage.rows : r.picture # c.picture}
<1>1. callouts' = kept \cup {row(r) : r \in stage.rows} /\ stage.step = "integrate"
  BY DEF Integrate
<1>2. stage.rows \subseteq GradedRows /\ OneEach(stage.rows) /\ OneEach(callouts)
      /\ callouts \subseteq Rows(DOMAIN Ranks \ {"dead"})
  BY <1>1 DEF DInv, StageOnce, OutputsOnce
<1>3. ASSUME NEW r \in stage.rows
      PROVE  row(r).picture = r.picture /\ row(r) \in Rows(DOMAIN Ranks \ {"dead"})
  <2>1. r.picture \in Pictures /\ r.tier \in DOMAIN Ranks /\ r.reading \in Answers
    BY <1>2 DEF GradedRows, Rows, Answers
  <2>2. \A tier \in DOMAIN Ranks \ {"dead"}, reading \in Answers :
          [picture |-> r.picture, reading |-> reading, tier |-> tier]
            \in Rows(DOMAIN Ranks \ {"dead"})
    BY <2>1 DEF Rows, Answers
  <2>3. None \in Answers /\ "low" \in DOMAIN Ranks \ {"dead"}
    BY DEF Answers, Ranks
  <2>4. PICK tier \in DOMAIN Ranks \ {"dead"} : tier = IF r.tier = "dead" THEN "low" ELSE r.tier
    BY <2>1, <2>3
  <2>5. PICK reading \in Answers :
          reading = IF r.reading # None /\ r.reading.list THEN r.reading ELSE None
    BY <2>1, <2>3
  <2>. QED BY <2>2, <2>4, <2>5
<1>. HIDE DEF row
<1>4. \A c \in callouts' : c \in kept \/ \E r \in stage.rows : c = row(r)
  BY <1>1
<1>5. \A c \in kept : c \in callouts /\ \A r \in stage.rows : row(r).picture # c.picture
  BY <1>3
<1>6. ASSUME NEW c \in callouts', NEW d \in callouts', c.picture = d.picture PROVE c = d
  <2>1. CASE c \in kept
    BY <1>2, <1>4, <1>5, <1>6, <2>1 DEF OneEach
  <2>2. CASE c \notin kept
    <3>1. PICK r \in stage.rows : c = row(r)
      BY <1>4, <2>2
    <3>2. d \notin kept
      BY <1>5, <1>6, <3>1
    <3>3. PICK s \in stage.rows : d = row(s)
      BY <1>4, <3>2
    <3>. QED BY <1>2, <1>3, <1>6, <3>1, <3>3 DEF OneEach
  <2>. QED BY <2>1, <2>2
<1>7. ASSUME NEW c \in callouts' PROVE c \in Rows(DOMAIN Ranks \ {"dead"})
  <2>1. CASE c \in kept
    BY <1>2, <1>5, <2>1
  <2>2. CASE c \notin kept
    <3>1. PICK r \in stage.rows : c = row(r)
      BY <1>4, <1>7, <2>2
    <3>. QED BY <1>3, <3>1
  <2>. QED BY <2>1, <2>2
<1>. QED BY <1>6, <1>7 DEF OneEach

(* What ends a stage, or kills it: one of the outputs is written. *)
LEMMA EndOnce == ASSUME DInv, Phase3 \/ Phase4 \/ Integrate \/ KillStage PROVE DInv'
<1>1. UNCHANGED <<out, worker>> /\ stage' = NoStage
  BY DEF Phase3, Phase4, Integrate, KillStage, Ends, files
<1>2. StageOnce'
  BY <1>1 DEF StageOnce, OneEach, NoStage
<1>3. /\ OneEach(final'.rows) /\ final'.rows \subseteq GradedRows
      /\ OneEach(coverage'.rows) /\ coverage'.rows \subseteq GradedRows
      /\ OneEach(callouts') /\ callouts' \subseteq Rows(DOMAIN Ranks \ {"dead"})
  <2>1. /\ OneEach(final.rows) /\ final.rows \subseteq GradedRows
        /\ OneEach(coverage.rows) /\ coverage.rows \subseteq GradedRows
        /\ OneEach(callouts) /\ callouts \subseteq Rows(DOMAIN Ranks \ {"dead"})
    BY DEF DInv, OutputsOnce
  <2>2. CASE final' = final
    <3>1. CASE coverage' = coverage
      <4>1. callouts' = callouts \/ Integrate
        BY DEF Phase3, Phase4, KillStage
      <4>. QED BY <2>1, <2>2, <3>1, <4>1, UpsertOnce
    <3>2. CASE coverage' # coverage
      <4>1. /\ stage.step = "phase4" /\ callouts' = callouts
            /\ coverage'.rows \subseteq
                 {[r EXCEPT !.tier = Adjusted(r, PartsOf(r.picture))] : r \in stage.rows}
        <5>1. CASE Phase4
          BY <5>1 DEF Phase4, Written
        <5>2. CASE KillStage
          BY <3>2, <5>2, CutRows DEF KillStage
        <5>. QED BY <3>2, <5>1, <5>2 DEF Phase3, Integrate, files
      <4>. QED BY <2>1, <2>2, <4>1, CoveredOnce
    <3>. QED BY <3>1, <3>2
  <2>3. CASE final' # final
    <3>1. /\ stage.step = "phase3" /\ callouts' = callouts /\ coverage' = coverage
          /\ final'.rows \subseteq {Verified(r) : r \in stage.rows}
      <4>1. CASE Phase3
        BY <4>1 DEF Phase3, Written
      <4>2. CASE KillStage
        BY <2>3, <4>2, CutRows DEF KillStage
      <4>. QED BY <2>3, <4>1, <4>2 DEF Phase4, Integrate, files
    <3>. QED BY <2>1, <3>1, VerifiedOnce
  <2>. QED BY <2>2, <2>3
<1>4. OutputsOnce'
  BY <1>3 DEF OutputsOnce, OneEach, GradedRows, Rows
<1>. QED BY <1>1, <1>2, <1>4, StageAhead

LEMMA DInit == Init => DInv
<1>. SUFFICES ASSUME Init PROVE DInv
  OBVIOUS
<1>1. \A f \in Names : FileOnce(f)
  BY DEF Init, FileOnce, Empty, OneEach, Reads
<1>2. (\A w \in Workers : Ahead(w)) /\ StageOnce /\ OutputsOnce
  BY DEF Init, Ahead, StageOnce, NoStage, OutputsOnce, OneEach, Unwritten
<1>. QED BY <1>1, <1>2 DEF DInv

LEMMA DNext == BInv /\ WInv /\ DInv /\ [Next]_vars => DInv'
<1>. SUFFICES ASSUME BInv, WInv, DInv, [Next]_vars PROVE DInv'
  OBVIOUS
<1>1. FilesHeard
  BY DEF BInv
<1>2. ASSUME NEW w \in Workers, WorkerStep(w) PROVE DInv'
  BY <1>1, <1>2, BatchOnce, Phase2Once, RecordOnce, KillOnce DEF WorkerStep
<1>3. CASE StageStep
  BY <1>3, LoadOnce, EndOnce DEF StageStep
<1>4. CASE UNCHANGED vars
  <2>1. UNCHANGED <<out, worker, final, coverage, stage, callouts>>
    BY <1>4 DEF vars, files
  <2>2. StageOnce' /\ OutputsOnce'
    BY <2>1 DEF DInv, StageOnce, OutputsOnce, OneEach, Reads, Answers, GradedRows, Rows
  <2>. QED BY <2>1, <2>2, StageAhead
<1>. QED BY <1>2, <1>3, <1>4 DEF Next

(* A file has one record of a picture, whoever has written it and with     *)
(* whatever --resume (batch_vision_ocr.py:97-98), and each output of the   *)
(* stages one row of it (phase3_verify.py:101, integrate_into_track_a.py:  *)
(* 163).                                                                   *)
THEOREM PicturesOnce == Spec => []OneOfEach
<1>1. DInv => OneOfEach
  <2>. SUFFICES ASSUME DInv PROVE OneOfEach
    OBVIOUS
  <2>1. \A f \in Names : \A r, s \in out[f].recs : r.picture = s.picture => r = s
    BY DEF DInv, FileOnce, OneEach
  <2>2. \A rows \in {final.rows, coverage.rows, callouts} :
          \A r, s \in rows : r.picture = s.picture => r = s
    BY DEF DInv, OutputsOnce, OneEach
  <2>. QED BY <2>1, <2>2 DEF OneOfEach
<1>. QED BY BInit, BNext, WInit, WNext, DInit, DNext, <1>1, PTL DEF Spec

(* The types of the batch: what the files, the workers and the outputs of  *)
(* the stages hold.                                                        *)
THEOREM BatchTypeCorrect == Spec => []TypeOK
<1>1. WInv /\ DInv => TypeOK
  <2>. SUFFICES ASSUME WInv, DInv PROVE TypeOK
    OBVIOUS
  <2>1. \A f \in Names : /\ out[f].torn \in BOOLEAN
                         /\ \A r \in out[f].recs : r.picture \in Pictures
    BY DEF DInv, FileOnce, Reads
  <2>2. \A w \in Workers : \/ worker[w] = Idle
                           \/ worker[w].file \in Names /\ worker[w].todo # << >>
    <3>1. ASSUME NEW w \in Workers, worker[w] # Idle
          PROVE  worker[w].file \in Names /\ worker[w].todo # << >>
      <4>1. Works(w)
        BY <3>1 DEF WInv
      <4>. QED BY <4>1 DEF Works
    <3>. QED BY <3>1
  <2>3. /\ final.rows \cup coverage.rows \subseteq Rows(DOMAIN Ranks)
        /\ callouts \subseteq Rows(DOMAIN Ranks \ {"dead"})
    BY DEF DInv, OutputsOnce, GradedRows
  <2>. QED BY <2>1, <2>2, <2>3 DEF TypeOK
<1>. QED BY BInit, BNext, WInit, WNext, DInit, DNext, <1>1, PTL DEF Spec

=============================================================================
