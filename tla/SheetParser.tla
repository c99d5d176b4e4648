----------------------------- MODULE SheetParser -----------------------------
(***************************************************************************)
(* One workbook read by both tracks, as scripts/parity_check.py compares   *)
(* them.                                                                   *)
(*                                                                         *)
(* Track B (track-b-data-engineering/parser) reads the sheets in order,    *)
(* each into sections and each section's rows into products; write_csv     *)
(* keeps one product per part number.  Track A (track-a-jd-native/src/     *)
(* ingest) reads each sheet in a job of its own and upserts row by row, so *)
(* the rows of different sheets reach the products table in any order.     *)
(* One step is one turn of the innermost loop: one row of one section.     *)
(*                                                                         *)
(* What the tracks make of a cell is stated for each of them, from its own *)
(* files.  Over the texts they made, their section detectors and fitment   *)
(* resolvers are the same line by line, and are stated once.               *)
(*                                                                         *)
(* A cell is None or has a kind: a plain text, a number, a rich text, a    *)
(* formula (of which the workbook holds the result) or an error value.     *)
(* Its text is what str() makes of it; a number also has its whole-number  *)
(* text when it is one (1.0 is shown as 1).  A sheet's name is what the    *)
(* resolver's regular expressions find in it.  EN name stands for all the  *)
(* columns that are copied, and a callout for its raw text, the only field *)
(* of it that is read.                                                     *)
(***************************************************************************)
EXTENDS Integers, Sequences, FiniteSets, SequencesExt, Values

CONSTANTS
  Workbooks,        \* workbooks to read: sequences of sheets [name, rows]
  PartOrCallout,    \* texts that look like a part number or a callout
  Upper(_),         \* a text in upper case
  Trimmed(_),       \* a text without the white space around it
  Squeezed(_)       \* a text without its white space

(* A workbook has a sheet, a sheet has rows, a row has cells; a number is  *)
(* not shown empty.                                                        *)
ASSUME ParserAssumption ==
  /\ \A b \in Workbooks :
       /\ b \in Seq(ToSet(b)) /\ Len(b) > 0
       /\ \A n \in DOMAIN b :
            /\ b[n].rows \in Seq(ToSet(b[n].rows))
            /\ \A r \in DOMAIN b[n].rows : b[n].rows[r] \in Seq(ToSet(b[n].rows[r]))
       /\ \A n \in DOMAIN b : \A r \in DOMAIN b[n].rows : \A c \in DOMAIN b[n].rows[r] :
            LET cell == b[n].rows[r][c]
            IN  cell # None /\ cell.whole # None => cell.whole # "" /\ Trimmed(cell.text) # ""
  /\ "" \notin PartOrCallout

VARIABLES
  workbook,
  position,     \* the row parse_xlsx has come to, as <<sheet, header, row>>
  products,     \* its result, in order
  csv,          \* Track B's file: part number -> product; None before
  reached,      \* sheet -> the row its Track A job has come to
  catalogue     \* Track A's products table: part_number_norm -> product

parityVars == <<workbook, position, products, csv, reached, catalogue>>

-----------------------------------------------------------------------------
(* Cells and header signatures.                                            *)

(* The kinds exceljs returns as objects; openpyxl makes texts of them. *)
Objects == {"rich", "formula", "error"}

NonEmpty(text) == IF text = "" THEN None ELSE text

(* cellToString: an error is nothing, and a result is not trimmed. *)
CellToStringA(c) ==
  IF c = None \/ c.kind = "error" THEN None
  ELSE OrElse(c.whole, IF c.kind = "formula" THEN c.text ELSE NonEmpty(Trimmed(c.text)))

(* cell_to_string *)
CellToStringB(c) == IF c = None THEN None
                    ELSE OrElse(c.whole, NonEmpty(Trimmed(c.text)))

(* String(v).trim() and str(v).strip(), nothing for null. *)
StringA(c) == IF c = None THEN ""
              ELSE IF c.kind \in Objects THEN "[object Object]"
              ELSE OrElse(c.whole, Trimmed(c.text))
StringB(c) == IF c = None THEN "" ELSE Trimmed(c.text)

(* Mutant: a callout stored as a number stays "1.0". *)
ParseCalloutFloat(c) == NonEmpty(StringB(c))

(* parseCallout, parse_callout: of the callout only the raw text is kept. *)
ParseCalloutA(c) == NonEmpty(StringA(c))
ParseCalloutB(c) == IF StringB(c) = "" THEN None ELSE OrElse(c.whole, StringB(c))

(* The cells of a sheet as a track shows them, and as texts. *)
Shown(track, n) ==
  [r \in DOMAIN workbook[n].rows |-> [c \in DOMAIN workbook[n].rows[r] |->
     IF track = "a" THEN CellToStringA(workbook[n].rows[r][c])
                    ELSE CellToStringB(workbook[n].rows[r][c])]]
Texts(track, n) ==
  [r \in DOMAIN workbook[n].rows |-> [c \in DOMAIN workbook[n].rows[r] |->
     IF track = "a" THEN StringA(workbook[n].rows[r][c])
                    ELSE StringB(workbook[n].rows[r][c])]]

(* SIGNATURES, in the order they are tried. *)
Signatures == <<
  [kind |-> "chassis", partNumber |-> "Part Number",
   required |-> {"No.", "Part Number", "EN name", "CN name"},
   optional |-> {"Specifications in CN", "Qty/vehicle", "Dealer", "QTY", "Retail"}],
  [kind |-> "engine", partNumber |-> "NEW PART NUMBER",
   required |-> {"OLD PART NUMBER", "NEW PART NUMBER", "EN name", "CN name"},
   optional |-> {"No.", "Qty/vehicle", "Dealer", "QTY", "Retail"}],
  [kind |-> "chassis_u8", partNumber |-> "U8 Code",
   required |-> {"No.", "U8 Code", "EN name", "CN name"},
   optional |-> {"Model", "Specifications in CN", "Qty/vehicle", "Dealer", "QTY",
                 "Retail"}] >>

Least(S)    == CHOOSE x \in S : \A y \in S : x <= y
Greatest(S) == CHOOSE x \in S : \A y \in S : x >= y

Labelled(row, label) == {i \in DOMAIN row : row[i] = label}

Matching(row) ==
  {k \in DOMAIN Signatures :
     \A label \in Signatures[k].required : Labelled(row, label) # {}}

(* match_header; the column of a label is the first that shows it.         *)
IsHeader(row) == Matching(row) # {}
MatchHeader(row) ==
  LET sig == Signatures[Least(Matching(row))] IN
  [signature |-> sig,
   columns |-> [label \in {l \in sig.required \cup sig.optional :
                             Labelled(row, l) # {}} |->
                  Least(Labelled(row, label))]]

-----------------------------------------------------------------------------
(* Sections, of a sheet as shown (rows) and as texts.                      *)

Filled(texts) == {i \in DOMAIN texts : texts[i] # ""}
First(texts)  == texts[Least(Filled(texts))]

MaxLookback         == 4
TitleMaxFilledCells == 3

MayBeTitle(texts) ==
  /\ Cardinality(Filled(texts)) \in 1 .. TitleMaxFilledCells
  /\ First(texts) \notin PartOrCallout

(* Mutant: another header on the way up is passed over. *)
TitlePastHeaders(rows, texts, h) ==
  LET window == {r \in h - MaxLookback .. h - 1 : r > 0 /\ ~IsHeader(rows[r])}
      titles == {r \in window : MayBeTitle(texts[r])}
  IN  IF titles = {} THEN None ELSE First(texts[Greatest(titles)])

(* findTitleAbove, _find_title_above *)
FindTitleAbove(rows, texts, h) ==
  LET titles == {r \in h - MaxLookback .. h - 1 :
                   /\ r > 0 /\ MayBeTitle(texts[r])
                   /\ \A q \in r .. h - 1 : ~IsHeader(rows[q])}
  IN  IF titles = {} THEN None ELSE First(texts[Greatest(titles)])

HeaderRows(rows) == {r \in DOMAIN rows : IsHeader(rows[r])}

(* Mutant: the next header is the last row of a section. *)
DataEndAtHeader(rows, h) ==
  LET below == {g \in HeaderRows(rows) : g > h}
  IN  IF below = {} THEN Len(rows) ELSE Least(below)

(* A section ends above the next header, or with the sheet. *)
DataEnd(rows, h) ==
  LET below == {g \in HeaderRows(rows) : g > h}
  IN  IF below = {} THEN Len(rows) ELSE Least(below) - 1

(* detectSections, detect_sections: the section below each header. *)
DetectSections(rows, texts) ==
  [h \in HeaderRows(rows) |->
     [match |-> MatchHeader(rows[h]), title |-> FindTitleAbove(rows, texts, h),
      first |-> h + 1, last |-> DataEnd(rows, h)]]

-----------------------------------------------------------------------------
(* Rows.                                                                   *)

(* get(col), of a row as shown or of its cells: the row may be shorter     *)
(* than its header.                                                        *)
Get(row, match, label) ==
  IF label \in DOMAIN match.columns /\ match.columns[label] <= Len(row)
  THEN row[match.columns[label]] ELSE None

(* An empty result of a formula keeps Track A from the old number.         *)
PartNumberOf(row, match) ==
  LET own == Get(row, match, match.signature.partNumber)
  IN  IF own = None /\ match.signature.kind = "engine"
      THEN Get(row, match, "OLD PART NUMBER") ELSE own

(* The columns that are copied. *)
NameOf(row, match) == Get(row, match, "EN name")

(* _looks_like_header_label *)
IsLabelOf(part, signature) ==
  \E label \in signature.required \cup signature.optional :
     Upper(part) = Upper(label)

(* normalise_row rejects a row without a part number or with a label for   *)
(* one; row-normalizer.ts only the former.                                 *)
Accepted(row, match) ==
  LET part == PartNumberOf(row, match)
  IN  part \notin {None, ""} /\ ~IsLabelOf(part, match.signature)
AcceptedByTrackA(row, match) == PartNumberOf(row, match) \notin {None, ""}

(* resolve_fitment_from_sheet_name: the first form of year that occurs.    *)
Resolve(name) ==
  LET year == IF name.range # None THEN name.range[1]
              ELSE IF name.openEnd # None THEN name.openEnd
              ELSE IF name.single # None THEN name.single
              ELSE name.prefix
  IN  IF name.reserved \/ (year = None /\ name.model = None) THEN None
      ELSE [year |-> year, model |-> name.model, variant |-> name.variant]

Entry(name, title, callout, model, confidence) ==
  [year |-> OrElse(Resolve(name).year, 0), model |-> model,
   code |-> Resolve(name).model, variant |-> Resolve(name).variant,
   section |-> title, callout |-> callout, confidence |-> confidence]

(* _to_product, with the row it was read from. *)
ToProduct(name, row, cells, section, at) ==
  LET fit == Resolve(name) IN
  [part |-> PartNumberOf(row, section.match), at |-> at,
   name |-> NameOf(row, section.match),
   fitment |-> IF fit = None THEN << >> ELSE
     << Entry(name, section.title, ParseCalloutB(Get(cells, section.match, "No.")), fit.model,
              IF fit.model # None THEN "high" ELSE "medium") >>]

(* The values of Track A's upsert: buildFitmentEntry names no model UNKNOWN. *)
ToUpsert(name, row, cells, section, at) ==
  LET fit == Resolve(name) IN
  [part |-> PartNumberOf(row, section.match), at |-> at,
   name |-> NameOf(row, section.match),
   fitment |-> IF fit = None THEN << >> ELSE
     << Entry(name, section.title, ParseCalloutA(Get(cells, section.match, "No.")),
              OrElse(fit.model, "UNKNOWN"),
              IF fit.model # None THEN "high" ELSE "low") >>]

-----------------------------------------------------------------------------
(* The two ingests: loops over sections, and over the rows of a section.   *)

Sections(track, n) == DetectSections(Shown(track, n), Texts(track, n))

DataRows(track, n) ==
  UNION {{<<n, h, r>> : r \in Sections(track, n)[h].first .. Sections(track, n)[h].last} :
         h \in DOMAIN Sections(track, n)}

(* Loops are nested, hence what comes first in the outer one comes first. *)
Before(c, d) == \/ c[1] < d[1]
                \/ c[1] = d[1] /\ (c[2] < d[2] \/ (c[2] = d[2] /\ c[3] < d[3]))
Earliest(S)  == CHOOSE d \in S : \A e \in S : e = d \/ Before(d, e)
Start        == <<0, 0, 0>>

Unparsed   == {d \in UNION {DataRows("b", n) : n \in DOMAIN workbook} : Before(position, d)}
Waiting(n) == {d \in DataRows("a", n) : Before(reached[n], d)}

CellsAt(d)          == workbook[d[1]].rows[d[3]]
RowAt(track, d)     == Shown(track, d[1])[d[3]]
SectionAt(track, d) == Sections(track, d[1])[d[2]]
ProductAt(d) == ToProduct(workbook[d[1]].name, RowAt("b", d), CellsAt(d),
                          SectionAt("b", d), <<d[1], d[3]>>)
UpsertAt(d)  == ToUpsert(workbook[d[1]].name, RowAt("a", d), CellsAt(d),
                         SectionAt("a", d), <<d[1], d[3]>>)

ParityInit ==
  /\ workbook \in Workbooks
  /\ position = Start /\ products = << >> /\ csv = None
  /\ reached = [n \in DOMAIN workbook |-> Start]
  /\ catalogue = << >>

(* Mutant: a sheet without fitment is passed over. *)
ParseRowIfFits ==
  /\ Unparsed # {}
  /\ position' = Earliest(Unparsed)
  /\ products' = IF /\ Accepted(RowAt("b", position'), SectionAt("b", position').match)
                    /\ Resolve(workbook[position'[1]].name) # None
                 THEN Append(products, ProductAt(position')) ELSE products
  /\ UNCHANGED <<workbook, csv, reached, catalogue>>

(* A row of parse_xlsx: a sheet without fitment is read, too. *)
ParseRow ==
  /\ Unparsed # {}
  /\ position' = Earliest(Unparsed)
  /\ products' = IF Accepted(RowAt("b", position'), SectionAt("b", position').match)
                 THEN Append(products, ProductAt(position')) ELSE products
  /\ UNCHANGED <<workbook, csv, reached, catalogue>>

(* deduped[p.part_number] = p *)
LastPerPart(ps) ==
  [p \in {ps[i].part : i \in DOMAIN ps} |->
     ps[Greatest({i \in DOMAIN ps : ps[i].part = p})]]

(* write_csv, after the last sheet *)
WriteCsv ==
  /\ Unparsed = {} /\ csv = None
  /\ csv' = LastPerPart(products)
  /\ UNCHANGED <<workbook, position, products, reached, catalogue>>

(* The generated column part_number_norm. *)
Norm(part) == Upper(Squeezed(part))

(* upsertProduct: a conflict keeps the first spelling of the part number   *)
(* and a name the new row does not have.                                   *)
Upsert(v) ==
  LET k   == Norm(v.part)
      new == IF k \notin DOMAIN catalogue THEN v
             ELSE [v EXCEPT !.part = catalogue[k].part,
                            !.name = OrElse(v.name, catalogue[k].name)]
  IN  catalogue' = [c \in DOMAIN catalogue \cup {k} |-> IF c = k THEN new ELSE catalogue[c]]

(* The next row of a sheet's job; the jobs of all sheets run at once. *)
IngestRow(n) ==
  /\ Waiting(n) # {}
  /\ reached' = [reached EXCEPT ![n] = Earliest(Waiting(n))]
  /\ LET d == reached'[n] IN
     IF AcceptedByTrackA(RowAt("a", d), SectionAt("a", d).match)
     THEN Upsert(UpsertAt(d)) ELSE UNCHANGED catalogue
  /\ UNCHANGED <<workbook, position, products, csv>>

ParityNext == ParseRow \/ WriteCsv \/ \E n \in DOMAIN workbook : IngestRow(n)

ParitySpec == ParityInit /\ [][ParityNext]_parityVars

-----------------------------------------------------------------------------
(* The comparison.                                                         *)

(* Track A's reference file. *)
Reference == [p \in {catalogue[k].part : k \in DOMAIN catalogue} |-> catalogue[Norm(p)]]

(* diff_summary: an entry that one side lacks is not compared. *)
Differ(field, f, g) ==
  {p \in DOMAIN f \cap DOMAIN g :
     /\ f[p].fitment # << >> /\ g[p].fitment # << >>
     /\ f[p].fitment[1][field] # g[p].fitment[1][field]}

DiffSummary ==
  [onlyA |-> DOMAIN Reference \ DOMAIN csv, onlyB |-> DOMAIN csv \ DOMAIN Reference,
   names |-> {p \in DOMAIN csv \cap DOMAIN Reference : csv[p].name # Reference[p].name},
   models |-> Differ("code", csv, Reference), years |-> Differ("year", csv, Reference)]

-----------------------------------------------------------------------------
(* What is to hold.                                                        *)

Finished == csv # None /\ \A n \in DOMAIN workbook : Waiting(n) = {}

(* Where parts stand in the workbook, said without sections: a row belongs *)
(* to the nearest header above it.                                         *)
Above(rows, r) == {h \in 1 .. r - 1 : IsHeader(rows[h])}
Under(rows, r) == MatchHeader(rows[Greatest(Above(rows, r))])
PartAt(track, a) == PartNumberOf(Shown(track, a[1])[a[2]], Under(Shown(track, a[1]), a[2]))

(* The rows with a part number, and those of them that Track B accepts. *)
HasNumber(rows, r) == /\ ~IsHeader(rows[r]) /\ Above(rows, r) # {}
                      /\ PartNumberOf(rows[r], Under(rows, r)) \notin {None, ""}
Numbered(track) ==
  UNION {{<<n, r>> : r \in {q \in DOMAIN workbook[n].rows : HasNumber(Shown(track, n), q)}} :
         n \in DOMAIN workbook}
Listed == {a \in Numbered("b") :
             ~IsLabelOf(PartAt("b", a), Under(Shown("b", a[1]), a[2]).signature)}
Listings(part) == {a \in Listed : PartAt("b", a) = part}

Later(a, b) == a[1] > b[1] \/ (a[1] = b[1] /\ a[2] > b[2])

(* Type invariant: what the reads and upserts leave behind. *)
ParityTypeOK ==
  /\ workbook \in Workbooks
  /\ position \in {Start} \cup UNION {DataRows("b", n) : n \in DOMAIN workbook}
  /\ reached \in [DOMAIN workbook ->
                   {Start} \cup UNION {DataRows("a", n) : n \in DOMAIN workbook}]
  /\ \A i \in DOMAIN products : products[i].part # None /\ products[i].at \in Listed
  /\ \A k \in DOMAIN catalogue : Norm(catalogue[k].part) = k /\ catalogue[k].at \in Numbered("a")
  /\ csv # None => Unparsed = {}

(* The file holds each part of the workbook once, with the values of its   *)
(* last appearance in the order of sheets and rows, and no other part: no  *)
(* row at the edge of a section is lost, read under a wrong header or read *)
(* twice (section_detector.py:130-132, parse_xlsx.py:110-114,              *)
(* parity_check.py:42-44).                                                 *)
LastAppearanceKept ==
  csv # None =>
    /\ \A p \in DOMAIN csv : /\ csv[p].at \in Listings(p)
                            /\ \A a \in Listings(p) : a = csv[p].at \/ Later(csv[p].at, a)
    /\ \A a \in Listed : PartAt("b", a) \in DOMAIN csv

(* A section is never named after a row above another header: its title is *)
(* a text of one of the four rows above its own                            *)
(* (section_detector.py:153-171).                                          *)
TitleIsOwn ==
  \A i \in DOMAIN products :
    LET n     == products[i].at[1]
        h     == Greatest(Above(Shown("b", n), products[i].at[2]))
        title == products[i].fitment[1].section
    IN  products[i].fitment # << >> =>
          \/ title = None
          \/ \E t \in h - 4 .. h - 1 :
               /\ t > 0 /\ Above(Shown("b", n), h) \cap t .. h = {}
               /\ \E c \in DOMAIN Texts("b", n)[t] : Texts("b", n)[t][c] = title

(* No cell is shown differently by the tracks: there is no error value,    *)
(* and no formula whose result is empty or has white space around it.      *)
ShownAlike == \A n \in DOMAIN workbook : Shown("a", n) = Shown("b", n)

(* The two tracks list the same parts: a part of Track A's file only is a  *)
(* column label, and a part of Track B's only is spelled in more than one  *)
(* way and in Track A's file under its first spelling                      *)
(* (row_normalizer.py:70-74, products.repo.ts:75).                         *)
SameParts ==
  /\ \A p \in DiffSummary.onlyB : \E q \in DOMAIN Reference : Norm(q) = Norm(p) /\ q # p
  /\ \A p \in DiffSummary.onlyA : \E k \in DOMAIN Signatures : IsLabelOf(p, Signatures[k])

(* So it is of a workbook whose cells they show alike, whatever the order  *)
(* of Track A's jobs.                                                      *)
SamePartNumbers == Finished /\ ShownAlike => SameParts

(* "Mirrors `cellToString` in track-a-jd-native/src/ingest/cell-utils.ts"  *)
(* (cell_utils.py:17): so it is of any workbook.                           *)
CellsMirrored == Finished => SameParts

(* A part that one sheet lists, in one spelling. *)
Plain(p) ==
  /\ {a \in Numbered("a") : Norm(PartAt("a", a)) = Norm(p)} = Listings(p)
  /\ Cardinality({a[1] : a \in Listings(p)}) = 1

(* Each cell of the four rows above a part's header is the same text in    *)
(* both tracks, or in both a number: none is a rich text or a formula.     *)
TitlesAlike(a) ==
  LET h == Greatest(Above(Shown("b", a[1]), a[2])) IN
  \A r \in h - 4 .. h - 1 : r > 0 =>
    \A c \in DOMAIN Texts("b", a[1])[r] :
      \/ Texts("a", a[1])[r][c] = Texts("b", a[1])[r][c]
      \/ {Texts("a", a[1])[r][c], Texts("b", a[1])[r][c]} \subseteq PartOrCallout

(* Such a part is the same product in both tracks when they show the cells *)
(* alike: read from the same row, with the same year and model code, the   *)
(* same name if that row has one, the same callout but for a rich text or  *)
(* a formula there, and the same section but for one in a title's place    *)
(* (parse_xlsx.py:117-165, parse-sheet.worker.ts:145-167).                 *)
TracksAgree ==
  Finished /\ ShownAlike =>
    \A p \in DOMAIN csv :
      LET f == csv[p].fitment  g == catalogue[Norm(p)].fitment IN
      Plain(p) =>
        /\ csv[p].at = catalogue[Norm(p)].at
        /\ csv[p].name \in {None, catalogue[Norm(p)].name}
        /\ Len(f) = Len(g)
        /\ \A i \in DOMAIN f :
             /\ \A field \in {"year", "code", "variant"} : f[i][field] = g[i][field]
             /\ g[i].callout \in {f[i].callout, "[object Object]"}
             /\ TitlesAlike(csv[p].at) => f[i].section = g[i].section

(* "Mirrors `normaliseRow` in row-normalizer.ts" (row_normalizer.py:54):   *)
(* it has the same callout.                                                *)
RowsMirrored ==
  Finished =>
    \A p \in DOMAIN csv : Plain(p) =>
      \A i \in DOMAIN csv[p].fitment :
        csv[p].fitment[i].callout = catalogue[Norm(p)].fitment[i].callout
=============================================================================
