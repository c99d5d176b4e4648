---------------------------- MODULE MCSheetParser ----------------------------
(***************************************************************************)
(* Workbooks of one sheet: up to two rows out of nine below a header or    *)
(* below a header and two more rows, and a title up to five rows above its *)
(* header.  Workbooks of two sheets: a section of up to two rows each.     *)
(* The rows are the three headers, a title, rows with and without a name,  *)
(* a second spelling, an engine row with the old or the new number only,   *)
(* and a column label among the data.  Workbooks of one sheet with a rich  *)
(* text, a formula or an error value for a label, a title, a callout, a    *)
(* name or a part number.                                                  *)
(***************************************************************************)
EXTENDS SheetParser, TLC

Cell(kind, text) == [kind |-> kind, text |-> text, whole |-> None]
T(text)          == Cell("text", text)
Rich(text)       == Cell("rich", text)
Formula(text)    == Cell("formula", text)
Error            == Cell("error", "#N/A")
Num              == [kind |-> "number", text |-> "1.0", whole |-> "1"]

ChassisHeader == <<T("No."), T("Part Number"), T("EN name"), T("CN name")>>
EngineHeader  == <<T("No."), T("OLD PART NUMBER"), T("NEW PART NUMBER"),
                   T("EN name"), T("CN name")>>
U8Header      == <<T("No."), T("U8 Code"), T("EN name"), T("CN name")>>

Title    == <<T("FRAME"), T("")>>
Named    == <<Num, T("p1"), T("nut")>>
Unnamed  == <<Num, T("p1")>>
Respelt  == <<None, T("P 1"), T("bolt"), T("x")>>
NewOnly  == <<None, None, T("p2"), T("cap")>>
Stray    == <<T("No."), T("U8 CODE")>>
Blank    == <<None>>

RichHeader  == <<T("No."), Rich("Part Number"), T("EN name"), Formula("CN name")>>
RichTitle   == <<None, Rich("FRAME")>>
RichCallout == <<Rich("1-2"), Formula("p1"), Rich("nut")>>
Computed    == <<[Num EXCEPT !.kind = "formula"], T("p2"), Formula("cap")>>
Spaced      == <<T("1-2"), Formula(" p1"), T("nut")>>
NoNumber    == <<T("1-2"), Error, T("nut")>>
NoNewNumber == <<None, T("p1"), Formula(""), T("nut")>>

Headers == {ChassisHeader, EngineHeader, U8Header}
Data    == {Named, Unnamed, Respelt, NewOnly}
AnyRow  == Headers \cup Data \cup {Title, Stray}

Nothing == [reserved |-> FALSE, range |-> None, openEnd |-> None, single |-> None,
            prefix |-> None, model |-> None, variant |-> None]
Modelled == [Nothing EXCEPT !.range = <<2016, 2020>>, !.single = 2016, !.model = "AY70"]
YearOnly == [Nothing EXCEPT !.prefix = 2024]
Plates   == [YearOnly EXCEPT !.reserved = TRUE]

Sheet(name, rows) == [name |-> name, rows |-> rows]

Rows(n)    == UNION {[1 .. k -> AnyRow] : k \in 0 .. n}
Starts     == {<<h>> : h \in Headers} \cup {<<Title, ChassisHeader>>}
FarTitles  == {<<Title>> \o [k \in 1 .. n |-> Blank] \o <<EngineHeader, NewOnly>> : n \in 0 .. 4}
Single     == {<<Sheet(Modelled, rows)>> :
                 rows \in FarTitles \cup {a \o b : a \in Starts, b \in Rows(2)}
                                    \cup {<<h, d, Title>> \o b : h \in Headers, d \in {Named, Stray}, b \in Rows(1)}}
Odd        == {<<h>> \o d : h \in {RichHeader, EngineHeader},
                             d \in [1 .. 2 -> {Named, RichCallout, Computed, Spaced,
                                              NoNumber, NoNewNumber}]}
              \cup {<<t>> \o g \o <<RichHeader, d>> : t \in {RichTitle, Title, Named},
                       g \in {<< >>, <<RichTitle>>, <<Named>>}, d \in {Named, RichCallout}}
Listing    == {<<ChassisHeader>> \o d :
                 d \in [1 .. 2 -> {Named, Unnamed, Respelt}] \cup {<<NewOnly>>}}
                \cup {<<EngineHeader, Named>>, <<EngineHeader, NewOnly, Unnamed>>}
Double     == {<<Sheet(a[1], r), Sheet(a[2], q)>> : r \in Listing, q \in Listing,
                 a \in {<<Modelled, YearOnly>>, <<YearOnly, Plates>>}}
MCWorkbooks == Single \cup Double \cup {<<Sheet(Modelled, rows)>> : rows \in Odd}

(* 2016.0 and the like in a title's place would be one of these too. *)
MCPartOrCallout == {"1", "1.0", "1-2"}

MCTrimmed(t)  == IF t = " p1" THEN "p1" ELSE t
MCSqueezed(t) == IF t = " p1" THEN "p1" ELSE IF t = "P 1" THEN "P1" ELSE IF t = "U8 CODE" THEN "U8CODE" ELSE t
MCUpper(t) == IF t = "p1" THEN "P1" ELSE IF t = "p2" THEN "P2"
              ELSE IF t = "U8 Code" THEN "U8 CODE" ELSE t
=============================================================================
