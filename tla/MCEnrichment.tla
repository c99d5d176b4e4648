----------------------------- MODULE MCEnrichment -----------------------------
(* Two parts: the first is called by white space and then, further down,   *)
(* by a name; the second by the same name.  A later workbook has a row      *)
(* without a part number, and the second part by another name and in       *)
(* English.  Track B's mart is of that delivery.                           *)
EXTENDS Enrichment, TLC

CONSTANTS s1, s2, p1, p2, sp, c1, c2, e1, h0, h1, h2, m1, m2

MCSlots == {s1, s2}
MCParts == {p1, p2}
MCChinese == {sp, c1, c2}
MCAscii   == {c2}
MCSpaces  == {sp}

Row(p, c, e) == [part |-> p, cn |-> c, en |-> e]
Book   == <<Row(p1, sp, None), Row(p2, c1, None), Row(p1, c1, None)>>
Later  == <<Row(None, c2, None), Row(p2, c2, e1)>>
MCWorkbooks == {Book, Later}

MCReplies == [handoff |-> sp :> {h0} @@ c1 :> {h1} @@ c2 :> {h2},
              model   |-> sp :> {None} @@ c1 :> {m1, Blank} @@ c2 :> {m2, None}]

Ingest(book) == [tool |-> "ingest", rows |-> book]
Enrich(mode, upstream) == [tool |-> "enrich", mode |-> mode, upstream |-> upstream]
Mart == [tool |-> "mart", upstream |-> "model", rows |-> {Row(p2, c2, e1)}]

MCPrograms ==
  s1 :> {HandoffFill, Enrich("fill", "model"), Enrich("audit", "model")} @@
  s2 :> {Ingest(Book), Ingest(Later), Mart}
=============================================================================
