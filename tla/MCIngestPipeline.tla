-------------------------- MODULE MCIngestPipeline --------------------------
(***************************************************************************)
(* Three workbooks for the ingest pipeline.                                *)
(*                                                                         *)
(* MCRows: a file that is never replaced.  One sheet lists two products,  *)
(* in two sections with headers in rows 3 and 8, and between them a row    *)
(* that does not normalise; the first product has an old part number.      *)
(* Both sections show the same picture.  Another one begins right below    *)
(* the first header (row 4, which is 3 counted from 0), where an           *)
(* off-by-one finds it.                                                    *)
(*                                                                         *)
(* ReplacedRows: a file the dealer saves again with its sheet renamed.     *)
(* Each version lists one product of an illustrated section; the second    *)
(* version has a row that does not normalise and lost its pictures.        *)
(*                                                                         *)
(* NeighbourRows: two sheets, each with a section and its picture; that of *)
(* the first sheet is nearer to the second one's header by row number.     *)
(***************************************************************************)
EXTENDS IngestPipeline, TLC

CONSTANTS p1, p2, i1, i2, b1, b2, s1, s2

RowOf(p, a, h) == [part |-> p, alias |-> a, header |-> h]
AnchorOf(s, r, i) == [sheet |-> s, row |-> r, image |-> i]

MCRows    == << s1 :> << RowOf(p1, TRUE, 3), RowOf(None, FALSE, 3),
                         RowOf(p2, FALSE, 8) >> >>
MCAnchors == << << AnchorOf(s1, 1, i1), AnchorOf(s1, 3, i2), AnchorOf(s1, 5, i1) >> >>
MCMedia   == << i1 :> b1 @@ i2 :> b2 >>

ReplacedRows    == << s1 :> << RowOf(p1, TRUE, 4) >>,
                      s2 :> << RowOf(p2, FALSE, 4), RowOf(None, FALSE, 5) >> >>
ReplacedAnchors == << << AnchorOf(s1, 2, i1) >>, << >> >>
ReplacedMedia   == << i1 :> b1 @@ i2 :> b2, i1 :> None @@ i2 :> None >>

NeighbourRows    == << s1 :> << RowOf(p1, FALSE, 3) >> @@ s2 :> << RowOf(p2, FALSE, 6) >> >>
NeighbourAnchors == << << AnchorOf(s1, 1, i1), AnchorOf(s2, 0, i2) >> >>
NeighbourMedia   == << i1 :> b1 @@ i2 :> b2 >>

SlotSymmetry == Permutations(SheetSlots)
=============================================================================
