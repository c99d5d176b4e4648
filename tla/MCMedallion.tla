----------------------------- MODULE MCMedallion ------------------------------
(* Three programs at once over two workbooks.  The first lists a part      *)
(* twice and has the reference's number of parts; the second has one part  *)
(* of the two and no picture.  In the first one picture is two files, each *)
(* on a sheet of its own, and another is on no sheet.                      *)
EXTENDS Medallion, TLC

CONSTANTS r1, r2, r3, b1, b2, p1, p2, n1, n2, f1, f2, f3, i1, i2, i3

MCRuns      == {r1, r2, r3}
MCPrograms  == r1 :> {"script"} @@ r2 :> {"cli", "dry"} @@ r3 :> {"roundtrip"}
MCWorkbooks == {b1, b2}

Row(p, n, f) == [part |-> p, name |-> n, fitment |-> f]
MCProducts  == b1 :> <<Row(p1, n1, f1), Row(p2, n1, f2), Row(p1, n2, f2)>>
            @@ b2 :> <<Row(p2, n2, f3)>>

File(p, h, e) == [path |-> p, hash |-> h, ext |-> e]
MCArchives ==
  b1 :> [media    |-> {File("m1", i1, "png"), File("m2", i1, "jpeg"), File("m3", i2, "gif"),
                       File("m4", i3, "emf")},
         drawings |-> [s1 |-> {"d1"}, s2 |-> {"d2", "d3"}],
         pictures |-> [d1 |-> {"m1", "m4"}, d2 |-> {"m2"}]]
  @@ b2 :> [media |-> {File("m1", i3, "wmf")}, drawings |-> [s1 |-> {}], pictures |-> << >>]

=============================================================================
