----------------------------- MODULE MCMlxBatch -------------------------------
(* Three pictures on two sheets, the first on both; the parts tables have  *)
(* the numbers 1 to 3, and 1 to 4.  Two workers, at most two slices.       *)
EXTENDS MlxBatch, TLC

CONSTANTS w1, w2, p1, p2, p3

MCWorkers  == {w1, w2}
MCWorkbook == <<[pictures |-> <<p1, p2, p1>>, columns |-> <<<<1, None>>, <<1, 2, 3>>>>],
                [pictures |-> <<p3, p1>>, columns |-> <<<<2, 1, 3, 4>>, <<9, 9, 9>>>>]>>

C(n, pos) == [n |-> n, pos |-> pos]
List(items) == [list |-> TRUE, items |-> items]
Clean    == List(<<C(1, "top"), C(2, "top"), C(3, "center")>>)
Invented == List(<<C(1, "top"), C(7, "top"), C(8, "left")>>)
Twice    == List(<<C(2, "top"), C(2, "bottom")>>)
NotAList == [list |-> FALSE, items |-> << >>]

Symmetry == Permutations(MCWorkers)

MCReadings ==
  1 :> (p1 :> {None, Clean} @@ p2 :> {Invented} @@ p3 :> {None}) @@
  2 :> (p1 :> {Twice} @@ p2 :> {Clean} @@ p3 :> {None, NotAList})

=============================================================================
