---------------------------- MODULE MCVisionCalls -----------------------------
(* Three images, two at a time, two attempts, an interval of two ticks and *)
(* back-offs of none or one.                                               *)
EXTENDS VisionCalls

CONSTANTS i1, i2, i3

MCTasks == {i1, i2, i3}

=============================================================================
