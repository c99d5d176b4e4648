\* The documented match by part and dealer.
SPECIFICATION Spec
CONSTANTS
  None = None
  Events = {e1, e2}
  Kinds = {"inventory"}
  Parts = {p1}
  Dealers = {d1, d2}
  Slots = {w1, w2}
  MaxFaults = 0
INVARIANTS StockIsOwn
\* All jobs settle and the system rests.
CHECK_DEADLOCK FALSE
