\* Two events, two slots, up to three faults.
SPECIFICATION LiveSpec
CONSTANTS
  None = None
  Events = {e1, e2}
  Kinds = {"inventory", "order"}
  Parts = {p1}
  Dealers = {d1}
  Slots = {w1, w2}
  MaxFaults = 3
INVARIANTS TypeOK ToldIsRecorded CompletedIsTold
PROPERTIES LedgerSpec AcceptedEventsResolve
\* All jobs settle and the system rests.
CHECK_DEADLOCK FALSE
