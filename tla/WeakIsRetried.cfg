\* The documented retry of what no tier answered well, nothing fails.
SPECIFICATION Spec
CONSTANTS
  None = None
  Requests = {r1, r2}
  LastTier = 2
  Limit <- MCLimit
  MinCallouts <- MCMinCallouts
  Counts = {0, 2, 3}
  MaxDays = 0
  MaxRestarts = 0
  MaxFaults = 0
INVARIANTS WeakIsRetried
\* All requests are answered and the day ends.
CHECK_DEADLOCK FALSE
