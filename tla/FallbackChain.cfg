\* Two requests, two tiers, a midnight, two restarts, two failed writes.
SPECIFICATION LiveSpec
CONSTANTS
  None = None
  Requests = {r1, r2}
  LastTier = 2
  Limit <- MCLimit
  MinCallouts <- MCMinCallouts
  Counts = {0, 2, 3}
  MaxDays = 1
  MaxRestarts = 2
  MaxFaults = 2
INVARIANTS OvershootBounded
PROPERTIES KeptIsFinal RequestsAnswered
\* All requests are answered and the day ends.
CHECK_DEADLOCK FALSE
