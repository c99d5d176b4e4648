SPECIFICATION Spec
CONSTANTS
  None = None
  w1 = w1
  w2 = w2
  p1 = p1
  p2 = p2
  p3 = p3
  Workers <- MCWorkers
  Workbook <- MCWorkbook
  Readings <- MCReadings
  Splits = {2}
  Splits2 = {1}
  MaxStarts = 4
  MaxStages = 1
  MaxKills = 0
PROPERTY RecoveredIsMerged
\* The operator may stop; starts and stages are bounded.
CHECK_DEADLOCK FALSE
