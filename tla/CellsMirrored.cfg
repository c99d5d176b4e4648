\* What the two cellToString show of a workbook.
SPECIFICATION ParitySpec
CONSTANTS
  None = None
  Workbooks <- MCWorkbooks
  PartOrCallout <- MCPartOrCallout
  Upper <- MCUpper
  Squeezed <- MCSqueezed
  Trimmed <- MCTrimmed
INVARIANTS CellsMirrored
\* Both files are written and the system rests.
CHECK_DEADLOCK FALSE
