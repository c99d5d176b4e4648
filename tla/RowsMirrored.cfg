\* What the two normaliseRow make of a row.
SPECIFICATION ParitySpec
CONSTANTS
  None = None
  Workbooks <- MCWorkbooks
  PartOrCallout <- MCPartOrCallout
  Upper <- MCUpper
  Squeezed <- MCSqueezed
  Trimmed <- MCTrimmed
INVARIANTS RowsMirrored
\* Both files are written and the system rests.
CHECK_DEADLOCK FALSE
