\* Sheets of up to four rows, and pairs of sections.
SPECIFICATION ParitySpec
CONSTANTS
  None = None
  Workbooks <- MCWorkbooks
  PartOrCallout <- MCPartOrCallout
  Upper <- MCUpper
  Squeezed <- MCSqueezed
  Trimmed <- MCTrimmed
INVARIANTS LastAppearanceKept TitleIsOwn SamePartNumbers TracksAgree
\* Both files are written and the system rests.
CHECK_DEADLOCK FALSE
