\* One run over a workbook that may be replaced once, up to one fault
\* and one forgotten job, and the liveness of the job queues.
SPECIFICATION LiveSpec
CONSTANTS
  None = None
  p1 = p1  p2 = p2  i1 = i1  i2 = i2  b1 = b1  b2 = b2
  s1 = s1  s2 = s2
  Runs = {r1}
  Dealers = {d1}
  Parts = {p1, p2}
  Sheets = {s1, s2}
  Images = {i1, i2}
  Blobs = {b1, b2}
  FileSlots = {f1}
  SheetSlots = {w1}
  ImageSlots = {u1}
  MaxVersion = 2
  MaxFaults = 1
  MaxExpired = 1
  Rows <- ReplacedRows
  Anchors <- ReplacedAnchors
  Media <- ReplacedMedia
PROPERTIES AcceptedRunsSettle
\* All jobs settle and the system rests.
CHECK_DEADLOCK FALSE
