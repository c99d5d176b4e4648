\* The documented lineage of a product, while its dealer may save the file again.
SPECIFICATION Spec
CONSTANTS
  None = None
  p1 = p1  p2 = p2  i1 = i1  i2 = i2  b1 = b1  b2 = b2
  s1 = s1  s2 = s2
  Runs = {r1}
  Dealers = {d1}
  Parts = {p1, p2}
  Sheets = {s1, s2}
  Images = {i1, i2}
  Blobs = {b1, b2}
  FileSlots = {f1}
  SheetSlots = {w1}
  ImageSlots = {u1}
  MaxVersion = 2
  MaxFaults = 0
  MaxExpired = 0
  Rows <- ReplacedRows
  Anchors <- ReplacedAnchors
  Media <- ReplacedMedia
INVARIANTS LineageHolds
\* All jobs settle and the system rests.
CHECK_DEADLOCK FALSE
