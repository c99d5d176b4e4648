\* One run over a workbook that is not replaced, up to two faults; Redis forgets a job.
SPECIFICATION Spec
CONSTANTS
  None = None
  p1 = p1  p2 = p2  i1 = i1  i2 = i2  b1 = b1  b2 = b2
  s1 = s1  s2 = s2
  Runs = {r1}
  Dealers = {d1}
  Parts = {p1, p2}
  Sheets = {s1}
  Images = {i1, i2}
  Blobs = {b1, b2}
  FileSlots = {f1}
  SheetSlots = {w1, w2}
  ImageSlots = {u1}
  MaxVersion = 1
  MaxFaults = 2
  MaxExpired = 1
  Rows <- MCRows
  Anchors <- MCAnchors
  Media <- MCMedia
SYMMETRY SlotSymmetry
INVARIANTS TypeOK LinkedIsStored NoRowLost CompletedImageIsLinked LinkIsAnchored
PROPERTIES CatalogueSpec
\* All jobs settle and the system rests.
CHECK_DEADLOCK FALSE
