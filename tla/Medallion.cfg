SPECIFICATION Spec
CONSTANTS
  None = None
  r1 = r1
  r2 = r2
  r3 = r3
  b1 = b1
  b2 = b2
  p1 = p1
  p2 = p2
  n1 = n1
  n2 = n2
  f1 = f1
  f2 = f2
  f3 = f3
  i1 = i1
  i2 = i2
  i3 = i3
  Runs <- MCRuns
  Programs <- MCPrograms
  Workbooks <- MCWorkbooks
  Products <- MCProducts
  Archives <- MCArchives
  Reference = 2
  MaxSaves = 1
  MaxKills = 1
INVARIANTS GoldIsOfOneParse
PROPERTIES LoneRunPublishes PublishedStays
