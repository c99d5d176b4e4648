SPECIFICATION Spec
CONSTANTS
  None = None
  Blank = Blank
  s1 = s1
  s2 = s2
  p1 = p1
  p2 = p2
  sp = sp
  c1 = c1
  c2 = c2
  e1 = e1
  h0 = h0
  h1 = h1
  h2 = h2
  m1 = m1
  m2 = m2
  Slots <- MCSlots
  Parts <- MCParts
  Chinese <- MCChinese
  Ascii <- MCAscii
  Spaces <- MCSpaces
  Workbooks <- MCWorkbooks
  Replies <- MCReplies
  Programs <- MCPrograms
  MaxFaults = 1
INVARIANTS NamesAreOwn SameTextSameName IngestSuccessIsComplete EnrichSuccessIsComplete AnswersAreUsed
\* The terminals may rest.
CHECK_DEADLOCK FALSE
