\* One watched file that its dealer saves twice; nothing fails or expires.
SPECIFICATION LiveSpec
CONSTANTS
  None = None
  LastBinding = 1
  Schedule <- WatchedOnly
  Batch <- AllBatch
  Sla <- NoSla
  Contents = {A, B}
  FirstDisks <- SameDisk
  Loops = {l1}
  Slots = {w1}
  MaxTime = 0
  MaxSaves = 2
  MaxExpired = 0
  MaxFaults = 0
PROPERTIES SourceIsLoaded
