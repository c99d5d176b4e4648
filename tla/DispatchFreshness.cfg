\* A watched file, then one with a freshness SLA; one loop at a time.
SPECIFICATION Spec
CONSTANTS
  None = None
  LastBinding = 2
  Schedule <- Mixed
  Batch <- AllBatch
  Sla <- SlaOfSecond
  Contents = {A, B}
  FirstDisks <- SameDisk
  Loops = {l1}
  Slots = {w1}
  MaxTime = 2
  MaxSaves = 1
  MaxExpired = 1
  MaxFaults = 1
PROPERTIES RunsAreSpaced
