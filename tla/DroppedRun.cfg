\* A file with a freshness SLA that its dealer leaves alone; the queue still knows its job.
SPECIFICATION LiveSpec
CONSTANTS
  None = None
  LastBinding = 1
  Schedule <- SlaOnly
  Batch <- AllBatch
  Sla <- SlaOfFirst
  Contents = {A, B}
  FirstDisks <- SameDisk
  Loops = {l1}
  Slots = {w1}
  MaxTime = 2
  MaxSaves = 0
  MaxExpired = 0
  MaxFaults = 0
PROPERTIES OverdueIsRun
