\* One watched file and two overlapping loops.
SPECIFICATION LiveSpec
CONSTANTS
  None = None
  LastBinding = 1
  Schedule <- WatchedOnly
  Batch <- AllBatch
  Sla <- NoSla
  Contents = {A, B}
  FirstDisks <- AnyDisk
  Loops = {l1, l2}
  Slots = {w1}
  MaxTime = 1
  MaxSaves = 1
  MaxExpired = 1
  MaxFaults = 1
INVARIANTS RecordedWasQueued UnchangedLoadedOnce
PROPERTIES RecordConverges
