SPECIFICATION Spec
CONSTANTS
  Threads = {t1, t2}
  MaxMem = 0
  CompactionTrigger = 1
  SlowdownTrigger = 1
  StopTrigger = 2
  MaxWrites = 3
  MaxEvents = 4
INVARIANTS TypeOK WritesSurvive ReadsAreRight NumbersAreSound
PROPERTIES CallsEnd
CHECK_DEADLOCK FALSE
