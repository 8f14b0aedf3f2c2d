SPECIFICATION Spec
CONSTANTS
  Partitions = {0, 1}
  MaxTime = 2
  MaxPublished <- Published
  MaxSessions = 2
  MaxMessages = 2
  FaultSets <- Faults
CHECK_DEADLOCK FALSE
INVARIANTS CaptureHasNoGaps PlanFaithful ProducedIsPrefix PartitionOrderKept
PROPERTIES TornLogNotExtended
