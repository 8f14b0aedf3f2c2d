\* Two handlers with two writes each, three crashes or full disks.
SPECIFICATION Spec
CONSTANTS
  Writers = {w1, w2}
  Nobody = Nobody
  MaxWrites = 2
  MaxFailures = 3
CHECK_DEADLOCK FALSE
INVARIANTS SequencesIncrease AckedSurvive
PROPERTIES ImplementsAppendLog WritesReturn
