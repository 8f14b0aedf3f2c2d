\* Two logs of up to two events each, or three; two runs of seal and of open.
SPECIFICATION Spec
CONSTANTS
  Absent = Absent
  Sources <- MCSources
  Shared <- MCShared
  Later <- MCLater
  Workflows <- MCWorkflows
  Destinations <- MCDestinations
  Attempts = 2
CHECK_DEADLOCK FALSE
INVARIANTS WorkflowVerdictIsRight StrictPassIsComplete OpenedIsSealed
