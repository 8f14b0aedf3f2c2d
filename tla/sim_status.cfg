\* A refusal, one Reset, two status requests, and a shutdown.
SPECIFICATION SimSpec
CONSTANTS
  Requests = {r1, r2}
  Calls <- MCCalls
  NoCall = NoCall
  NEvents = 1
  Accepts <- OnePay
  Replayable = {1}
  Scenarios = {}
  States = {}
  InitialState <- NoSteps
  Steps <- NoSteps
  Deps = {"payments"}
  DepOf <- MCDepOf
  Rule <- NoRules
  Configures = FALSE
  Fanout = 1
  MaxResets = 1
  Hijacked = {r2}
  MaxPolls = 2
CHECK_DEADLOCK FALSE
INVARIANTS NoFlagNoDivergence SnapshotIsNotStale ObservedLogComplete
PROPERTIES CloseCompletes
