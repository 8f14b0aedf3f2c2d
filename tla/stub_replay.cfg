\* Fanout 2 over one captured call, which may be used twice, so that the budget is
\* 2, beside a login scenario: retries=1 fails the first matched call to payments,
\* the matched calls to auth time out, and any of three calls may cross the Reset.
SPECIFICATION Spec
CONSTANTS
  Requests = {r1, r2, r3}
  Calls <- MCCalls
  NoCall = NoCall
  NEvents = 1
  Accepts <- PayOrOther
  Replayable = {1}
  Scenarios <- MCScenarios
  States <- MCStates
  InitialState <- MCInitial
  Steps <- LoginSteps
  Deps = {"payments", "auth"}
  DepOf <- MCDepOf
  Rule <- RetryOnce
  Configures = TRUE
  Fanout = 2
  MaxResets = 1
SYMMETRY Symmetry
CHECK_DEADLOCK FALSE
INVARIANTS ServedWithinCapture ScenarioFlow NoFalseDivergence CleanStart RefusalsReported RetryFailuresExact
