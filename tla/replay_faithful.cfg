\* Two runs of two workers on an application that calls as captured, perhaps
\* after it has answered, or not in time, in
\* safe mode.
SPECIFICATION Spec
CONSTANTS
  Workers = {w1, w2}
  Runs = 2
  NEvents = 2
  Skips = {2}
  Kinds <- MCKinds
  Captured <- OneEach
  Scripts <- PayThenMail
  Async = TRUE
  TimesOut = TRUE
  MayFail = FALSE
  MayExpire = TRUE
  MayDrift = FALSE
  MayWindow = FALSE
CHECK_DEADLOCK FALSE
INVARIANTS FaithfulAppPasses
PROPERTIES Terminates
