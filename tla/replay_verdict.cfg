\* Two runs of two workers on an erratic application, with every disturbance,
\* in safe mode.
SPECIFICATION Spec
CONSTANTS
  Workers = {w1, w2}
  Runs = 2
  NEvents = 2
  Skips = {2}
  Kinds <- MCKinds
  Captured <- OnePay
  Scripts <- Erratic
  Async = FALSE
  TimesOut = TRUE
  MayFail = TRUE
  MayExpire = TRUE
  MayDrift = TRUE
  MayWindow = TRUE
SYMMETRY Symmetry
CHECK_DEADLOCK FALSE
INVARIANTS PassMeansNoRefusal StrongMeansComplete PassMeansDeterministic
