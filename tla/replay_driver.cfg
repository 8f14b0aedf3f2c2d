\* Nine captures of two to four requests, in safe mode and with writes allowed, and
\* a target that may add a cookie or a token to any answer.
SPECIFICATION Spec
CONSTANTS
  Scripts <- MCScripts
  Live <- MCLive
  Inside <- MCInside
  Garbled = Garbled
  Extras <- MCExtras
  Seeds <- MCSeeds
  SafeModes = {TRUE, FALSE}
  IdleLimit = TRUE
CHECK_DEADLOCK FALSE
INVARIANTS LiveValuesSent VerifyPredicts EveryExitCounts
