\* Two responses whose identifiers count up.
SPECIFICATION Spec
CONSTANTS
  Scripts <- Counting
  Live <- MCLive
  Inside <- MCInside
  Garbled = Garbled
  Extras <- NoExtras
  Seeds <- NoSeeds
  SafeModes = {FALSE}
  IdleLimit = TRUE
CHECK_DEADLOCK FALSE
INVARIANT FreshValuesSent
