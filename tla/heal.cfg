SPECIFICATION Spec
CONSTANTS
  absent = absent
  unset = unset
  none = none
  Fields <- F
  Kind <- K
  Elements = {"nonce"}
  Lost = {"ctx.nonce", "ids[x"}
  Malformed = {"ids[x"}
  Absent = absent
  Unset = unset
  GrpcMethods = {"/pkg.Svc/M"}
  Calls <- SomeCalls
  MaxSamples = 3
  MinSamples = 2
  MinScore = 97
  Volatile = {"trace_id", "nonce", "account_time", "ctx.nonce"}
  Protected = {"account_time"}
  Fits <- FitsOf
  Rank <- RankOf
  UserConfigs <- Configs
  NoConfig = none
  MaxBackups = 2
  MaxRuns = 2
  MaxEdits = 1
CHECK_DEADLOCK FALSE
INVARIANTS NoConfigLost
PROPERTIES AnswersAsRecorded HealRulesFit RelaxesOnlyVolatile ScenarioAgrees
