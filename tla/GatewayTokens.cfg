\* Renewal, reload and verification of tokens: one connection, a change of the key at any time, clocks apart.
SPECIFICATION GatewayFairSpec
CONSTANTS
  Kinds = {"googleid","oidc"}
  Links = {TRUE,FALSE}
  Callers = {"c1"}
  Kids = {1,2,3,4,5}
  Skew = 1
  Life = 6
  Timeout = 1
  MaxElapsed = 1
  MaxTries = 1
  MaxStarved = 1
  MaxTime = 8
  MaxEdits = 3
  EditHorizon = 1
  CertsEvery = 3
  MaxCertFails = 1
  RotateEvery = 7
  AuthTimeout = 1
  MaxDrift = 1
INVARIANTS TypeOK AnswersAreValid OutageIsBridged SourceStaysUsable TokensAreAccepted
CHECK_DEADLOCK FALSE
PROPERTIES ReloadIsUsed
