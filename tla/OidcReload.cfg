\* The oidc provider with one change of its credentials file after another.
SPECIFICATION FairSpec
CONSTANTS
  Kinds = {"oidc"}
  Links = {FALSE}
  Callers = {"c1"}
  Kids = {1}
  Skew = 1
  Life = 6
  Timeout = 1
  MaxElapsed = 1
  MaxTries = 1
  MaxStarved = 1
  MaxTime = 2
  MaxEdits = 2
  EditHorizon = 2
PROPERTIES CredentialsReload
CHECK_DEADLOCK FALSE
