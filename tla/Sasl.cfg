\* Two connections authenticate at the same time with the authenticator they share.
SPECIFICATION Spec
CONSTANTS
  Conns = {"c1","c2"}
  Mechanisms = {"PLAIN","OAUTHBEARER","SCRAM","AWS_MSK_IAM","GSSAPI"}
INVARIANTS TypeOK SuccessIsMutual StreamIsClean FailureHasAReason
PROPERTIES ExchangeEnds
CHECK_DEADLOCK FALSE
