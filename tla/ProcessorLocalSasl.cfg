\* The proxy authenticates the client (gateway and local SASL); SASL frames wait.
SPECIFICATION Spec
CONSTANTS
  CfgMaxOpenRequests = 1
  MinOpenRequests = 1
  SockCap = 1
  MaxFrames = 5
  Kinds = {"produce", "other", "api", "hs0", "hs1", "saslauth", "token"}
  Forbidden = {"other"}
  LocalSaslEnabled = TRUE
  AuthServerEnabled = TRUE
  Acks0Disabled = TRUE
  Pipelining = FALSE
INVARIANTS RepliesInOrder BrokerSeesOnlyAdmitted
CHECK_DEADLOCK FALSE
