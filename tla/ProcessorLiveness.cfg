\* Fair goroutines, timers and peers; SASL v0 is passed through, SASL frames wait.
SPECIFICATION LiveSpec
CONSTANTS
  CfgMaxOpenRequests = 1
  MinOpenRequests = 1
  SockCap = 1
  MaxFrames = 3
  Kinds = {"produce", "produce0", "hs0", "token"}
  Forbidden = {"other"}
  LocalSaslEnabled = FALSE
  AuthServerEnabled = FALSE
  Acks0Disabled = FALSE
  Pipelining = FALSE
INVARIANT ResponseHandlerFits
PROPERTIES Teardown EveryRequestAnswered
CHECK_DEADLOCK FALSE
