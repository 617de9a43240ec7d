\* Pass-through SASL, a client that never waits.
SPECIFICATION Spec
CONSTANTS
  CfgMaxOpenRequests = 1
  MinOpenRequests = 2
  SockCap = 2
  MaxFrames = 4
  Kinds = {"produce", "produce0", "other", "hs0", "token", "bad"}
  Forbidden = {"other"}
  LocalSaslEnabled = FALSE
  AuthServerEnabled = FALSE
  Acks0Disabled = FALSE
  Pipelining = TRUE
INVARIANTS TypeOK ReplyReadAsItsRequest OpenRequestPresent HandlerIsOnItsWay RequestHandlerPresent
PROPERTY ImplementsReplyQueue
CHECK_DEADLOCK FALSE
