\* Two connections to one broker and one to another; every check and authentication is configured.
SPECIFICATION FairSpec
CONSTANTS
  c1 = c1
  c2 = c2
  c3 = c3
  b1 = b1
  b2 = b2
  Conns = {c1, c2, c3}
  Brokers = {b1, b2}
  BrokerOf <- TwoBrokers
  ConnSrcCap = 1
  ValidatesCert = TRUE
  SaslByProxy = TRUE
INVARIANTS TypeOK ConnSetIsServed NothingLeaks
PROPERTIES HangUpEndsConnection CloseEndsConnections
CHECK_DEADLOCK FALSE
