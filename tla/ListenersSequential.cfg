\* Sequential ports, one of them held by another process, which may free it or
\* take a second one; a1 is a bootstrap server.
SPECIFICATION FairSpec
CONSTANTS
  a1 = a1
  a2 = a2
  a3 = a3
  a4 = a4
  Addrs = {a1, a2, a3}
  NoAddr = NoAddr
  Ids <- OneId
  Brokers <- AllPairs
  Callers = {c1, c2}
  PortSpace = 9
  MinPort = 5
  MaxPorts = 4
  Ephemeral = {}
  Deterministic = FALSE
  DynamicDisabled = FALSE
  TemplateFails = FALSE
  TemplatePort <- HostOnly
  Static <- Bootstrap
  SniMapping <- NoSni
  SniPort = 0
  ForeignInit = {5}
  MaxForeignMoves = 1
  MaxHandshakes = 0
  ConnSrcCap = 1
INVARIANTS TypeOK OneListenerPerBroker PortsInInterval AnswersStayValid
PROPERTY EventuallyMapped
