\* Checks the documentation of --deterministic-listeners, with ports for all ids.
SPECIFICATION Spec
CONSTANTS
  a1 = a1
  a2 = a2
  a3 = a3
  a4 = a4
  Addrs = {a1, a2}
  NoAddr = NoAddr
  Ids <- TwoIds
  Brokers <- AllPairs
  Callers = {c1}
  PortSpace = 4
  MinPort = 1
  MaxPorts = 3
  Ephemeral = {}
  Deterministic = TRUE
  DynamicDisabled = FALSE
  TemplateFails = FALSE
  TemplatePort <- HostOnly
  Static <- NothingStatic
  SniMapping <- NoSni
  SniPort = 0
  ForeignInit = {}
  MaxForeignMoves = 0
  MaxHandshakes = 0
  ConnSrcCap = 1
INVARIANT PortIsMinPlusId
