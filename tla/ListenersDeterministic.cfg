\* Ports by broker id; brokers without a valid id; one broker that moves between a3
\* and a4; a bootstrap server a1; a broker a2 behind the SNI listener.
SPECIFICATION Spec
CONSTANTS
  a1 = a1
  a2 = a2
  a3 = a3
  a4 = a4
  Addrs = {a1, a2, a3, a4}
  NoAddr = NoAddr
  Ids <- ThreeIds
  Brokers <- MovingBroker
  Callers = {c1, c2}
  PortSpace = 4
  MinPort = 3
  MaxPorts = 1
  Ephemeral = {}
  Deterministic = TRUE
  DynamicDisabled = FALSE
  TemplateFails = FALSE
  TemplatePort <- HostAndPort
  Static <- Bootstrap
  SniMapping <- TwoNames
  SniPort = 2
  ForeignInit = {}
  MaxForeignMoves = 0
  MaxHandshakes = 1
  ConnSrcCap = 1
INVARIANTS MapsToItsListener RoutedAsAdvertised
SYMMETRY CallerSymmetry
