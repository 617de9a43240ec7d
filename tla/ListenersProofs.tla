--------------------------- MODULE ListenersProofs ---------------------------
(***************************************************************************)
(* Theorems about Listeners, for every set of brokers and callers, every   *)
(* port range and every setting Config.Validate accepts: the map leads to  *)
(* the bound listeners and back, except for entries whose accept loop has  *)
(* ended, whatever the callers do, and dynamic ports stay in their         *)
(* interval in spite of uint16 arithmetic.                                 *)
(***************************************************************************)
EXTENDS Listeners, TLAPS

(* A call gets to ListenDynamicInstance only where that is allowed.        *)
DynamicInv == \A c \in Callers : calls[c].at = "dynamic" => ~DynamicDisabled

InInterval(p) == MinPort > 0 => p >= MinPort /\ p < MinPort + MaxPorts

(* A listener is a configured one, or its port is in the interval; and so  *)
(* is the port of every entry with a broker id, by which it may be moved.  *)
IntervalInv ==
  /\ \A p \in Ports : IsListening(p) => Static[listening[p]].port = p \/ InInterval(p)
  /\ \A a \in Addrs : brokerToListenerConfig[a].id # UnknownBrokerID =>
       brokerToListenerConfig[a].port \in Ports /\ InInterval(brokerToListenerConfig[a].port)

(* With a broken template nothing is added to the map.                     *)
TemplateInv == TemplateFails => brokerToListenerConfig = Static

IInv == /\ TypeOK /\ MapsToItsListener /\ OneListenerPerBroker
        /\ DynamicInv /\ IntervalInv /\ TemplateInv

(* A name that is advertised leads back to the broker.                     *)
SniInv ==
  /\ \A a \in Addrs : brokerToSNIMapping[a] # NoName =>
       brokerToSNIMapping[a] \in Names /\ SniMapping[brokerToSNIMapping[a]] = a
  /\ \A t \in told : t.name # NoName => t.name \in Names /\ SniMapping[t.name] = t.addr
  /\ \A i \in 1..Len(connSrc) :
       connSrc[i].sni /\ connSrc[i].name \in Names =>
         connSrc[i].addr = SniMapping[connSrc[i].name]

(* The brokers clients may expect behind a port, and that nothing else is  *)
(* found there: by the listener, by its accept loop, in connSrc.           *)
Advertised ==
  {<<a, Static[a].port>> : a \in Addrs}
    \cup {<<t.addr, t.port>> : t \in {t \in told : t.name = NoName}}

RouteInv ==
  /\ \A p \in Ports : IsListening(p) => <<listening[p], p>> \in Advertised
  /\ \A p \in Ports : accepting[p] # NoAddr => <<accepting[p], p>> \in Advertised
  /\ \A i \in 1..Len(connSrc) :
       ~connSrc[i].sni => <<connSrc[i].addr, connSrc[i].port>> \in Advertised

-----------------------------------------------------------------------------
(* A port is in the interval, or the overflow was noticed
   (nextDynamicPort, proxy.go:260).                                        *)
LEMMA PortInInterval ==
  ASSUME NEW offset \in Nat, MaxPorts # 0
  PROVE  \/ nextDynamicPort(offset) = NoPort
         \/ /\ nextDynamicPort(offset) \in Ports
            /\ nextDynamicPort(offset) >= MinPort
            /\ nextDynamicPort(offset) < MinPort + MaxPorts
<1> DEFINE o == offset % MaxPorts
           sum == MinPort + o
<1>1. PortSpace \in Nat /\ PortSpace > 0 /\ MinPort \in Nat /\ MinPort < PortSpace
      /\ MaxPorts \in Nat /\ MaxPorts > 0 /\ MaxPorts < PortSpace
  BY ConstAssumption
<1>2. o \in Nat /\ o < MaxPorts
  BY <1>1
<1> HIDE DEF o
<1>3. sum \in Nat /\ sum < MinPort + MaxPorts /\ sum >= MinPort
  BY <1>1, <1>2
<1>4. sum % PortSpace = sum \/ sum % PortSpace < MinPort
  <2>1. CASE sum < PortSpace
    BY <2>1, <1>1, <1>3
  <2>2. CASE sum >= PortSpace
    <3>1. sum - PortSpace \in 0..(PortSpace - 1) /\ sum - PortSpace < MinPort
      BY <2>2, <1>1, <1>2, <1>3
    <3>2. sum % PortSpace = sum - PortSpace
      BY <3>1, <1>1, <1>3
    <3> QED BY <3>1, <3>2
  <2> QED BY <2>1, <2>2, <1>1, <1>3
<1>5. sum % PortSpace \in 0..(PortSpace - 1)
  BY <1>1, <1>3
<1>6. nextDynamicPort(offset) = IF sum % PortSpace < MinPort THEN NoPort ELSE sum % PortSpace
  BY DEF nextDynamicPort, o
<1> HIDE DEF sum
<1>7. CASE sum % PortSpace < MinPort
  BY <1>6, <1>7
<1>8. CASE ~(sum % PortSpace < MinPort)
  <2>1. nextDynamicPort(offset) = sum /\ sum < PortSpace
    BY <1>1, <1>3, <1>4, <1>5, <1>6, <1>8
  <2> QED BY <2>1, <1>1, <1>3 DEF Ports, NoPort
<1> QED BY <1>7, <1>8

(* The port a call is about to listen on.                                  *)
LEMMA TriedPort ==
  ASSUME IInv, NEW c \in Callers, NeedsListener(c)
  PROVE  /\ MinPort = 0 => PortToTry(c) = NoPort
         /\ MinPort > 0 => /\ MaxPorts # 0
                           /\ PortToTry(c) \in Ports
                           /\ PortToTry(c) >= MinPort /\ PortToTry(c) < MinPort + MaxPorts
<1>1. ~DynamicDisabled /\ calls[c] \in Call
  BY DEF IInv, DynamicInv, TypeOK, NeedsListener, Idle
<1>2. MinPort \in Nat /\ MaxPorts \in Nat
  BY ConstAssumption
<1>3. (MinPort = 0 <=> MaxPorts = 0) /\ (Deterministic => MinPort > 0)
  BY <1>1, ValidateAssumption
<1>4. calls[c].id \in Int /\ currentDynamicPortCounter \in Nat
  BY <1>1, ConstAssumption DEF Call, IInv, TypeOK
<1>5. CASE MinPort = 0
  BY <1>5, <1>2, <1>3 DEF PortToTry, NoPort
<1>6. CASE MinPort > 0
  <2>1. MaxPorts # 0
    BY <1>6, <1>2, <1>3
  <2>2. CASE Deterministic
    <3>1. calls[c].id \in Nat /\ PortToTry(c) # NoPort
      BY <2>2, <1>4 DEF NeedsListener
    <3>2. PortToTry(c) = nextDynamicPort(calls[c].id)
      BY <2>2 DEF PortToTry
    <3> QED BY <3>1, <3>2, <2>1, <1>2, <1>6, PortInInterval
  <2>3. CASE ~Deterministic
    <3>1. PortToTry(c) # NoPort
      BY <2>3, <1>6, <1>2 DEF NeedsListener
    <3>2. PortToTry(c) = nextDynamicPort(currentDynamicPortCounter)
      BY <2>3, <1>6, <1>2 DEF PortToTry
    <3> QED BY <3>1, <3>2, <2>1, <1>2, <1>4, <1>6, PortInInterval
  <2> QED BY <2>2, <2>3
<1> QED BY <1>2, <1>5, <1>6

(* What a step that leaves map and listeners alone has to show.            *)
LEMMA StateUnchanged ==
  ASSUME IInv, UNCHANGED <<brokerToListenerConfig, listening, lost>>, TypeOK', DynamicInv'
  PROVE  IInv'
BY DEF IInv, MapsToItsListener, OneListenerPerBroker, IntervalInv, TemplateInv, IsListening

(* A call in flight is for a broker, with an id.                           *)
LEMMA InFlight ==
  ASSUME IInv, NEW c \in Callers, calls[c].at # "idle"
  PROVE  calls[c] \in Call /\ calls[c].addr \in Addrs /\ calls[c].id \in Ids
BY DEF IInv, TypeOK, Idle, Call

(* An entry of the map has a port or is elsewhere; NoConfig has none.      *)
LEMMA Entries ==
  ASSUME IInv, NEW a \in Addrs
  PROVE  /\ NoPort \notin Ports /\ NoConfig.port = NoPort /\ NoConfig.id = UnknownBrokerID
         /\ brokerToListenerConfig[a] \in Config \cup {NoConfig}
         /\ AlreadyMapped(a) => /\ brokerToListenerConfig[a] \in Config
                                /\ brokerToListenerConfig[a].port \in Ports \cup {Elsewhere}
                                /\ brokerToListenerConfig[a].advertised \in Int
         /\ brokerToListenerConfig[a].port \in Ports => AlreadyMapped(a)
<1>1. NoPort \notin Ports /\ NoConfig.port = NoPort /\ NoConfig.id = UnknownBrokerID
  BY ConstAssumption DEF Ports, NoPort, NoConfig
<1>2. brokerToListenerConfig[a] \in Config \cup {NoConfig} BY DEF IInv, TypeOK
<1>3. ASSUME AlreadyMapped(a)
      PROVE  /\ brokerToListenerConfig[a] \in Config
             /\ brokerToListenerConfig[a].port \in Ports \cup {Elsewhere}
             /\ brokerToListenerConfig[a].advertised \in Int
  BY <1>2, <1>3 DEF AlreadyMapped, Config
<1>4. brokerToListenerConfig[a].port \in Ports => AlreadyMapped(a)
  BY <1>1 DEF AlreadyMapped
<1> QED BY <1>1, <1>2, <1>3, <1>4

(* The ways a call returns keep the types and DynamicInv.                  *)
LEMMA Returned ==
  ASSUME IInv, NEW c \in Callers, calls[c].at # "idle",
         \/ ReturnError(c)
         \/ \E p \in Ports \cup {Elsewhere}, v \in Int, n \in Names \cup {NoName} :
              Return(c, p, v, n)
  PROVE  /\ calls' \in [Callers -> Call \cup {Idle}]
         /\ told' \subseteq Answer
         /\ DynamicInv'
<1>1. calls' = [calls EXCEPT ![c] = Idle]
  BY DEF ReturnError, Return
<1>2. calls \in [Callers -> Call \cup {Idle}] /\ told \subseteq Answer
  BY DEF IInv, TypeOK
<1>3. calls' \in [Callers -> Call \cup {Idle}]
  BY <1>1, <1>2
<1>4. DynamicInv'
  BY <1>1, <1>2 DEF IInv, DynamicInv, Idle
<1>5. told' \subseteq Answer
  BY <1>2, InFlight DEF ReturnError, Return, Answer
<1> QED BY <1>3, <1>4, <1>5

LEMMA ReturnedEntry ==
  ASSUME IInv, NEW c \in Callers, calls[c].at # "idle",
         NEW cfg \in Config, ReturnEntry(c, cfg)
  PROVE  /\ calls' \in [Callers -> Call \cup {Idle}]
         /\ told' \subseteq Answer
         /\ DynamicInv'
<1>1. cfg.port \in Ports \cup {Elsewhere} /\ cfg.advertised \in Int
      /\ NoName \in Names \cup {NoName}
  BY DEF Config
<1>2. Return(c, cfg.port, cfg.advertised, NoName) BY DEF ReturnEntry
<1> QED BY <1>1, <1>2, Returned

LEMMA InvAsk ==
  ASSUME IInv, NEW c \in Callers, NEW a \in Addrs, NEW id \in Ids, Ask(c, a, id)
  PROVE  IInv'
<1>1. calls' \in [Callers -> Call \cup {Idle}]
  BY DEF IInv, TypeOK, Ask, Call
<1>2. TypeOK'
  BY <1>1 DEF IInv, TypeOK, Ask, state, network, sni, others
<1>3. DynamicInv'
  BY DEF IInv, TypeOK, DynamicInv, Ask
<1> QED BY <1>2, <1>3, StateUnchanged DEF Ask, state

LEMMA InvLookup ==
  ASSUME IInv, NEW c \in Callers, Lookup(c)
  PROVE  IInv'
<1> DEFINE a == calls[c].addr
<1>1. calls[c].at = "lookup" /\ calls[c] \in Call /\ a \in Addrs
  BY InFlight DEF Lookup
<1>2. /\ calls' \in [Callers -> Call \cup {Idle}]
      /\ told' \subseteq Answer
      /\ DynamicInv'
  <2>1. CASE brokerToListenerConfig[a] # NoConfig
    <3>1. brokerToListenerConfig[a] \in Config
      BY <2>1, <1>1, Entries DEF AlreadyMapped
    <3>2. ReturnEntry(c, brokerToListenerConfig[a])
      BY <2>1 DEF Lookup
    <3> QED BY <1>1, <3>1, <3>2, ReturnedEntry
  <2>2. CASE /\ brokerToListenerConfig[a] = NoConfig
             /\ brokerToSNIMapping[a] # NoName /\ SniPort # NoPort
    <3>1. SniPort \in Ports \cup {Elsewhere} /\ brokerToSNIMapping[a] \in Names \cup {NoName}
          /\ SniPort \in Int
      BY <2>2, <1>1, ConstAssumption DEF IInv, TypeOK, Ports
    <3>2. Return(c, SniPort, SniPort, brokerToSNIMapping[a])
      BY <2>2 DEF Lookup
    <3> QED BY <1>1, <3>1, <3>2, Returned
  <2>3. CASE /\ brokerToListenerConfig[a] = NoConfig
             /\ ~(brokerToSNIMapping[a] # NoName /\ SniPort # NoPort)
    <3>1. CASE DynamicDisabled
      BY <3>1, <2>3, <1>1, Returned DEF Lookup
    <3>2. CASE ~DynamicDisabled
      <4>1. calls' = [calls EXCEPT ![c].at = "dynamic"] /\ told' = told
        BY <3>2, <2>3 DEF Lookup
      <4>2. calls' \in [Callers -> Call \cup {Idle}]
        BY <4>1, <1>1 DEF IInv, TypeOK, Call
      <4>3. DynamicInv'
        BY <3>2 DEF DynamicInv
      <4> QED BY <4>1, <4>2, <4>3 DEF IInv, TypeOK
    <3> QED BY <3>1, <3>2
  <2> QED BY <2>1, <2>2, <2>3
<1>3. TypeOK'
  BY <1>2 DEF IInv, TypeOK, Lookup, state, network, sni, others
<1> QED BY <1>2, <1>3, StateUnchanged DEF Lookup, state

LEMMA InvDoubleCheck ==
  ASSUME IInv, NEW c \in Callers, DoubleCheck(c)
  PROVE  IInv'
<1>1. calls[c].at # "idle" /\ brokerToListenerConfig[calls[c].addr] \in Config
  BY InFlight, Entries DEF DoubleCheck
<1>2. /\ calls' \in [Callers -> Call \cup {Idle}]
      /\ told' \subseteq Answer
      /\ DynamicInv'
  BY <1>1, ReturnedEntry DEF DoubleCheck
<1>3. TypeOK'
  BY <1>2 DEF IInv, TypeOK, DoubleCheck, state, network, sni, others
<1> QED BY <1>2, <1>3, StateUnchanged DEF DoubleCheck, state

LEMMA InvNoPortForBroker ==
  ASSUME IInv, NEW c \in Callers, NoPortForBroker(c)
  PROVE  IInv'
<1>1. /\ calls' \in [Callers -> Call \cup {Idle}]
      /\ told' \subseteq Answer
      /\ DynamicInv'
  BY Returned DEF NoPortForBroker
<1>2. TypeOK'
  BY <1>1 DEF IInv, TypeOK, NoPortForBroker, state, network, sni, others
<1> QED BY <1>1, <1>2, StateUnchanged DEF NoPortForBroker, state

(* What the move of the entry at b to a does: a was not mapped, b has a    *)
(* port, and the accept loop is re-pointed if it is still the one of b.    *)
LEMMA WhatMoves ==
  ASSUME IInv, NEW c \in Callers, MoveListener(c)
  PROVE  \E b \in Addrs :
    LET a == calls[c].addr
        p == brokerToListenerConfig[b].port
    IN  /\ a \in Addrs /\ ~AlreadyMapped(a) /\ a # b /\ Deterministic /\ ~TemplateFails
        /\ p \in Ports /\ InInterval(p) /\ brokerToListenerConfig[b] \in Config
        /\ brokerToListenerConfig'[a] = brokerToListenerConfig[b]
        /\ brokerToListenerConfig'[b] = NoConfig
        /\ \A x \in Addrs : x # a /\ x # b =>
             brokerToListenerConfig'[x] = brokerToListenerConfig[x]
        /\ brokerToListenerConfig' \in [Addrs -> Config \cup {NoConfig}]
        /\ listening' \in [Ports -> Addrs \cup {NoAddr}]
        /\ listening'[p] = (IF listening[p] = b THEN a ELSE listening[p])
        /\ \A q \in Ports : q # p => listening'[q] = listening[q]
        /\ lost' \subseteq Addrs
        /\ a \in lost' <=> b \in lost
        /\ b \notin lost'
        /\ \A x \in Addrs : x # a /\ x # b => (x \in lost' <=> x \in lost)
        /\ ReturnEntry(c, brokerToListenerConfig[b])
<1> DEFINE a == calls[c].addr
<1>1. /\ a \in Addrs /\ calls[c].id \in Ids /\ calls[c].id >= 0
      /\ ~AlreadyMapped(a) /\ Deterministic
  BY InFlight DEF MoveListener
<1>2. PICK b \in findListenerConfig(calls[c].id) :
        SetBrokerAddress(b, a) /\ ReturnEntry(c, brokerToListenerConfig[b])
  BY DEF MoveListener
<1> DEFINE p == brokerToListenerConfig[b].port
<1>3. b \in Addrs /\ AlreadyMapped(b) /\ brokerToListenerConfig[b].id = calls[c].id
  BY DEF findListenerConfig
<1>4. a # b BY <1>1, <1>3
<1>5. brokerToListenerConfig[b].id # UnknownBrokerID
  BY <1>1, <1>3, ConstAssumption DEF UnknownBrokerID
<1>6. p \in Ports /\ InInterval(p) /\ brokerToListenerConfig[b] \in Config
  BY <1>3, <1>5, Entries DEF IInv, IntervalInv
<1>7. /\ brokerToListenerConfig \in [Addrs -> Config \cup {NoConfig}]
      /\ listening \in [Ports -> Addrs \cup {NoAddr}] /\ lost \subseteq Addrs
  BY DEF IInv, TypeOK
<1>8. /\ brokerToListenerConfig' =
           [brokerToListenerConfig EXCEPT ![b] = NoConfig, ![a] = brokerToListenerConfig[b]]
      /\ listening' = [listening EXCEPT ![p] = IF listening[p] = b THEN a ELSE @]
      /\ lost' = {IF x = b THEN a ELSE x : x \in lost}
  BY <1>2 DEF SetBrokerAddress, Moved
<1>9. /\ brokerToListenerConfig'[a] = brokerToListenerConfig[b]
      /\ brokerToListenerConfig'[b] = NoConfig
      /\ \A x \in Addrs : x # a /\ x # b =>
           brokerToListenerConfig'[x] = brokerToListenerConfig[x]
      /\ brokerToListenerConfig' \in [Addrs -> Config \cup {NoConfig}]
  BY <1>1, <1>3, <1>4, <1>6, <1>7, <1>8
<1>10. /\ listening' \in [Ports -> Addrs \cup {NoAddr}]
       /\ listening'[p] = (IF listening[p] = b THEN a ELSE listening[p])
       /\ \A q \in Ports : q # p => listening'[q] = listening[q]
  BY <1>1, <1>6, <1>7, <1>8
<1>11. a \notin lost
  <2>1. brokerToListenerConfig[a].port \notin Ports BY <1>1, Entries
  <2> QED BY <2>1 DEF IInv, MapsToItsListener
<1>12. /\ lost' \subseteq Addrs /\ (a \in lost' <=> b \in lost) /\ b \notin lost'
       /\ \A x \in Addrs : x # a /\ x # b => (x \in lost' <=> x \in lost)
  BY <1>1, <1>4, <1>7, <1>8, <1>11
<1>13. ~TemplateFails
  BY <1>3, <1>5, ConstAssumption DEF IInv, TemplateInv
<1> QED BY <1>1, <1>2, <1>3, <1>4, <1>6, <1>9, <1>10, <1>12, <1>13

LEMMA InvMoveListener ==
  ASSUME IInv, NEW c \in Callers, MoveListener(c)
  PROVE  IInv'
<1> DEFINE a == calls[c].addr
<1>1. PICK b \in Addrs :
        LET p == brokerToListenerConfig[b].port
        IN  /\ a \in Addrs /\ ~AlreadyMapped(a) /\ a # b /\ Deterministic /\ ~TemplateFails
            /\ p \in Ports /\ InInterval(p) /\ brokerToListenerConfig[b] \in Config
            /\ brokerToListenerConfig'[a] = brokerToListenerConfig[b]
            /\ brokerToListenerConfig'[b] = NoConfig
            /\ \A x \in Addrs : x # a /\ x # b =>
                 brokerToListenerConfig'[x] = brokerToListenerConfig[x]
            /\ brokerToListenerConfig' \in [Addrs -> Config \cup {NoConfig}]
            /\ listening' \in [Ports -> Addrs \cup {NoAddr}]
            /\ listening'[p] = (IF listening[p] = b THEN a ELSE listening[p])
            /\ \A q \in Ports : q # p => listening'[q] = listening[q]
            /\ lost' \subseteq Addrs
            /\ a \in lost' <=> b \in lost
            /\ b \notin lost'
            /\ \A x \in Addrs : x # a /\ x # b => (x \in lost' <=> x \in lost)
            /\ ReturnEntry(c, brokerToListenerConfig[b])
  BY WhatMoves
<1> DEFINE p == brokerToListenerConfig[b].port
<1>2. NoPort \notin Ports /\ NoConfig.port = NoPort /\ NoConfig.id = UnknownBrokerID
      /\ brokerToListenerConfig[a].port \notin Ports
  BY <1>1, Entries
<1>3. /\ calls' \in [Callers -> Call \cup {Idle}]
      /\ told' \subseteq Answer
      /\ DynamicInv'
  <2>1. calls[c].at # "idle" BY DEF MoveListener
  <2> QED BY <1>1, <2>1, ReturnedEntry
<1>4. TypeOK'
  BY <1>1, <1>3 DEF IInv, TypeOK, MoveListener, network, sni, others
<1>5. listening[p] = b <=> b \notin lost
  BY <1>1 DEF IInv, MapsToItsListener
<1>6. NoAddr \notin Addrs BY ConstAssumption
<1>7. ASSUME NEW x \in Addrs, brokerToListenerConfig'[x].port \in Ports
      PROVE  listening'[brokerToListenerConfig'[x].port] = x <=> x \notin lost'
  <2>1. CASE x = a
    <3>1. listening[p] # a
      BY <1>1, <1>2, <1>6 DEF IInv, OneListenerPerBroker, IsListening
    <3> QED BY <2>1, <3>1, <1>1, <1>5
  <2>2. CASE x = b BY <2>2, <1>1, <1>2, <1>7
  <2>3. CASE x # a /\ x # b
    <3>1. brokerToListenerConfig'[x] = brokerToListenerConfig[x] /\ (x \in lost' <=> x \in lost)
      BY <2>3, <1>1
    <3>2. listening[brokerToListenerConfig[x].port] = x <=> x \notin lost
      BY <3>1, <1>7 DEF IInv, MapsToItsListener
    <3> QED BY <2>3, <3>1, <3>2, <1>1, <1>7
  <2> QED BY <2>1, <2>2, <2>3
<1>8. ASSUME NEW x \in lost' PROVE brokerToListenerConfig'[x].port \in Ports
  BY <1>1, <1>8 DEF IInv, MapsToItsListener
<1>9. MapsToItsListener' BY <1>7, <1>8 DEF MapsToItsListener
<1>10. OneListenerPerBroker'
  <2> SUFFICES ASSUME ~TemplateFails, NEW q \in Ports, listening'[q] # NoAddr
               PROVE  brokerToListenerConfig'[listening'[q]].port = q
    BY DEF OneListenerPerBroker, IsListening
  <2>1. CASE q = p /\ listening[p] = b
    BY <2>1, <1>1
  <2>2. CASE ~(q = p /\ listening[p] = b)
    <3> DEFINE y == listening[q]
    <3>1. listening'[q] = y BY <2>2, <1>1
    <3>2. y \in Addrs /\ brokerToListenerConfig[y].port = q
      BY <3>1 DEF IInv, TypeOK, OneListenerPerBroker, IsListening
    <3>3. y # a /\ y # b BY <2>2, <3>2, <1>2
    <3> QED BY <3>1, <3>2, <3>3, <1>1
  <2> QED BY <2>1, <2>2
<1>11. IntervalInv'
  <2>1. ASSUME NEW q \in Ports, listening'[q] # NoAddr
        PROVE  Static[listening'[q]].port = q \/ InInterval(q)
    <3>1. CASE q = p BY <3>1, <1>1
    <3>2. CASE q # p BY <2>1, <3>2, <1>1 DEF IInv, IntervalInv, IsListening
    <3> QED BY <3>1, <3>2
  <2>2. ASSUME NEW x \in Addrs, brokerToListenerConfig'[x].id # UnknownBrokerID
        PROVE  brokerToListenerConfig'[x].port \in Ports
               /\ InInterval(brokerToListenerConfig'[x].port)
    BY <2>2, <1>1, <1>2 DEF IInv, IntervalInv
  <2> QED BY <2>1, <2>2 DEF IntervalInv, IsListening, InInterval
<1>12. TemplateInv' BY <1>1 DEF TemplateInv
<1> QED BY <1>3, <1>4, <1>9, <1>10, <1>11, <1>12 DEF IInv

(* The counter stays a number: it is reduced by a divisor that is not zero *)
(* wherever sequential ports are in use.                                   *)
LEMMA Counted ==
  ASSUME IInv, NEW c \in Callers, NeedsListener(c), CountAttempt
  PROVE  currentDynamicPortCounter' \in Nat
<1>1. currentDynamicPortCounter \in Nat /\ MinPort \in Nat /\ MaxPorts \in Nat
  BY ConstAssumption DEF IInv, TypeOK
<1>2. CASE MinPort = 0
  BY <1>1, <1>2 DEF CountAttempt
<1>3. CASE MinPort # 0
  <2>1. MaxPorts # 0
    BY <1>1, <1>3, TriedPort
  <2> QED BY <1>1, <2>1 DEF CountAttempt
<1> QED BY <1>2, <1>3

LEMMA InvListenFails ==
  ASSUME IInv, NEW c \in Callers, ListenFails(c)
  PROVE  IInv'
<1>1. NeedsListener(c) /\ CountAttempt /\ calls[c].at = "dynamic"
  BY DEF ListenFails, NeedsListener
<1>2. /\ calls' \in [Callers -> Call \cup {Idle}]
      /\ told' \subseteq Answer
      /\ DynamicInv'
  BY <1>1, Returned DEF ListenFails
<1>3. TypeOK'
  BY <1>1, <1>2, Counted DEF IInv, TypeOK, ListenFails, network, sni, others
<1> QED BY <1>2, <1>3, StateUnchanged DEF ListenFails

(* What a new listener does: its broker was not mapped, its port was free. *)
LEMMA WhatListens ==
  ASSUME IInv, NEW c \in Callers, Listen(c)
  PROVE  \E p \in Ports, cfg \in Config :
    LET a == calls[c].addr
    IN  /\ a \in Addrs /\ ~AlreadyMapped(a) /\ calls[c].at = "dynamic" /\ NeedsListener(c)
        /\ InInterval(p) /\ listening[p] = NoAddr
        /\ cfg.port = p
        /\ listening'[p] = a
        /\ \A q \in Ports : q # p => listening'[q] = listening[q]
        /\ listening' \in [Ports -> Addrs \cup {NoAddr}]
        /\ lost' = lost
        /\ brokerToListenerConfig' \in [Addrs -> Config \cup {NoConfig}]
        /\ \A x \in Addrs : x # a => brokerToListenerConfig'[x] = brokerToListenerConfig[x]
        /\ \/ /\ TemplateFails /\ ReturnError(c)
              /\ brokerToListenerConfig' = brokerToListenerConfig
           \/ /\ ~TemplateFails /\ ReturnEntry(c, cfg)
              /\ brokerToListenerConfig'[a] = cfg
<1> DEFINE a  == calls[c].addr
           id == calls[c].id
           new(p) == [port |-> p, id |-> id, advertised |-> getDynamicAdvertisedAddress(id, p)]
<1>1. NeedsListener(c) /\ calls[c].at = "dynamic" /\ a \in Addrs /\ id \in Ids
      /\ ~AlreadyMapped(a)
  BY InFlight DEF Listen, NeedsListener
<1>2. PICK p \in (IF PortToTry(c) = NoPort THEN Ephemeral ELSE {PortToTry(c)}) :
        /\ Free(p)
        /\ listening' = [listening EXCEPT ![p] = a]
        /\ IF TemplateFails
           THEN ReturnError(c) /\ UNCHANGED brokerToListenerConfig
           ELSE /\ brokerToListenerConfig' = [brokerToListenerConfig EXCEPT ![a] = new(p)]
                /\ ReturnEntry(c, new(p))
  BY DEF Listen
<1>3. p \in Ports /\ InInterval(p)
  <2>1. MinPort \in Nat /\ Ephemeral \subseteq Ports
    BY ConstAssumption
  <2>2. CASE MinPort = 0
    BY <2>1, <2>2, <1>1, <1>2, TriedPort DEF InInterval
  <2>3. CASE MinPort > 0
    <3>1. PortToTry(c) \in Ports /\ PortToTry(c) >= MinPort /\ PortToTry(c) < MinPort + MaxPorts
      BY <2>3, <1>1, TriedPort
    <3>2. PortToTry(c) # NoPort
      BY <3>1, ConstAssumption DEF Ports, NoPort
    <3> QED BY <3>1, <3>2, <1>2 DEF InInterval
  <2> QED BY <2>1, <2>2, <2>3
<1>4. listening[p] = NoAddr
  BY <1>2 DEF Free, IsListening
<1>5. /\ brokerToListenerConfig \in [Addrs -> Config \cup {NoConfig}]
      /\ listening \in [Ports -> Addrs \cup {NoAddr}]
  BY DEF IInv, TypeOK
<1>6. new(p) \in Config /\ new(p).port = p
  <2>1. getDynamicAdvertisedAddress(id, p) \in Int
    <3>1. TemplatePort[id] \in Int BY <1>1, ConstAssumption
    <3>2. p \in Int BY <1>3, ConstAssumption DEF Ports
    <3> QED BY <3>1, <3>2 DEF getDynamicAdvertisedAddress
  <2> QED BY <1>1, <1>3, <2>1 DEF Config
<1>7. /\ listening'[p] = a
      /\ \A q \in Ports : q # p => listening'[q] = listening[q]
      /\ listening' \in [Ports -> Addrs \cup {NoAddr}]
  BY <1>1, <1>2, <1>3, <1>5
<1> HIDE DEF new
<1>8. /\ brokerToListenerConfig' \in [Addrs -> Config \cup {NoConfig}]
      /\ \A x \in Addrs : x # a => brokerToListenerConfig'[x] = brokerToListenerConfig[x]
      /\ \/ /\ TemplateFails /\ ReturnError(c)
            /\ brokerToListenerConfig' = brokerToListenerConfig
         \/ /\ ~TemplateFails /\ ReturnEntry(c, new(p))
            /\ brokerToListenerConfig'[a] = new(p)
  BY <1>1, <1>2, <1>5, <1>6
<1>9. lost' = lost BY DEF Listen
<1> QED BY <1>1, <1>3, <1>4, <1>6, <1>7, <1>8, <1>9

(* Its port was free, so every entry that leads there has lost its own     *)
(* accept loop; its broker was not mapped, so no other listener is for it. *)
LEMMA InvListen ==
  ASSUME IInv, NEW c \in Callers, Listen(c)
  PROVE  IInv'
<1> DEFINE a == calls[c].addr
<1>1. PICK p \in Ports, cfg \in Config :
        /\ a \in Addrs /\ ~AlreadyMapped(a) /\ calls[c].at = "dynamic" /\ NeedsListener(c)
        /\ InInterval(p) /\ listening[p] = NoAddr
        /\ cfg.port = p
        /\ listening'[p] = a
        /\ \A q \in Ports : q # p => listening'[q] = listening[q]
        /\ listening' \in [Ports -> Addrs \cup {NoAddr}]
        /\ lost' = lost
        /\ brokerToListenerConfig' \in [Addrs -> Config \cup {NoConfig}]
        /\ \A x \in Addrs : x # a => brokerToListenerConfig'[x] = brokerToListenerConfig[x]
        /\ \/ /\ TemplateFails /\ ReturnError(c)
              /\ brokerToListenerConfig' = brokerToListenerConfig
           \/ /\ ~TemplateFails /\ ReturnEntry(c, cfg)
              /\ brokerToListenerConfig'[a] = cfg
  BY WhatListens
<1>2. brokerToListenerConfig[a].port \notin Ports /\ NoAddr \notin Addrs
      /\ brokerToListenerConfig[a] = NoConfig /\ NoConfig.id = UnknownBrokerID
  BY <1>1, Entries, ConstAssumption DEF AlreadyMapped
<1>3. /\ calls' \in [Callers -> Call \cup {Idle}]
      /\ told' \subseteq Answer
      /\ DynamicInv'
  BY <1>1, Returned, ReturnedEntry
<1>4. TypeOK'
  <2>1. currentDynamicPortCounter' \in Nat
    BY <1>1, Counted DEF Listen
  <2> QED BY <2>1, <1>1, <1>3 DEF IInv, TypeOK, Listen, network, sni, others
<1>5. a \notin lost BY <1>2 DEF IInv, MapsToItsListener
<1>6. ASSUME NEW x \in Addrs, brokerToListenerConfig'[x].port \in Ports
      PROVE  listening'[brokerToListenerConfig'[x].port] = x <=> x \notin lost'
  <2>1. CASE x = a
    BY <2>1, <1>1, <1>2, <1>5, <1>6
  <2>2. CASE x # a
    <3> DEFINE q == brokerToListenerConfig[x].port
    <3>1. brokerToListenerConfig'[x].port = q /\ q \in Ports BY <2>2, <1>1, <1>6
    <3>2. listening[q] = x <=> x \notin lost BY <3>1 DEF IInv, MapsToItsListener
    <3>3. listening'[q] = x <=> listening[q] = x
      BY <2>2, <3>1, <1>1, <1>2
    <3> QED BY <3>1, <3>2, <3>3, <1>1
  <2> QED BY <2>1, <2>2
<1>7. ASSUME NEW x \in lost' PROVE brokerToListenerConfig'[x].port \in Ports
  BY <1>1, <1>5, <1>7 DEF IInv, TypeOK, MapsToItsListener
<1>8. MapsToItsListener' BY <1>6, <1>7 DEF MapsToItsListener
<1>9. OneListenerPerBroker'
  <2> SUFFICES ASSUME ~TemplateFails, NEW q \in Ports, listening'[q] # NoAddr
               PROVE  brokerToListenerConfig'[listening'[q]].port = q
    BY DEF OneListenerPerBroker, IsListening
  <2>1. CASE q = p
    BY <2>1, <1>1
  <2>2. CASE q # p
    <3> DEFINE y == listening[q]
    <3>1. listening'[q] = y /\ y \in Addrs /\ brokerToListenerConfig[y].port = q
      BY <2>2, <1>1 DEF IInv, TypeOK, OneListenerPerBroker, IsListening
    <3>2. y # a BY <3>1, <1>2
    <3> QED BY <3>1, <3>2, <1>1
  <2> QED BY <2>1, <2>2
<1>10. IntervalInv'
  <2>1. ASSUME NEW q \in Ports, listening'[q] # NoAddr
        PROVE  Static[listening'[q]].port = q \/ InInterval(q)
    <3>1. CASE q = p BY <3>1, <1>1
    <3>2. CASE q # p BY <2>1, <3>2, <1>1 DEF IInv, IntervalInv, IsListening
    <3> QED BY <3>1, <3>2
  <2>2. ASSUME NEW x \in Addrs, brokerToListenerConfig'[x].id # UnknownBrokerID
        PROVE  brokerToListenerConfig'[x].port \in Ports
               /\ InInterval(brokerToListenerConfig'[x].port)
    <3>1. CASE x = a BY <2>2, <3>1, <1>1, <1>2
    <3>2. CASE x # a BY <2>2, <3>2, <1>1 DEF IInv, IntervalInv
    <3> QED BY <3>1, <3>2
  <2> QED BY <2>1, <2>2 DEF IntervalInv, IsListening, InInterval
<1>11. TemplateInv' BY <1>1 DEF IInv, TemplateInv
<1> QED BY <1>3, <1>4, <1>8, <1>9, <1>10, <1>11 DEF IInv

(* An accept loop ends: the one entry that led to its listener is lost.    *)
LEMMA InvAcceptFails ==
  ASSUME IInv, NEW p \in Ports, AcceptFails(p)
  PROVE  IInv'
<1> DEFINE a == listening[p]
<1>1. a \in Addrs /\ NoAddr \notin Addrs
  BY ConstAssumption DEF IInv, TypeOK, AcceptFails, IsListening
<1>2. /\ listening' = [listening EXCEPT ![p] = NoAddr]
      /\ lost' = lost \cup {x \in {a} : brokerToListenerConfig[x].port = p}
      /\ brokerToListenerConfig' = brokerToListenerConfig
  BY DEF AcceptFails
<1>3. /\ listening'[p] = NoAddr /\ listening' \in [Ports -> Addrs \cup {NoAddr}]
      /\ \A q \in Ports : q # p => listening'[q] = listening[q]
  BY <1>2 DEF IInv, TypeOK
<1>4. TypeOK' /\ DynamicInv'
  BY <1>1, <1>2, <1>3 DEF IInv, TypeOK, DynamicInv, AcceptFails, network, sni, others
<1>5. ASSUME NEW x \in Addrs, brokerToListenerConfig[x].port \in Ports
      PROVE  listening'[brokerToListenerConfig[x].port] = x <=> x \notin lost'
  <2> DEFINE q == brokerToListenerConfig[x].port
  <2>1. listening[q] = x <=> x \notin lost BY <1>5 DEF IInv, MapsToItsListener
  <2>2. CASE q = p BY <2>1, <2>2, <1>1, <1>2, <1>3
  <2>3. CASE q # p BY <2>1, <2>3, <1>2, <1>3, <1>5
  <2> QED BY <2>2, <2>3
<1>6. MapsToItsListener'
  BY <1>2, <1>5 DEF IInv, MapsToItsListener
<1>7. OneListenerPerBroker' /\ IntervalInv' /\ TemplateInv'
  BY <1>2, <1>3 DEF IInv, OneListenerPerBroker, IntervalInv, TemplateInv, IsListening
<1> QED BY <1>4, <1>6, <1>7 DEF IInv

(* The other steps of accept loops, SNI and Client.Run leave the listeners *)
(* alone.                                                                  *)
LEMMA InvAccept ==
  ASSUME IInv, NEW p \in Ports, Accept(p)
  PROVE  IInv'
<1>1. listening[p] \in Addrs
  BY DEF IInv, TypeOK, Accept, IsListening
<1>2. TypeOK' /\ DynamicInv'
  BY <1>1 DEF IInv, TypeOK, DynamicInv, Accept, state, sni, others
<1> QED BY <1>2, StateUnchanged DEF Accept, state

LEMMA InvHandOver ==
  ASSUME IInv, NEW p \in Ports, HandOver(p)
  PROVE  IInv'
<1> DEFINE conn == [addr |-> accepting[p], port |-> p, sni |-> FALSE, name |-> NoName]
<1>1. conn \in Conn /\ connSrc' = Append(connSrc, conn) /\ Len(connSrc) < ConnSrcCap
  BY DEF IInv, TypeOK, HandOver, Conn
<1> HIDE DEF conn
<1>2. connSrc' \in Seq(Conn) /\ Len(connSrc') <= ConnSrcCap
  BY <1>1, ConstAssumption DEF IInv, TypeOK
<1>3. TypeOK' /\ DynamicInv'
  BY <1>2 DEF IInv, TypeOK, DynamicInv, HandOver, state, sni, others
<1> QED BY <1>3, StateUnchanged DEF HandOver, state

LEMMA InvAcceptSNI ==
  ASSUME IInv, AcceptSNI
  PROVE  IInv'
<1>1. sniListening' \in BOOLEAN
  <2>1. sniListening' = sniListening \/ sniListening' = FALSE BY DEF AcceptSNI
  <2>2. sniListening \in BOOLEAN BY DEF IInv, TypeOK
  <2> QED BY <2>1, <2>2, Zenon
<1>2. handshakes' \in Nat /\ SniPort \in Ports
  <2>1. sniListening /\ (sniListening \/ handshakes > 0 => SniPort \in Ports)
    BY DEF IInv, TypeOK, AcceptSNI
  <2>2. SniPort \in Ports BY <2>1, Zenon
  <2>3. handshakes' = handshakes + 1 \/ handshakes' = handshakes BY DEF AcceptSNI
  <2>4. handshakes \in Nat BY DEF IInv, TypeOK
  <2> QED BY <2>2, <2>3, <2>4
<1>3. TypeOK' /\ DynamicInv'
  BY <1>1, <1>2 DEF IInv, TypeOK, DynamicInv, AcceptSNI, state, others
<1> QED BY <1>3, StateUnchanged DEF AcceptSNI, state

LEMMA InvHandleSNIConnection ==
  ASSUME IInv, NEW name \in Names \cup {NoName}, NEW cn \in Names \cup {NoName},
         HandleSNIConnection(name, cn)
  PROVE  IInv'
<1> DEFINE conn == [addr |-> SniTarget(name, cn), port |-> SniPort, sni |-> TRUE, name |-> name]
<1>1. handshakes \in Nat /\ handshakes > 0 /\ SniPort \in Ports
  BY DEF IInv, TypeOK, HandleSNIConnection
<1>2. connSrc' \in Seq(Conn) /\ Len(connSrc') <= ConnSrcCap
  <2>1. CASE SniTarget(name, cn) = NoAddr
    BY <2>1 DEF IInv, TypeOK, HandleSNIConnection
  <2>2. CASE SniTarget(name, cn) # NoAddr
    <3>1. SniTarget(name, cn) \in Addrs
      BY <2>2, ConstAssumption DEF SniTarget
    <3>2. conn \in Conn /\ connSrc' = Append(connSrc, conn) /\ Len(connSrc) < ConnSrcCap
      BY <2>2, <3>1, <1>1 DEF HandleSNIConnection, Conn
    <3> HIDE DEF conn
    <3> QED BY <3>2, ConstAssumption DEF IInv, TypeOK
  <2> QED BY <2>1, <2>2
<1>3. handshakes' \in Nat BY <1>1 DEF HandleSNIConnection
<1>4. TypeOK' /\ DynamicInv'
  BY <1>1, <1>2, <1>3 DEF IInv, TypeOK, DynamicInv, HandleSNIConnection, state, others
<1> QED BY <1>4, StateUnchanged DEF HandleSNIConnection, state

LEMMA InvTake ==
  ASSUME IInv, Take
  PROVE  IInv'
<1>1. connSrc' \in Seq(Conn) /\ Len(connSrc') <= ConnSrcCap
  BY ConstAssumption DEF IInv, TypeOK, Take
<1>2. TypeOK' /\ DynamicInv'
  BY <1>1 DEF IInv, TypeOK, DynamicInv, Take, state, sni, others
<1> QED BY <1>2, StateUnchanged DEF Take, state

LEMMA InvForeignMove ==
  ASSUME IInv, NEW p \in Ports, ForeignMove(p)
  PROVE  IInv'
<1>1. TypeOK' /\ DynamicInv'
  BY DEF IInv, TypeOK, DynamicInv, ForeignMove, state, network, sni
<1> QED BY <1>1, StateUnchanged DEF ForeignMove, state

-----------------------------------------------------------------------------
LEMMA InvInit == Init => IInv
<1> SUFFICES ASSUME Init PROVE IInv
  OBVIOUS
<1>1. /\ NoAddr \notin Addrs
      /\ \A a, b \in Addrs : Static[a].port \in Ports /\ Static[a].port = Static[b].port => a = b
      /\ \A a \in Addrs : Static[a].id = UnknownBrokerID
  BY ConstAssumption
<1> DEFINE owner(p) == CHOOSE a \in Addrs : Static[a].port = p
<1>2. \A p \in Ports : IF \E a \in Addrs : Static[a].port = p
                       THEN /\ owner(p) \in Addrs /\ Static[owner(p)].port = p
                            /\ listening[p] = owner(p)
                       ELSE listening[p] = NoAddr
  BY DEF Init
<1> HIDE DEF owner
<1>3. listening \in [Ports -> Addrs \cup {NoAddr}]
  <2>1. ASSUME NEW p \in Ports PROVE listening[p] \in Addrs \cup {NoAddr}
    BY <1>2
  <2>2. listening = [p \in Ports |-> listening[p]]
    BY DEF Init
  <2> QED BY <2>1, <2>2
<1>4. TypeOK
  <2>1. connSrc \in Seq(Conn) /\ Len(connSrc) <= ConnSrcCap
    BY ConstAssumption DEF Init
  <2>2. foreign \subseteq Ports
    BY ConstAssumption DEF Init
  <2>3. sniListening \in BOOLEAN /\ handshakes \in Nat
    <3>1. sniListening = (SniPort # NoPort) BY DEF Init
    <3>2. sniListening \in BOOLEAN BY <3>1, Zenon
    <3> QED BY <3>2 DEF Init
  <2>4. sniListening \/ handshakes > 0 => SniPort \in Ports
    <3>1. handshakes = 0 /\ (sniListening => SniPort # NoPort) BY DEF Init
    <3> QED BY <3>1, ConstAssumption
  <2>5. /\ brokerToListenerConfig \in [Addrs -> Config \cup {NoConfig}]
        /\ lost \subseteq Addrs
        /\ brokerToSNIMapping \in [Addrs -> Names \cup {NoName}]
        /\ currentDynamicPortCounter \in Nat
        /\ calls \in [Callers -> Call \cup {Idle}]
        /\ told \subseteq Answer
        /\ accepting \in [Ports -> Addrs \cup {NoAddr}]
        /\ foreignMoves \in Nat
    BY ConstAssumption DEF Init
  <2> QED BY <1>3, <2>1, <2>2, <2>3, <2>4, <2>5 DEF TypeOK
<1>5. MapsToItsListener
  <2>1. ASSUME NEW a \in Addrs, Static[a].port \in Ports
        PROVE  listening[Static[a].port] = a
    BY <2>1, <1>1, <1>2
  <2> QED BY <2>1 DEF Init, MapsToItsListener
<1>6. \A p \in Ports : listening[p] # NoAddr => Static[listening[p]].port = p
  BY <1>1, <1>2
<1>7. OneListenerPerBroker
  BY <1>6 DEF Init, OneListenerPerBroker, IsListening
<1>8. DynamicInv
  BY DEF Init, DynamicInv, Idle
<1>9. IntervalInv
  BY <1>1, <1>6 DEF Init, IntervalInv, IsListening
<1>10. TemplateInv BY DEF Init, TemplateInv
<1> QED BY <1>4, <1>5, <1>7, <1>8, <1>9, <1>10 DEF IInv

LEMMA InvNext == IInv /\ [Next]_vars => IInv'
<1> SUFFICES ASSUME IInv, [Next]_vars PROVE IInv'
  OBVIOUS
<1>1. CASE Next
  <2>1. ASSUME NEW c \in Callers,
               \/ \E a \in Addrs, id \in Ids : Ask(c, a, id)
               \/ Lookup(c) \/ DoubleCheck(c) \/ NoPortForBroker(c)
               \/ MoveListener(c) \/ Listen(c) \/ ListenFails(c)
        PROVE  IInv'
    BY <2>1, InvAsk, InvLookup, InvDoubleCheck, InvNoPortForBroker,
       InvMoveListener, InvListen, InvListenFails
  <2>2. ASSUME NEW p \in Ports, Accept(p) \/ AcceptFails(p) \/ HandOver(p) \/ ForeignMove(p)
        PROVE  IInv'
    BY <2>2, InvAccept, InvAcceptFails, InvHandOver, InvForeignMove
  <2> QED BY <1>1, <2>1, <2>2, InvAcceptSNI, InvHandleSNIConnection, InvTake DEF Next
<1>2. CASE UNCHANGED vars
  <2>1. TypeOK' /\ DynamicInv'
    BY <1>2 DEF IInv, TypeOK, DynamicInv, vars, state, network, sni, others
  <2> QED BY <1>2, <2>1, StateUnchanged DEF vars, state
<1> QED BY <1>1, <1>2

LEMMA InvAlways == Spec => []IInv
BY InvInit, InvNext, PTL DEF Spec

(* The maps, the answers and the channel keep their types, so ports stay   *)
(* uint16 and connSrc within its capacity.                                 *)
THEOREM ListenersTypeCorrect == Spec => []TypeOK
<1>1. IInv => TypeOK
  BY DEF IInv
<1> QED BY <1>1, InvAlways, PTL

(* The listener a broker is mapped to (GetNetAddressMapping) is bound and  *)
(* leads to that broker exactly as long as its accept loop has not ended   *)
(* (proxy.go:399), however lookups, moves, new listeners and ending loops  *)
(* of any number of callers interleave: nothing else loses a listener, and *)
(* nothing brings a lost one back.                                         *)
THEOREM MappedToItsListener == Spec => []MapsToItsListener
<1>1. IInv => MapsToItsListener
  BY DEF IInv
<1> QED BY <1>1, InvAlways, PTL

(* The double check of ListenDynamicInstance suffices: a broker never has  *)
(* two listeners, and no listener is forgotten.                            *)
THEOREM OneListenerEach == Spec => []OneListenerPerBroker
<1>1. IInv => OneListenerPerBroker
  BY DEF IInv
<1> QED BY <1>1, InvAlways, PTL

(* For every minimum and maximum nextDynamicPort keeps dynamic ports in    *)
(* the documented interval.                                                *)
THEOREM DynamicPortsInInterval == Spec => []PortsInInterval
<1>1. IInv => PortsInInterval
  BY DEF IInv, IntervalInv, InInterval, PortsInInterval
<1> QED BY <1>1, InvAlways, PTL

-----------------------------------------------------------------------------
(* What any step does to the listeners and to what clients were told.      *)

(* An answer is new only if it is what the map says, or a name of the SNI  *)
(* listener.                                                               *)
NewAnswersFit ==
  \A t \in told' : t \notin told =>
    \/ /\ t.name = NoName /\ brokerToListenerConfig'[t.addr].port = t.port
       /\ brokerToListenerConfig'[t.addr].advertised = t.advertised
    \/ t.name = brokerToSNIMapping[t.addr] /\ t.name # NoName

(* An entry stays, though perhaps for another address of its broker.       *)
EntriesStay ==
  \A b \in Addrs : AlreadyMapped(b) =>
    \E a \in Addrs : /\ brokerToListenerConfig'[a] = brokerToListenerConfig[b]
                     /\ ~Deterministic => a = b

(* A listener is bound or moved only for a broker the caller is told of.   *)
NewListenersTold ==
  \A p \in Ports :
    listening'[p] # listening[p] /\ listening'[p] # NoAddr =>
      TemplateFails \/ \E t \in told' : t.addr = listening'[p] /\ t.port = p /\ t.name = NoName

Grows ==
  /\ told \subseteq told' /\ UNCHANGED brokerToSNIMapping
  /\ NewAnswersFit /\ EntriesStay /\ NewListenersTold

(* The answer of a call.                                                   *)
LEMMA Answered ==
  ASSUME NEW c \in Callers, NEW port, NEW adv, NEW name, Return(c, port, adv, name)
  PROVE  /\ told \subseteq told'
         /\ \A t \in told' : t \notin told =>
              /\ t.addr = calls[c].addr /\ t.port = port
              /\ t.advertised = adv /\ t.name = name
         /\ \E t \in told' : t.addr = calls[c].addr /\ t.port = port /\ t.name = name
<1> DEFINE new == [addr |-> calls[c].addr, id |-> calls[c].id, port |-> port,
                   advertised |-> adv, name |-> name]
<1>1. told' = told \cup {new} BY DEF Return
<1>2. /\ new.addr = calls[c].addr /\ new.port = port
      /\ new.advertised = adv /\ new.name = name
  OBVIOUS
<1> HIDE DEF new
<1> QED BY <1>1, <1>2

LEMMA NothingToldGrows ==
  ASSUME UNCHANGED <<brokerToListenerConfig, brokerToSNIMapping, told>>,
         \A p \in Ports : listening'[p] = listening[p] \/ listening'[p] = NoAddr
  PROVE  Grows
BY DEF Grows, NewAnswersFit, EntriesStay, NewListenersTold

LEMMA LookupGrows ==
  ASSUME NEW c \in Callers, Lookup(c) \/ DoubleCheck(c) PROVE Grows
<1> DEFINE a == calls[c].addr
<1>1. UNCHANGED <<brokerToListenerConfig, listening, brokerToSNIMapping>>
  BY DEF Lookup, DoubleCheck, state
<1>2. NewListenersTold /\ EntriesStay BY <1>1 DEF NewListenersTold, EntriesStay
<1>3. CASE ReturnEntry(c, brokerToListenerConfig[a])
  <2>1. told \subseteq told' /\ NewAnswersFit
    BY <1>1, <1>3, Answered DEF NewAnswersFit, ReturnEntry
  <2> QED BY <1>1, <1>2, <2>1 DEF Grows
<1>4. CASE brokerToSNIMapping[a] # NoName /\ Return(c, SniPort, SniPort, brokerToSNIMapping[a])
  <2>1. told \subseteq told' /\ NewAnswersFit BY <1>1, <1>4, Answered DEF NewAnswersFit
  <2> QED BY <1>1, <1>2, <2>1 DEF Grows
<1>5. CASE UNCHANGED told BY <1>1, <1>5, NothingToldGrows
<1> QED BY <1>3, <1>4, <1>5 DEF Lookup, DoubleCheck, ReturnError

LEMMA MoveGrows ==
  ASSUME IInv, NEW c \in Callers, MoveListener(c) PROVE Grows
<1> DEFINE a == calls[c].addr
<1>1. PICK b \in Addrs :
        LET p == brokerToListenerConfig[b].port
        IN  /\ a \in Addrs /\ ~AlreadyMapped(a) /\ Deterministic
            /\ brokerToListenerConfig'[a] = brokerToListenerConfig[b]
            /\ \A x \in Addrs : x # a /\ x # b =>
                 brokerToListenerConfig'[x] = brokerToListenerConfig[x]
            /\ listening'[p] = (IF listening[p] = b THEN a ELSE listening[p])
            /\ \A q \in Ports : q # p => listening'[q] = listening[q]
            /\ ReturnEntry(c, brokerToListenerConfig[b])
  BY WhatMoves
<1> DEFINE p == brokerToListenerConfig[b].port
<1>2. EntriesStay BY <1>1 DEF EntriesStay
<1>3. /\ told \subseteq told' /\ NewAnswersFit
      /\ \E t \in told' : t.addr = a /\ t.port = p /\ t.name = NoName
  BY <1>1, Answered DEF NewAnswersFit, ReturnEntry
<1>4. NewListenersTold BY <1>1, <1>3 DEF NewListenersTold
<1> QED BY <1>2, <1>3, <1>4 DEF Grows, MoveListener

LEMMA ListenGrows ==
  ASSUME IInv, NEW c \in Callers, Listen(c) PROVE Grows
<1> DEFINE a == calls[c].addr
<1>1. PICK p \in Ports, cfg \in Config :
        /\ a \in Addrs /\ ~AlreadyMapped(a)
        /\ cfg.port = p
        /\ listening'[p] = a
        /\ \A q \in Ports : q # p => listening'[q] = listening[q]
        /\ \A x \in Addrs : x # a => brokerToListenerConfig'[x] = brokerToListenerConfig[x]
        /\ \/ /\ TemplateFails /\ ReturnError(c)
              /\ brokerToListenerConfig' = brokerToListenerConfig
           \/ /\ ~TemplateFails /\ ReturnEntry(c, cfg)
              /\ brokerToListenerConfig'[a] = cfg
  BY WhatListens
<1>2. EntriesStay BY <1>1 DEF EntriesStay
<1>3. brokerToSNIMapping' = brokerToSNIMapping BY DEF Listen
<1>4. CASE TemplateFails
  <2>1. told' = told BY <1>1, <1>4 DEF ReturnError
  <2>2. NewAnswersFit BY <2>1 DEF NewAnswersFit
  <2>3. NewListenersTold BY <1>4 DEF NewListenersTold
  <2> QED BY <1>2, <1>3, <2>1, <2>2, <2>3 DEF Grows
<1>5. CASE ~TemplateFails
  <2>1. brokerToListenerConfig'[a] = cfg /\ Return(c, p, cfg.advertised, NoName)
    BY <1>1, <1>5 DEF ReturnEntry
  <2>2. /\ told \subseteq told' /\ NewAnswersFit
        /\ \E t \in told' : t.addr = a /\ t.port = p /\ t.name = NoName
    BY <1>1, <2>1, Answered DEF NewAnswersFit
  <2>3. NewListenersTold BY <1>1, <2>2 DEF NewListenersTold
  <2> QED BY <1>2, <1>3, <2>2, <2>3 DEF Grows
<1> QED BY <1>4, <1>5

LEMMA StepGrows == ASSUME IInv, [Next]_vars PROVE Grows
<1>1. ASSUME NEW c \in Callers,
             \/ \E a \in Addrs, id \in Ids : Ask(c, a, id)
             \/ NoPortForBroker(c) \/ ListenFails(c)
      PROVE  Grows
  BY <1>1, NothingToldGrows DEF Ask, NoPortForBroker, ListenFails, ReturnError, state
<1>2. ASSUME NEW p \in Ports, Accept(p) \/ HandOver(p) \/ ForeignMove(p)
      PROVE  Grows
  BY <1>2, NothingToldGrows DEF Accept, HandOver, ForeignMove, state
<1>3. ASSUME NEW p \in Ports, AcceptFails(p) PROVE Grows
  <2>1. \A q \in Ports : listening'[q] = listening[q] \/ listening'[q] = NoAddr
    BY <1>3 DEF AcceptFails, IInv, TypeOK
  <2> QED BY <1>3, <2>1, NothingToldGrows DEF AcceptFails
<1>4. ASSUME NEW name, NEW cn, HandleSNIConnection(name, cn) PROVE Grows
  BY <1>4, NothingToldGrows DEF HandleSNIConnection, state
<1>5. CASE Take \/ AcceptSNI BY <1>5, NothingToldGrows DEF Take, AcceptSNI, state
<1>6. CASE UNCHANGED vars BY <1>6, NothingToldGrows DEF vars, state
<1> QED BY <1>1, <1>2, <1>3, <1>4, <1>5, <1>6, LookupGrows, MoveGrows, ListenGrows DEF Next

-----------------------------------------------------------------------------
(* A client may keep what it was told: the map keeps the entry it was      *)
(* given, advertised in the same way and, unless listeners follow broker   *)
(* ids, for the same broker, and its port answers for it until its accept  *)
(* loop ends (proxy.go:399), for all callers and any number of steps.      *)
THEOREM AnswersKeepValid == Spec => []AnswersStayValid
<1>1. Init => AnswersStayValid BY DEF Init, AnswersStayValid
<1>2. IInv /\ IInv' /\ AnswersStayValid /\ [Next]_vars => AnswersStayValid'
  <2> SUFFICES ASSUME IInv, IInv', AnswersStayValid, [Next]_vars,
                      NEW t \in told', t.port \in Ports, t.name = NoName
               PROVE  \E a \in Addrs :
                        /\ brokerToListenerConfig'[a].port = t.port
                        /\ brokerToListenerConfig'[a].advertised = t.advertised
                        /\ ~Deterministic => a = t.addr
                        /\ listening'[t.port] = a \/ a \in lost'
    BY DEF AnswersStayValid
  <2>1. Grows BY StepGrows
  <2>2. \A a \in Addrs : brokerToListenerConfig'[a].port = t.port =>
          listening'[t.port] = a \/ a \in lost'
    BY DEF IInv, MapsToItsListener
  <2>3. CASE t \in told
    <3>1. PICK b \in Addrs : /\ brokerToListenerConfig[b].port = t.port
                             /\ brokerToListenerConfig[b].advertised = t.advertised
                             /\ ~Deterministic => b = t.addr
      BY <2>3 DEF AnswersStayValid
    <3>2. AlreadyMapped(b) BY <3>1, Entries
    <3>3. PICK a \in Addrs : /\ brokerToListenerConfig'[a] = brokerToListenerConfig[b]
                             /\ ~Deterministic => a = b
      BY <2>1, <3>2 DEF Grows, EntriesStay
    <3> QED BY <2>2, <3>1, <3>3
  <2>4. CASE t \notin told
    <3>1. t.addr \in Addrs BY DEF IInv, TypeOK, Answer
    <3> QED BY <2>1, <2>2, <2>4, <3>1 DEF Grows, NewAnswersFit
  <2> QED BY <2>3, <2>4
<1> QED BY <1>1, <1>2, InvAlways, PTL DEF Spec

(* What is in connSrc after it: a connection that was there, or the one    *)
(* that has been handed over.                                              *)
LEMMA ConnSrcSteps ==
  ASSUME IInv, [Next]_vars
  PROVE  \A i \in 1..Len(connSrc') :
           \/ \E j \in 1..Len(connSrc) : connSrc'[i] = connSrc[j]
           \/ /\ connSrc'[i].sni = FALSE
              /\ connSrc'[i].port \in Ports /\ accepting[connSrc'[i].port] # NoAddr
              /\ connSrc'[i].addr = accepting[connSrc'[i].port]
           \/ /\ connSrc'[i].sni = TRUE
              /\ connSrc'[i].name \in Names => connSrc'[i].addr = SniMapping[connSrc'[i].name]
<1>1. connSrc \in Seq(Conn) BY DEF IInv, TypeOK
<1>2. CASE UNCHANGED connSrc BY <1>2
<1>3. ASSUME NEW conn, connSrc' = Append(connSrc, conn), NEW i \in 1..Len(connSrc')
      PROVE  connSrc'[i] = conn \/ \E j \in 1..Len(connSrc) : connSrc'[i] = connSrc[j]
  <2>1. Len(connSrc') = Len(connSrc) + 1 BY <1>1, <1>3
  <2>2. CASE i = Len(connSrc) + 1 BY <1>1, <1>3, <2>2
  <2>3. CASE i # Len(connSrc) + 1
    <3>1. i \in 1..Len(connSrc) BY <1>1, <2>1, <2>3
    <3>2. connSrc'[i] = connSrc[i] BY <1>1, <1>3, <3>1
    <3> QED BY <3>1, <3>2
  <2> QED BY <2>2, <2>3
<1>4. ASSUME NEW p \in Ports, HandOver(p), NEW i \in 1..Len(connSrc'),
             ~\E j \in 1..Len(connSrc) : connSrc'[i] = connSrc[j]
      PROVE  /\ connSrc'[i].sni = FALSE
             /\ connSrc'[i].port \in Ports /\ accepting[connSrc'[i].port] # NoAddr
             /\ connSrc'[i].addr = accepting[connSrc'[i].port]
  <2> DEFINE conn == [addr |-> accepting[p], port |-> p, sni |-> FALSE, name |-> NoName]
  <2>1. connSrc' = Append(connSrc, conn) /\ accepting[p] # NoAddr BY <1>4 DEF HandOver
  <2>2. conn.port = p /\ conn.addr = accepting[p] /\ conn.sni = FALSE OBVIOUS
  <2> HIDE DEF conn
  <2>3. connSrc'[i] = conn BY <1>3, <1>4, <2>1
  <2> QED BY <2>1, <2>2, <2>3
<1>5. ASSUME NEW name \in Names \cup {NoName}, NEW cn \in Names \cup {NoName},
             HandleSNIConnection(name, cn), NEW i \in 1..Len(connSrc'),
             ~\E j \in 1..Len(connSrc) : connSrc'[i] = connSrc[j]
      PROVE  /\ connSrc'[i].sni = TRUE
             /\ connSrc'[i].name \in Names => connSrc'[i].addr = SniMapping[connSrc'[i].name]
  <2> DEFINE conn == [addr |-> SniTarget(name, cn), port |-> SniPort,
                      sni |-> TRUE, name |-> name]
  <2>1. connSrc' = Append(connSrc, conn) BY <1>5, <1>2 DEF HandleSNIConnection
  <2>2. conn.sni = TRUE /\ conn.name = name /\ conn.addr = SniTarget(name, cn) OBVIOUS
  <2> HIDE DEF conn
  <2>3. connSrc'[i] = conn BY <1>3, <1>5, <2>1
  <2> QED BY <2>2, <2>3 DEF SniTarget
<1>6. CASE Take
  <2>1. connSrc' = Tail(connSrc) /\ connSrc # <<>> BY <1>6 DEF Take
  <2>2. Len(connSrc') = Len(connSrc) - 1 BY <1>1, <2>1
  <2>3. ASSUME NEW i \in 1..Len(connSrc') PROVE \E j \in 1..Len(connSrc) : connSrc'[i] = connSrc[j]
    <3>1. i + 1 \in 1..Len(connSrc) BY <1>1, <2>2
    <3>2. connSrc'[i] = connSrc[i + 1] BY <1>1, <2>1, <2>2
    <3> QED BY <3>1, <3>2
  <2> QED BY <2>3
<1>7. \/ UNCHANGED connSrc \/ Take
      \/ \E p \in Ports : HandOver(p)
      \/ \E name, cn \in Names \cup {NoName} : HandleSNIConnection(name, cn)
  BY DEF Next, vars, network, Ask, Lookup, DoubleCheck, NoPortForBroker, MoveListener, Listen,
         ListenFails, Accept, AcceptFails, AcceptSNI, ForeignMove
<1> QED BY <1>2, <1>4, <1>5, <1>6, <1>7

(* An accept loop holds a connection for the broker its listener was for   *)
(* when it accepted it.                                                    *)
LEMMA AcceptingSteps ==
  ASSUME IInv, [Next]_vars, NEW p \in Ports, accepting'[p] # NoAddr
  PROVE  \/ accepting'[p] = accepting[p]
         \/ IsListening(p) /\ accepting'[p] = listening[p]
<1>1. accepting \in [Ports -> Addrs \cup {NoAddr}] BY DEF IInv, TypeOK
<1>2. \/ UNCHANGED accepting
      \/ \E q \in Ports : Accept(q) \/ HandOver(q)
  BY DEF Next, vars, network, Ask, Lookup, DoubleCheck, NoPortForBroker, MoveListener, Listen,
         ListenFails, AcceptFails, AcceptSNI, ForeignMove, HandleSNIConnection, Take
<1> QED BY <1>1, <1>2 DEF Accept, HandOver

LEMMA SniNext == ASSUME IInv, IInv', SniInv, [Next]_vars PROVE SniInv'
<1>1. Grows BY StepGrows
<1>2. \A a \in Addrs : brokerToSNIMapping'[a] # NoName =>
        brokerToSNIMapping'[a] \in Names /\ SniMapping[brokerToSNIMapping'[a]] = a
  BY <1>1 DEF Grows, SniInv
<1>3. ASSUME NEW t \in told', t.name # NoName
      PROVE  t.name \in Names /\ SniMapping[t.name] = t.addr
  <2>1. CASE t \in told BY <1>3, <2>1 DEF SniInv
  <2>2. CASE t \notin told
    <3>1. t.addr \in Addrs BY DEF IInv, TypeOK, Answer
    <3> QED BY <1>1, <1>3, <2>2, <3>1 DEF Grows, NewAnswersFit, SniInv
  <2> QED BY <2>1, <2>2
<1>4. ASSUME NEW i \in 1..Len(connSrc'), connSrc'[i].sni, connSrc'[i].name \in Names
      PROVE  connSrc'[i].addr = SniMapping[connSrc'[i].name]
  BY <1>4, ConnSrcSteps DEF SniInv
<1> QED BY <1>2, <1>3, <1>4 DEF SniInv

LEMMA RouteNext == ASSUME IInv, RouteInv, [Next]_vars, ~TemplateFails PROVE RouteInv'
<1>1. Grows BY StepGrows
<1>2. Advertised \subseteq Advertised' BY <1>1 DEF Grows, Advertised
<1>3. ASSUME NEW p \in Ports, listening'[p] # NoAddr
      PROVE  <<listening'[p], p>> \in Advertised'
  <2>1. CASE listening'[p] = listening[p] BY <1>2, <1>3, <2>1 DEF RouteInv, IsListening
  <2>2. CASE listening'[p] # listening[p]
    <3>1. \E t \in told' : t.addr = listening'[p] /\ t.port = p /\ t.name = NoName
      BY <1>1, <1>3, <2>2 DEF Grows, NewListenersTold
    <3> QED BY <3>1 DEF Advertised
  <2> QED BY <2>1, <2>2
<1>4. ASSUME NEW p \in Ports, accepting'[p] # NoAddr
      PROVE  <<accepting'[p], p>> \in Advertised'
  BY <1>2, <1>4, AcceptingSteps DEF RouteInv
<1>5. ASSUME NEW i \in 1..Len(connSrc'), ~connSrc'[i].sni
      PROVE  <<connSrc'[i].addr, connSrc'[i].port>> \in Advertised'
  BY <1>2, <1>5, ConnSrcSteps DEF RouteInv
<1> QED BY <1>3, <1>4, <1>5 DEF RouteInv, IsListening

(* Unless the template of the advertised address is broken, which leaves   *)
(* listeners nobody was told about, a connection is for a broker that      *)
(* clients were told to find at its port, although a listener may have     *)
(* moved between accepting and handing over, or have ended and left its    *)
(* port to another broker; one with a server name is for the broker        *)
(* advertised under it.                                                    *)
THEOREM ConnectionsRoutedAsAdvertised ==
  ASSUME ~TemplateFails
  PROVE  Spec => []RoutedAsAdvertised
<1>1. Init => SniInv /\ RouteInv
  <2> SUFFICES ASSUME Init PROVE SniInv /\ RouteInv
    OBVIOUS
  <2>1. /\ told = {} /\ connSrc = <<>> /\ \A p \in Ports : accepting[p] = NoAddr
    BY DEF Init
  <2>2. ASSUME NEW p \in Ports, IsListening(p)
        PROVE  listening[p] \in Addrs /\ Static[listening[p]].port = p
    <3>1. IInv BY InvInit
    <3> QED BY <2>2, <3>1 DEF Init, IInv, TypeOK, OneListenerPerBroker, IsListening
  <2>3. ASSUME NEW a \in Addrs, brokerToSNIMapping[a] # NoName
        PROVE  brokerToSNIMapping[a] \in Names /\ SniMapping[brokerToSNIMapping[a]] = a
    <3> DEFINE names == {n \in Names : SniMapping[n] = a}
    <3>1. brokerToSNIMapping[a] \in (IF names = {} THEN {NoName} ELSE names) BY DEF Init
    <3>2. brokerToSNIMapping[a] \in names BY <2>3, <3>1
    <3> QED BY <3>2
  <2>4. \A p \in Ports : IsListening(p) => <<listening[p], p>> \in Advertised
    BY <2>2 DEF Advertised
  <2>5. 1..Len(connSrc) = {} BY <2>1
  <2> QED BY <2>1, <2>3, <2>4, <2>5 DEF SniInv, RouteInv
<1>2. IInv /\ IInv' /\ SniInv /\ RouteInv /\ [Next]_vars => SniInv' /\ RouteInv'
  BY SniNext, RouteNext
<1>3. IInv /\ SniInv /\ RouteInv => RoutedAsAdvertised
  <2> SUFFICES ASSUME IInv, SniInv, RouteInv, NEW i \in 1..Len(connSrc)
               PROVE  IF connSrc[i].sni
                      THEN \A t \in told : t.name # NoName /\ t.name = connSrc[i].name =>
                             t.addr = connSrc[i].addr
                      ELSE \/ Static[connSrc[i].addr].port = connSrc[i].port
                           \/ \E t \in told : /\ t.addr = connSrc[i].addr
                                              /\ t.port = connSrc[i].port
                                              /\ t.name = NoName
    BY DEF RoutedAsAdvertised
  <2>1. CASE ~connSrc[i].sni
    <3>1. <<connSrc[i].addr, connSrc[i].port>> \in Advertised BY <2>1 DEF RouteInv
    <3> QED BY <2>1, <3>1 DEF Advertised
  <2>2. CASE connSrc[i].sni BY <2>2 DEF SniInv
  <2> QED BY <2>1, <2>2
<1> QED BY <1>1, <1>2, <1>3, InvAlways, PTL DEF Spec
=============================================================================
