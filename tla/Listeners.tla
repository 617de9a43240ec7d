------------------------------ MODULE Listeners ------------------------------
(***************************************************************************)
(* The listeners of the proxy (proxy.Listeners): the map from broker       *)
(* addresses to the addresses advertised in their place, the listeners     *)
(* started on demand, and the accept loops that hand connections over.     *)
(*                                                                         *)
(* GetNetAddressMapping is called by the responses loops of all            *)
(* connections at once (Callers), for each broker named in a metadata or   *)
(* coordinator reply.  A listener is represented by the port it is bound   *)
(* to and an advertised address by its port: the host only renames it.     *)
(*                                                                         *)
(* A listener whose Accept fails is closed, but its entry stays in the     *)
(* map: clients go on being sent to a port that is free again, for other   *)
(* processes or for the listener of another broker.                        *)
(*                                                                         *)
(* Definitions marked "Fault" are no part of the specification: each is a  *)
(* plausible mistake in the definition that follows it.                    *)
(***************************************************************************)
EXTENDS Integers, Sequences, FiniteSets

CONSTANTS
  Addrs,            \* broker addresses, host and port
  Ids,              \* broker ids a reply may hold, -1 included
  Brokers,          \* address and id pairs a reply may name
  Callers,          \* responses loops
  NoAddr,           \* no address
  PortSpace,        \* 2^16: ports are uint16
  MinPort,          \* dynamicSequentialMinPort, 0 for ephemeral ports
  MaxPorts,         \* dynamicSequentialMaxPorts
  Ephemeral,        \* ports the OS may choose
  Deterministic,    \* deterministicListeners
  DynamicDisabled,  \* disableDynamicListeners
  TemplateFails,    \* the advertised address template does not execute
  TemplatePort,     \* port in dynamicAdvertisedListener, NoPort without one
  Static,           \* bootstrap and external servers: the map at the start
  SniMapping,       \* sniMapping, a function of server names
  SniPort,          \* port of sniListenerAddress, 0 for none
  ForeignInit,      \* ports other processes hold at the start
  MaxForeignMoves,  \* bound: ports other processes take or free afterwards
  MaxHandshakes,    \* bound: TLS handshakes of the SNI listener at a time
  ConnSrcCap        \* capacity of connSrc (1 in the code)

NoPort    == 0      \* no listener; also "any free port" in a listen call
Elsewhere == -1     \* an external server, which is not a listener of ours
Ports     == 1..(PortSpace - 1)
Names     == DOMAIN SniMapping
NoName    == "none"

(* A ListenerConfig of the map: its listener, BrokerID, AdvertisedAddress. *)
UnknownBrokerID == -1
Config   == [port : Ports \cup {Elsewhere}, id : Ids \cup {UnknownBrokerID},
             advertised : Int]
NoConfig == [port |-> NoPort, id |-> UnknownBrokerID, advertised |-> NoPort]

ASSUME ConstAssumption ==
  /\ PortSpace \in Nat \ {0} /\ MinPort \in 0..(PortSpace - 1)
  /\ MaxPorts \in 0..(PortSpace - 1) /\ Ephemeral \subseteq Ports
  /\ Ids \subseteq Int /\ NoAddr \notin Addrs /\ Brokers \subseteq Addrs \X Ids
  /\ TemplatePort \in [Ids -> Int]
  /\ Static \in [Addrs -> Config \cup {NoConfig}]
  /\ \A a \in Addrs : Static[a].id = UnknownBrokerID
  /\ \A a, b \in Addrs : Static[a].port \in Ports /\ Static[a].port = Static[b].port => a = b
  /\ SniMapping \in [Names -> Addrs] /\ NoName \notin Names
  /\ SniPort \in Ports \cup {NoPort}
  /\ \A a \in Addrs : Static[a].port \in Ports => Static[a].port # SniPort
  /\ ForeignInit \subseteq Ports /\ MaxForeignMoves \in Nat /\ MaxHandshakes \in Nat
  /\ ConnSrcCap \in Nat \ {0}
  /\ Deterministic \in BOOLEAN /\ DynamicDisabled \in BOOLEAN
  /\ TemplateFails \in BOOLEAN

(* What Config.Validate leaves of the port settings.                       *)
ASSUME ValidateAssumption ==
  ~DynamicDisabled => /\ MinPort = 0 <=> MaxPorts = 0
                      /\ Deterministic => MinPort > 0

VARIABLES
  brokerToListenerConfig,    \* [Addrs -> Config \cup {NoConfig}]
  listening,                 \* per port: the broker its accept loop serves
  lost,                      \* history: mapped brokers whose loop has ended
  brokerToSNIMapping,        \* the name a broker is advertised under
  currentDynamicPortCounter, \* modulo MaxPorts: only the remainder is used
  calls,                     \* per caller: where it is, for which broker
  told,                      \* every answer a client may have been given
  accepting,                 \* per port: the connection its loop holds
  sniListening, handshakes,  \* the SNI listener, its goroutines in a handshake
  connSrc,                   \* the channel read by Client.Run
  foreign, foreignMoves      \* ports held by other processes

state   == <<brokerToListenerConfig, listening, lost, currentDynamicPortCounter>>
sni     == <<sniListening, handshakes>>
network == <<accepting, sni, connSrc>>
others  == <<foreign, foreignMoves>>
vars    == <<state, brokerToSNIMapping, calls, told, network, others>>

Idle     == [at |-> "idle", addr |-> NoAddr, id |-> UnknownBrokerID]
Call     == [at : {"lookup", "dynamic"}, addr : Addrs, id : Ids]
Answer   == [addr : Addrs, id : Ids, port : Ports \cup {Elsewhere},
             advertised : Int, name : Names \cup {NoName}]
Conn     == [addr : Addrs, port : Ports, sni : BOOLEAN, name : Names \cup {NoName}]

IsListening(p) == listening[p] # NoAddr
Free(p) == ~IsListening(p) /\ p \notin foreign /\ (p = SniPort => ~sniListening)

(* NewListeners, ListenInstances and ListenSNIInstance.  Of several names  *)
(* for one broker the reverse map keeps the one Go's map iteration visits  *)
(* last: any of them.                                                      *)
Init ==
  /\ brokerToListenerConfig = Static
  /\ listening = [p \in Ports |->
       IF \E a \in Addrs : Static[a].port = p
       THEN CHOOSE a \in Addrs : Static[a].port = p
       ELSE NoAddr]
  /\ lost = {}
  /\ brokerToSNIMapping \in [Addrs -> Names \cup {NoName}]
  /\ \A a \in Addrs :
       LET names == {n \in Names : SniMapping[n] = a}
       IN  brokerToSNIMapping[a] \in (IF names = {} THEN {NoName} ELSE names)
  /\ currentDynamicPortCounter = 0
  /\ calls = [c \in Callers |-> Idle]
  /\ told = {}
  /\ accepting = [p \in Ports |-> NoAddr]
  /\ sniListening = (SniPort # NoPort)
  /\ handshakes = 0
  /\ connSrc = <<>>
  /\ foreign = {p \in ForeignInit : p # SniPort /\ \A a \in Addrs : Static[a].port # p}
  /\ foreignMoves = 0

-----------------------------------------------------------------------------
(* GetNetAddressMapping. *)

Ask(c, a, id) ==
  /\ calls[c].at = "idle" /\ <<a, id>> \in Brokers
  /\ calls' = [calls EXCEPT ![c] = [at |-> "lookup", addr |-> a, id |-> id]]
  /\ UNCHANGED <<state, brokerToSNIMapping, told, network, others>>

(* The call of c returns: an error, or an advertised address.              *)
ReturnError(c) == calls' = [calls EXCEPT ![c] = Idle] /\ UNCHANGED told

Return(c, port, advertised, name) ==
  /\ calls' = [calls EXCEPT ![c] = Idle]
  /\ told' = told \cup {[addr |-> calls[c].addr, id |-> calls[c].id, port |-> port,
                         advertised |-> advertised, name |-> name]}

(* The address of a map entry, whatever has become of its listener.        *)
ReturnEntry(c, cfg) == Return(c, cfg.port, cfg.advertised, NoName)

(* The map is read under the read lock, which is released before           *)
(* ListenDynamicInstance takes the write lock.                             *)
Lookup(c) ==
  LET a == calls[c].addr
  IN  /\ calls[c].at = "lookup"
      /\ IF brokerToListenerConfig[a] # NoConfig
         THEN ReturnEntry(c, brokerToListenerConfig[a])
         ELSE IF brokerToSNIMapping[a] # NoName /\ SniPort # NoPort
         THEN Return(c, SniPort, SniPort, brokerToSNIMapping[a])
         ELSE IF DynamicDisabled
         THEN ReturnError(c)
         ELSE calls' = [calls EXCEPT ![c].at = "dynamic"] /\ UNCHANGED told
      /\ UNCHANGED <<state, brokerToSNIMapping, network, others>>

(* uint16 arithmetic; NoPort stands for the overflow error.                *)
\* Fault.
WrapsTheSum(offset) == (MinPort + offset) % MaxPorts
nextDynamicPort(offset) ==
  LET port == (MinPort + (offset % MaxPorts)) % PortSpace
  IN  IF port < MinPort THEN NoPort ELSE port

\* Faults.
TakenForFree(a) == FALSE
FreeForTaken(a) == TRUE

AlreadyMapped(a) == brokerToListenerConfig[a] # NoConfig

findListenerConfig(id) ==
  {a \in Addrs : AlreadyMapped(a) /\ brokerToListenerConfig[a].id = id}

(* Another caller was faster.                                              *)
DoubleCheck(c) ==
  /\ calls[c].at = "dynamic" /\ AlreadyMapped(calls[c].addr)
  /\ ReturnEntry(c, brokerToListenerConfig[calls[c].addr])
  /\ UNCHANGED <<state, brokerToSNIMapping, network, others>>

(* Negative ids are refused, and so are ports beyond 2^16.                 *)
NoPortForBroker(c) ==
  /\ calls[c].at = "dynamic" /\ ~AlreadyMapped(calls[c].addr)
  /\ IF Deterministic
     THEN calls[c].id < 0 \/ nextDynamicPort(calls[c].id) = NoPort
     ELSE MinPort # 0 /\ nextDynamicPort(currentDynamicPortCounter) = NoPort
  /\ ReturnError(c)
  /\ UNCHANGED <<state, brokerToSNIMapping, network, others>>

(* The broker has moved from b to a: the entry is kept and now leads to a, *)
(* and so does its accept loop if it still runs.                           *)
\* Fault.
KeepsOldAddress(b, a) ==
  [brokerToListenerConfig EXCEPT ![a] = brokerToListenerConfig[b]]
Moved(b, a) ==
  [brokerToListenerConfig EXCEPT ![b] = NoConfig, ![a] = brokerToListenerConfig[b]]

SetBrokerAddress(b, a) ==
  LET p == brokerToListenerConfig[b].port
  IN  /\ brokerToListenerConfig' = Moved(b, a)
      /\ listening' = [listening EXCEPT ![p] = IF listening[p] = b THEN a ELSE @]
      /\ lost' = {IF x = b THEN a ELSE x : x \in lost}

\* Fault.
MovesAnyListener(c) ==
  /\ calls[c].at = "dynamic" /\ ~AlreadyMapped(calls[c].addr) /\ calls[c].id >= 0
  /\ \E b \in findListenerConfig(calls[c].id) :
       /\ SetBrokerAddress(b, calls[c].addr)
       /\ ReturnEntry(c, brokerToListenerConfig[b])
  /\ UNCHANGED <<currentDynamicPortCounter, brokerToSNIMapping, network, others>>

MoveListener(c) ==
  LET a == calls[c].addr
  IN  /\ calls[c].at = "dynamic" /\ ~AlreadyMapped(a)
      /\ Deterministic /\ calls[c].id >= 0 /\ nextDynamicPort(calls[c].id) # NoPort
      /\ \E b \in findListenerConfig(calls[c].id) :
           /\ SetBrokerAddress(b, a)
           /\ ReturnEntry(c, brokerToListenerConfig[b])
      /\ UNCHANGED <<currentDynamicPortCounter, brokerToSNIMapping, network, others>>

(* The port to listen on.                                                  *)
PortToTry(c) ==
  IF Deterministic THEN nextDynamicPort(calls[c].id)
  ELSE IF MinPort = 0 THEN NoPort
  ELSE nextDynamicPort(currentDynamicPortCounter)

NeedsListener(c) ==
  /\ calls[c].at = "dynamic" /\ ~AlreadyMapped(calls[c].addr)
  /\ IF Deterministic
     THEN /\ calls[c].id >= 0 /\ PortToTry(c) # NoPort
          /\ findListenerConfig(calls[c].id) = {}
     ELSE MinPort # 0 => PortToTry(c) # NoPort

(* A sequential port is used up by the attempt, successful or not.         *)
\* Fault.
CountsListenersOnly ==
  UNCHANGED currentDynamicPortCounter
CountAttempt ==
  IF ~Deterministic /\ MinPort # 0
  THEN currentDynamicPortCounter' = (currentDynamicPortCounter + 1) % MaxPorts
  ELSE UNCHANGED currentDynamicPortCounter

(* A template that names a port replaces the port of the listener.         *)
getDynamicAdvertisedAddress(id, p) ==
  IF TemplatePort[id] = NoPort THEN p ELSE TemplatePort[id]

(* The listener is bound before the advertised address is computed; when   *)
(* that fails the call returns an error and the listener stays.            *)
Listen(c) ==
  LET a  == calls[c].addr
      id == calls[c].id
      NewConfig(p) == [port |-> p, id |-> id,
                       advertised |-> getDynamicAdvertisedAddress(id, p)]
  IN  /\ NeedsListener(c)
      /\ \E p \in (IF PortToTry(c) = NoPort THEN Ephemeral ELSE {PortToTry(c)}) :
           /\ Free(p)
           /\ listening' = [listening EXCEPT ![p] = a]
           /\ IF TemplateFails
              THEN ReturnError(c) /\ UNCHANGED brokerToListenerConfig
              ELSE /\ brokerToListenerConfig' =
                        [brokerToListenerConfig EXCEPT ![a] = NewConfig(p)]
                   /\ ReturnEntry(c, NewConfig(p))
      /\ CountAttempt
      /\ UNCHANGED <<lost, brokerToSNIMapping, network, others>>

ListenFails(c) ==
  /\ NeedsListener(c)
  /\ \A p \in (IF PortToTry(c) = NoPort THEN Ephemeral ELSE {PortToTry(c)}) : ~Free(p)
  /\ CountAttempt
  /\ ReturnError(c)
  /\ UNCHANGED <<brokerToListenerConfig, listening, lost, brokerToSNIMapping, network, others>>

ListenDynamicInstance(c) ==
  DoubleCheck(c) \/ NoPortForBroker(c) \/ MoveListener(c) \/ Listen(c) \/ ListenFails(c)

-----------------------------------------------------------------------------
(* The accept loops and their consumer. *)

(* The loop reads the broker address once, when it has a connection.       *)
Accept(p) ==
  /\ IsListening(p) /\ accepting[p] = NoAddr
  /\ accepting' = [accepting EXCEPT ![p] = listening[p]]
  /\ UNCHANGED <<state, brokerToSNIMapping, calls, told, sni, connSrc, others>>

(* An error of Accept closes the listener and ends the loop; the map is    *)
(* not told.                                                               *)
AcceptFails(p) ==
  /\ IsListening(p) /\ accepting[p] = NoAddr
  /\ listening' = [listening EXCEPT ![p] = NoAddr]
  /\ lost' = lost \cup {a \in {listening[p]} : brokerToListenerConfig[a].port = p}
  /\ UNCHANGED <<brokerToListenerConfig, currentDynamicPortCounter, brokerToSNIMapping,
                 calls, told, network, others>>

HandOver(p) ==
  /\ accepting[p] # NoAddr /\ Len(connSrc) < ConnSrcCap
  /\ connSrc' = Append(connSrc, [addr |-> accepting[p], port |-> p,
                                 sni |-> FALSE, name |-> NoName])
  /\ accepting' = [accepting EXCEPT ![p] = NoAddr]
  /\ UNCHANGED <<state, brokerToSNIMapping, calls, told, sni, others>>

(* The SNI listener hands each connection to a goroutine of its own; an    *)
(* error of Accept closes it, and the goroutines go on.                    *)
AcceptSNI ==
  /\ sniListening
  /\ \/ handshakes < MaxHandshakes /\ handshakes' = handshakes + 1 /\ UNCHANGED sniListening
     \/ sniListening' = FALSE /\ UNCHANGED handshakes
  /\ UNCHANGED <<state, brokerToSNIMapping, calls, told, accepting, connSrc, others>>

(* handleSNIConnection: the server name decides, then the common name of   *)
(* the client certificate; without a mapping, or when the handshake has    *)
(* failed and there are no names, the connection is closed.                *)
\* Fault.
CommonNameFirst(name, cn) ==
  IF cn \in Names THEN SniMapping[cn]
  ELSE IF name \in Names THEN SniMapping[name] ELSE NoAddr
SniTarget(name, cn) ==
  IF name \in Names THEN SniMapping[name]
  ELSE IF cn \in Names THEN SniMapping[cn] ELSE NoAddr

HandleSNIConnection(name, cn) ==
  /\ handshakes > 0
  /\ handshakes' = handshakes - 1
  /\ IF SniTarget(name, cn) = NoAddr
     THEN UNCHANGED connSrc
     ELSE /\ Len(connSrc) < ConnSrcCap
          /\ connSrc' = Append(connSrc, [addr |-> SniTarget(name, cn), port |-> SniPort,
                                         sni |-> TRUE, name |-> name])
  /\ UNCHANGED <<state, brokerToSNIMapping, calls, told, accepting, sniListening, others>>

(* Client.Run takes a connection.                                          *)
Take ==
  /\ connSrc # <<>>
  /\ connSrc' = Tail(connSrc)
  /\ UNCHANGED <<state, brokerToSNIMapping, calls, told, accepting, sni, others>>

(* Other processes on the host take and free ports.                        *)
ForeignMove(p) ==
  /\ foreignMoves < MaxForeignMoves
  /\ \/ Free(p) /\ foreign' = foreign \cup {p}
     \/ p \in foreign /\ foreign' = foreign \ {p}
  /\ foreignMoves' = foreignMoves + 1
  /\ UNCHANGED <<state, brokerToSNIMapping, calls, told, network>>

Next ==
  \/ \E c \in Callers :
       \/ \E a \in Addrs, id \in Ids : Ask(c, a, id)
       \/ Lookup(c)
       \/ DoubleCheck(c)
       \/ NoPortForBroker(c)
       \/ MoveListener(c)
       \/ Listen(c)
       \/ ListenFails(c)
  \/ \E p \in Ports : Accept(p) \/ AcceptFails(p) \/ HandOver(p) \/ ForeignMove(p)
  \/ AcceptSNI
  \/ \E name, cn \in Names \cup {NoName} : HandleSNIConnection(name, cn)
  \/ Take

Spec == Init /\ [][Next]_vars

(* Calls run to their end: no step of theirs waits for a peer.             *)
FairSpec ==
  Spec /\ \A c \in Callers : WF_vars(Lookup(c)) /\ WF_vars(ListenDynamicInstance(c))

-----------------------------------------------------------------------------
TypeOK ==
  /\ brokerToListenerConfig \in [Addrs -> Config \cup {NoConfig}]
  /\ listening \in [Ports -> Addrs \cup {NoAddr}]
  /\ lost \subseteq Addrs
  /\ brokerToSNIMapping \in [Addrs -> Names \cup {NoName}]
  /\ currentDynamicPortCounter \in Nat
  /\ calls \in [Callers -> Call \cup {Idle}]
  /\ told \subseteq Answer
  /\ accepting \in [Ports -> Addrs \cup {NoAddr}]
  /\ sniListening \in BOOLEAN /\ handshakes \in Nat
  /\ sniListening \/ handshakes > 0 => SniPort \in Ports
  /\ connSrc \in Seq(Conn) /\ Len(connSrc) <= ConnSrcCap
  /\ foreign \subseteq Ports /\ foreignMoves \in Nat

(* The address advertised for a broker is a listener of this proxy that is *)
(* bound and leads to that broker, whatever moved in between, or else its  *)
(* accept loop has ended (proxy.go:399), and then the port is never again  *)
(* bound for that entry: no other way to lose a listener.                  *)
MapsToItsListener ==
  /\ \A a \in Addrs :
       LET p == brokerToListenerConfig[a].port
       IN  p \in Ports => (listening[p] = a <=> a \notin lost)
  /\ \A a \in lost : brokerToListenerConfig[a].port \in Ports

(* However many replies name a new broker at once, it gets one listener    *)
(* (the double check of ListenDynamicInstance), and a listener is never    *)
(* forgotten by the map, unless the advertised address template is broken: *)
(* then every call leaves one behind.                                      *)
OneListenerPerBroker ==
  ~TemplateFails =>
    \A p \in Ports : IsListening(p) => brokerToListenerConfig[listening[p]].port = p

(* Dynamic ports stay in the half open interval of nextDynamicPort         *)
(* (proxy.go:260), for every uint16 minimum and maximum.                   *)
PortsInInterval ==
  \A p \in Ports :
    IsListening(p) /\ Static[listening[p]].port # p /\ MinPort > 0 =>
      p >= MinPort /\ p < MinPort + MaxPorts

(* A client that was given an address of ours (not a name of the SNI       *)
(* listener) finds what it was told: the map still has an entry for that   *)
(* port, advertised in the same way and, without deterministic listeners,  *)
(* for the same broker; and the port answers for that entry, unless its    *)
(* accept loop has ended, which is the one way an answer goes bad.         *)
AnswersStayValid ==
  \A t \in told :
    t.port \in Ports /\ t.name = NoName =>
      \E a \in Addrs :
        /\ brokerToListenerConfig[a].port = t.port
        /\ brokerToListenerConfig[a].advertised = t.advertised
        /\ ~Deterministic => a = t.addr
        /\ listening[t.port] = a \/ a \in lost

(* A connection reaches a broker that clients were told to find there (or  *)
(* a bootstrap server): by its port, or by the server name it asked for.   *)
(* When a failed Accept has freed a port and another broker's listener has *)
(* it now, that broker has been told too (clients of the first still come).*)
RoutedAsAdvertised ==
  \A i \in 1..Len(connSrc) :
    LET conn == connSrc[i]
    IN  IF conn.sni
        THEN \A t \in told : t.name # NoName /\ t.name = conn.name => t.addr = conn.addr
        ELSE \/ Static[conn.addr].port = conn.port
             \/ \E t \in told : /\ t.addr = conn.addr /\ t.port = conn.port
                                /\ t.name = NoName

(* README: "listener port = min port + broker id".                         *)
PortIsMinPlusId ==
  \A t \in told : t.port \in Ports => t.port = MinPort + t.id

(* A broker that clients keep asking for gets its listener while there are *)
(* ports for all of them: an occupied port is not tried forever.           *)
EventuallyMapped ==
  \A a \in Addrs :
    []<>(\E c \in Callers : calls[c].at = "lookup" /\ calls[c].addr = a) =>
      <>(brokerToListenerConfig[a] # NoConfig)
=============================================================================
