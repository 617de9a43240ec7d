------------------------------- MODULE Client --------------------------------
(***************************************************************************)
(* The life of client connections in proxy.Client: handed over by the      *)
(* listeners through connSrc, taken by Client.Run, dialled and             *)
(* authenticated by a goroutine each (handleConn), recorded in the ConnSet *)
(* while copyThenClose serves them, and closed by whichever side ends      *)
(* first or by the proxy's shutdown.                                       *)
(*                                                                         *)
(* copyThenClose is kept here to what handleConn can see of it, which      *)
(* module Processor shows in detail: the responses loop runs in handleConn *)
(* itself, the requests loop in a goroutine of its own, and the loop that  *)
(* fills firstErr closes both connections some time later.                 *)
(*                                                                         *)
(* Definitions marked "Fault" are no part of the specification: each is a  *)
(* plausible mistake in the definition that follows it.                    *)
(***************************************************************************)
EXTENDS Integers, SequencesExt

CONSTANTS
  Conns,          \* client connections
  Brokers,        \* broker addresses
  BrokerOf,       \* the broker each connection is for
  ConnSrcCap,     \* capacity of connSrc (1 in the code)
  ValidatesCert,  \* Kafka.TLS.SameClientCertEnable
  SaslByProxy     \* Kafka.SASL.Enable

ASSUME ConstAssumption ==
  /\ BrokerOf \in [Conns -> Brokers]
  /\ ConnSrcCap \in Nat \ {0}
  /\ ValidatesCert \in BOOLEAN /\ SaslByProxy \in BOOLEAN

VARIABLES
  pc,        \* per connection: where it is on its way
  local,     \* per connection: the client's socket
  server,    \* per connection: the broker's socket
  gone,      \* per connection: a peer has hung up
  firstErr,  \* per connection: "open", "requests" (that loop has filled it
             \* and is about to close the sockets) or "closed"
  connSrc,   \* the channel from the listeners
  conns,     \* ConnSet: [Brokers -> Seq(Conns)], no entry is <<>>
  stopRun,   \* Client.Close was called
  run,       \* Client.Run: "select", "closing", "returned"
  late       \* connections added after conns.Close (history)

sockets == <<local, server, gone, firstErr>>
control == <<stopRun, run>>
vars    == <<pc, sockets, connSrc, conns, control, late>>

Pcs == {"new", "accepted", "queued", "cert", "dial", "gateway", "sasl",
        "refuse", "add", "copy", "remove", "done"}

Init ==
  /\ pc = [c \in Conns |-> "new"]
  /\ local = [c \in Conns |-> "none"]
  /\ server = [c \in Conns |-> "none"]
  /\ gone = [c \in Conns |-> FALSE]
  /\ firstErr = [c \in Conns |-> "open"]
  /\ connSrc = <<>>
  /\ conns = [b \in Brokers |-> <<>>]
  /\ stopRun = FALSE /\ run = "select"
  /\ late = {}

Goto(c, from, to) == pc[c] = from /\ pc' = [pc EXCEPT ![c] = to]

-----------------------------------------------------------------------------
(* Arrival.  The goroutine that accepted a connection waits for room.      *)

Accept(c) ==
  /\ Goto(c, "new", "accepted")
  /\ local' = [local EXCEPT ![c] = "open"]
  /\ UNCHANGED <<server, gone, firstErr, connSrc, conns, control, late>>

\* Fault.
OneTooMany     == Len(connSrc) <= ConnSrcCap
ConnSrcHasRoom == Len(connSrc) < ConnSrcCap

HandOver(c) ==
  /\ Goto(c, "accepted", "queued")
  /\ ConnSrcHasRoom
  /\ connSrc' = Append(connSrc, c)
  /\ UNCHANGED <<sockets, conns, control, late>>

-----------------------------------------------------------------------------
(* Client.Run and Client.Close.  With both cases ready select may take     *)
(* either of them.                                                         *)

RunTakes ==
  /\ run = "select" /\ connSrc # <<>>
  /\ Goto(Head(connSrc), "queued", "cert")
  /\ connSrc' = Tail(connSrc)
  /\ UNCHANGED <<sockets, conns, control, late>>

Close ==
  /\ ~stopRun /\ stopRun' = TRUE
  /\ UNCHANGED <<pc, sockets, connSrc, conns, run, late>>

RunStops ==
  /\ run = "select" /\ stopRun /\ run' = "closing"
  /\ UNCHANGED <<pc, sockets, connSrc, conns, stopRun, late>>

(* ConnSet.Close: the client connections only, under the lock of the set;  *)
(* the entries stay.                                                       *)
InConnSet == UNION {ToSet(conns[b]) : b \in Brokers}

\* Fault.
FirstOfEach == {c \in InConnSet : conns[BrokerOf[c]][1] = c}
AllToClose  == InConnSet

ConnSetClose ==
  /\ run = "closing" /\ run' = "returned"
  /\ local' = [c \in Conns |-> IF c \in AllToClose THEN "closed" ELSE local[c]]
  /\ UNCHANGED <<pc, server, gone, firstErr, connSrc, conns, stopRun, late>>

-----------------------------------------------------------------------------
(* handleConn. *)

CloseLocal(c)  == local' = [local EXCEPT ![c] = "closed"]

(* The client certificate, when it must be the proxy's own.                *)
CertAccepted(c) ==
  /\ Goto(c, "cert", "dial")
  /\ UNCHANGED <<sockets, connSrc, conns, control, late>>

CertRefused(c) ==
  /\ ValidatesCert /\ Goto(c, "cert", "done")
  /\ CloseLocal(c)
  /\ UNCHANGED <<server, gone, firstErr, connSrc, conns, control, late>>

Dial(c) ==
  /\ Goto(c, "dial", "gateway")
  /\ server' = [server EXCEPT ![c] = "open"]
  /\ UNCHANGED <<local, gone, firstErr, connSrc, conns, control, late>>

DialFails(c) ==
  /\ Goto(c, "dial", "refuse")
  /\ UNCHANGED <<sockets, connSrc, conns, control, late>>

(* auth: the gateway's handshake, then SASL, each where it is configured;  *)
(* it closes the broker connection itself when one of them fails.          *)
Authenticate(c) ==
  /\ Goto(c, "gateway", "sasl") \/ Goto(c, "sasl", "add")
  /\ UNCHANGED <<sockets, connSrc, conns, control, late>>

\* Fault.
LeavesServerOpen(c) == UNCHANGED server
CloseServer(c)      == server' = [server EXCEPT ![c] = "closed"]

AuthFails(c) ==
  /\ \/ Goto(c, "gateway", "refuse")     \* also when SetDeadline fails after the dial
     \/ SaslByProxy /\ Goto(c, "sasl", "refuse")
  /\ CloseServer(c)
  /\ UNCHANGED <<local, gone, firstErr, connSrc, conns, control, late>>

(* DialAndAuth has failed.                                                 *)
Refuse(c) ==
  /\ Goto(c, "refuse", "done")
  /\ CloseLocal(c)
  /\ UNCHANGED <<server, gone, firstErr, connSrc, conns, control, late>>

Add(c) ==
  /\ Goto(c, "add", "copy")
  /\ conns' = [conns EXCEPT ![BrokerOf[c]] = Append(@, c)]
  /\ late' = IF run = "returned" THEN late \cup {c} ELSE late
  /\ UNCHANGED <<sockets, connSrc, control>>

(* ConnSet.Remove: nothing but an error when the connection is not there.  *)
\* Fault.
ForgetsNeighbour(s, c) == IF Len(s) <= 2 THEN <<>> ELSE RemoveFirst(s, c)
Without(s, c)          == RemoveFirst(s, c)

ConnSetRemove(c) ==
  /\ Goto(c, "remove", "done")
  /\ conns' = [conns EXCEPT ![BrokerOf[c]] = Without(@, c)]
  /\ UNCHANGED <<sockets, connSrc, control, late>>

-----------------------------------------------------------------------------
(* copyThenClose. *)

(* A peer hangs up; the loops also end on errors of their own.             *)
PeerGone(c) ==
  /\ pc[c] = "copy" /\ ~gone[c]
  /\ gone' = [gone EXCEPT ![c] = TRUE]
  /\ UNCHANGED <<pc, local, server, firstErr, connSrc, conns, control, late>>

CloseBoth(c) == CloseLocal(c) /\ server' = [server EXCEPT ![c] = "closed"]

RequestsLoopEnds(c) ==
  /\ pc[c] = "copy" /\ firstErr[c] = "open"
  /\ firstErr' = [firstErr EXCEPT ![c] = "requests"]
  /\ UNCHANGED <<pc, local, server, gone, connSrc, conns, control, late>>

(* Perhaps long after handleConn has returned.                             *)
RequestsLoopCloses(c) ==
  /\ firstErr[c] = "requests"
  /\ CloseBoth(c)
  /\ firstErr' = [firstErr EXCEPT ![c] = "closed"]
  /\ UNCHANGED <<pc, gone, connSrc, conns, control, late>>

\* Fault.
NeverCloses(c) == UNCHANGED <<local, server, firstErr>>
EndFirst(c)    == CloseBoth(c) /\ firstErr' = [firstErr EXCEPT ![c] = "closed"]

ResponsesLoopEnds(c) ==
  /\ Goto(c, "copy", "remove")
  /\ IF firstErr[c] = "open" THEN EndFirst(c)
                             ELSE UNCHANGED <<local, server, firstErr>>
  /\ UNCHANGED <<gone, connSrc, conns, control, late>>

-----------------------------------------------------------------------------
Next ==
  \/ \E c \in Conns :
       \/ Accept(c) \/ HandOver(c)
       \/ CertAccepted(c) \/ CertRefused(c)
       \/ Dial(c) \/ DialFails(c)
       \/ Authenticate(c) \/ AuthFails(c) \/ Refuse(c)
       \/ Add(c) \/ ConnSetRemove(c)
       \/ PeerGone(c)
       \/ RequestsLoopEnds(c) \/ RequestsLoopCloses(c) \/ ResponsesLoopEnds(c)
  \/ RunTakes \/ RunStops \/ ConnSetClose
  \/ Close

Spec == Init /\ [][Next]_vars

(* Goroutines run and select does not ignore stopRun forever.  A loop is   *)
(* only sure to end when a peer has hung up or a socket is closed          *)
(* (Teardown of Processor).  Nothing is assumed of dialling and            *)
(* authenticating: the call for a gateway token has no timeout.            *)
Doomed(c) == gone[c] \/ local[c] = "closed"

Fairness ==
  /\ WF_vars(RunStops) /\ WF_vars(ConnSetClose)
  /\ \A c \in Conns :
       /\ WF_vars(ConnSetRemove(c))
       /\ WF_vars(RequestsLoopCloses(c))
       /\ WF_vars(Doomed(c) /\ ResponsesLoopEnds(c))

FairSpec == Spec /\ Fairness

-----------------------------------------------------------------------------
TypeOK ==
  /\ pc \in [Conns -> Pcs]
  /\ local \in [Conns -> {"none", "open", "closed"}]
  /\ server \in [Conns -> {"none", "open", "closed"}]
  /\ gone \in [Conns -> BOOLEAN]
  /\ firstErr \in [Conns -> {"open", "requests", "closed"}]
  /\ connSrc \in Seq(Conns) /\ Len(connSrc) <= ConnSrcCap
  /\ conns \in [Brokers -> Seq(Conns)]
  /\ stopRun \in BOOLEAN /\ run \in {"select", "closing", "returned"}
  /\ late \subseteq Conns

(* The ConnSet holds exactly the connections handleConn is serving, once   *)
(* each and under their own broker: proxy_opened_connections counts them   *)
(* and Remove never misses.                                                *)
ConnSetIsServed ==
  \A b \in Brokers :
    /\ ToSet(conns[b]) = {c \in Conns : BrokerOf[c] = b /\ pc[c] \in {"copy", "remove"}}
    /\ \A i, j \in 1..Len(conns[b]) : conns[b][i] = conns[b][j] => i = j

(* No way through handleConn leaves a socket behind: when it has returned  *)
(* both are closed, or the requests loop is about to close them.           *)
NothingLeaks ==
  \A c \in Conns :
    pc[c] = "done" =>
      \/ firstErr[c] = "requests"
      \/ local[c] = "closed" /\ server[c] # "open"

(* Every connection that comes to be served is served as CopyThenClose has *)
(* it, whatever becomes of the others, and touched by nothing else.        *)
Returned(c) == pc[c] = "remove" \/ (pc[c] = "done" /\ firstErr[c] # "open")
Copying(c)  == pc[c] = "copy" \/ Returned(c)
Copier(c) == INSTANCE CopyThenClose WITH
  localClosed  <- Copying(c) /\ local[c] = "closed",
  serverClosed <- Copying(c) /\ server[c] = "closed",
  firstErr     <- firstErr[c],
  returned     <- Returned(c)

ServesByContract == \A c \in Conns : Copier(c)!Spec

Finished(c) ==
  pc[c] = "done" /\ local[c] = "closed" /\ server[c] # "open" /\ c \notin InConnSet

(* A served connection whose peer hangs up is closed on both sides and     *)
(* forgotten by the ConnSet.                                               *)
HangUpEndsConnection == \A c \in Conns : gone[c] ~> Finished(c)

(* Client.Close ends every connection being served, although ConnSet.Close *)
(* closes only the client's half; but for those that were still dialling   *)
(* when the set was closed.                                                *)
CloseEndsConnections ==
  \A c \in Conns : stopRun /\ c \in InConnSet \ late ~> Finished(c)
=============================================================================
