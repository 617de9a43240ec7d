------------------------------ MODULE Processor ------------------------------
(***************************************************************************)
(* One proxied connection: the two goroutines copyThenClose starts for a   *)
(* client connection (local) and a broker connection (remote).             *)
(*                                                                         *)
(* The requests loop reads frames from the client, decides whether they    *)
(* may pass and whether the broker will answer, and writes them to the     *)
(* broker.  The responses loop reads the broker's replies and writes them  *)
(* to the client.  Nothing in a reply says which request it answers or in  *)
(* which format it is: the responses loop learns both from two channels    *)
(* that the requests loop fills, openRequests (api key and version) and    *)
(* nextRsp (the handler that must read the reply).                         *)
(*                                                                         *)
(* A frame is a record; its bytes are abstracted to a kind.  The numbers   *)
(* "reply" and "slot" and the flag "token" of a frame are bookkeeping of   *)
(* this model: they say which of the broker's replies, and which of the    *)
(* entries of openRequests, belongs to the frame.                          *)
(*                                                                         *)
(* Definitions marked "Fault" are no part of the specification: each is a  *)
(* plausible mistake in the code of the definition that follows it, used   *)
(* to confirm that a property would notice.                                *)
(***************************************************************************)
EXTENDS Integers, Sequences

CONSTANTS
  CfgMaxOpenRequests,  \* ProcessorConfig.MaxOpenRequests
  MinOpenRequests,     \* minOpenRequests (16 in the code)
  SockCap,             \* frames a socket buffer holds before a write blocks
  MaxFrames,           \* bound: frames the client sends
  Kinds,               \* the kinds of frame this client sends
  Forbidden,           \* ForbiddenApiKeys
  LocalSaslEnabled,    \* LocalSasl.enabled
  AuthServerEnabled,   \* AuthServer.enabled
  Acks0Disabled,       \* ProducerAcks0Disabled
  Pipelining           \* the client sends without waiting for SASL replies

(* The kinds of frame.  "token" is a SASL token without a Kafka header     *)
(* (SaslHandshake v0), "bad" a frame the header checks reject, "other" any *)
(* request that is answered and is none of the rest.                       *)
AllKinds == {"produce", "produce0", "api", "other", "hs0", "hs1",
             "saslauth", "token", "bad"}
Handshakes == {"hs0", "hs1"}
SaslKinds  == Handshakes \cup {"saslauth", "token"}
Malformed  == {"bad", "token"}

ASSUME ConstAssumption ==
  /\ CfgMaxOpenRequests \in Int
  /\ MinOpenRequests \in Nat \ {0}
  /\ SockCap \in Nat \ {0}
  /\ MaxFrames \in Nat
  /\ Kinds \subseteq AllKinds
  /\ Forbidden \subseteq AllKinds \ {"token"}
  /\ LocalSaslEnabled \in BOOLEAN
  /\ AuthServerEnabled \in BOOLEAN
  /\ Pipelining \in BOOLEAN
  /\ Acks0Disabled \in BOOLEAN

(* The --producer-acks-0-disabled flag is the operator's promise that no   *)
(* client sends a Produce with acks=0.                                     *)
ASSUME Acks0Assumption == Acks0Disabled => "produce0" \notin Kinds

MaxOpenRequests == IF CfgMaxOpenRequests < MinOpenRequests
                   THEN MinOpenRequests ELSE CfgMaxOpenRequests

(* Capacity of nextResponseHandlerChannel: one handler waits for the       *)
(* request that has not been read yet.                                     *)
\* Fault.
TightHandlerCap    == MaxOpenRequests
ResponseHandlerCap == MaxOpenRequests + 1

VARIABLES
  \* The two sockets, one FIFO per direction, and who still holds them open.
  fromClient, toClient, toBroker, fromBroker,
  clientUp, brokerUp,       \* the peers have not closed their ends
  localOpen, remoteOpen,    \* the proxy has not closed its ends
  \* The environment.
  sent,                     \* frames the client has sent
  await,                    \* requests the client still waits for, in order
  mustToken,                \* the client's last SASL frame was a v0 handshake
  brokerToken,              \* the broker takes the next frame for a SASL token
  \* The channels of the processor.
  openRequests, nextReq, nextRsp,
  \* The requests loop: program counter, handler and frame in hand.
  req, reqHandler, reqFrame, localSaslDone,
  \* The responses loop: program counter, handler, reply and entry in hand.
  rsp, rspHandler, rspFrame, rspOpen,
  firstErr                  \* the one-element channel of copyThenClose

sockets == <<fromClient, toClient, toBroker, fromBroker>>
ends    == <<clientUp, brokerUp, localOpen, remoteOpen>>
peers   == <<sent, await, mustToken, brokerToken>>
chans   == <<openRequests, nextReq, nextRsp>>
reqVars == <<req, reqHandler, reqFrame, localSaslDone>>
rspVars == <<rsp, rspHandler, rspFrame, rspOpen>>
vars    == <<sockets, ends, peers, chans, reqVars, rspVars, firstErr>>

Handlers == {"default", "saslV0"}
ReqPcs   == {"gateway", "handler", "read", "token", "push", "write", "putRsp",
             "returned", "missing", "closing", "panicked", "done"}
RspPcs   == {"handler", "read", "pop", "write", "returned", "closing", "done"}

Request == [id : Nat, kind : AllKinds]
Reply   == [id : Nat, kind : AllKinds \cup {"garbled"}]
Frame   == [id : Nat, kind : AllKinds, token : BOOLEAN, reply : Nat, slot : Nat]
Entry   == [slot : Nat, kind : AllKinds]
RspJob  == [reply : Nat, h : Handlers]

NoFrame == [id |-> 0, kind |-> "bad", token |-> FALSE, reply |-> 0, slot |-> 0]

(* The loops have left their for-statement. *)
ReqEnded == req \in {"returned", "missing", "closing", "panicked", "done"}
RspEnded == rsp \in {"returned", "closing", "done"}

Init ==
  /\ fromClient = <<>> /\ toClient = <<>> /\ toBroker = <<>> /\ fromBroker = <<>>
  /\ clientUp = TRUE /\ brokerUp = TRUE /\ localOpen = TRUE /\ remoteOpen = TRUE
  /\ sent = 0 /\ await = <<>> /\ mustToken = FALSE /\ brokerToken = FALSE
  /\ openRequests = <<>>
  /\ nextReq = "default"
  /\ nextRsp = <<[reply |-> 1, h |-> "default"]>>
  /\ req = IF AuthServerEnabled THEN "gateway" ELSE "handler"
  /\ reqHandler = "default" /\ reqFrame = NoFrame /\ localSaslDone = FALSE
  /\ rsp = "handler" /\ rspHandler = [reply |-> 0, h |-> "default"]
  /\ rspFrame = NoFrame /\ rspOpen = [slot |-> 0, kind |-> "bad"]
  /\ firstErr = FALSE

-----------------------------------------------------------------------------
(* The environment: the Kafka client, the broker and the proxy's shutdown. *)

(* A client that does not pipeline waits for every outstanding reply       *)
(* before a SASL frame and for the SASL reply before anything else.        *)
MaySend(kind) ==
  /\ (kind = "token") = mustToken
  /\ \/ Pipelining
     \/ /\ kind \in SaslKinds => await = <<>>
        /\ \A i \in 1..Len(await) : await[i].kind \notin SaslKinds

ClientSend(kind) ==
  /\ clientUp /\ sent < MaxFrames /\ Len(fromClient) < SockCap
  /\ MaySend(kind)
  /\ LET r == [id |-> sent + 1, kind |-> kind]
     IN  /\ fromClient' = Append(fromClient, r)
         /\ await' = IF kind = "produce0" THEN await ELSE Append(await, r)
  /\ sent' = sent + 1
  /\ mustToken' = (kind = "hs0")
  /\ UNCHANGED <<toClient, toBroker, fromBroker, ends, brokerToken, chans,
                 reqVars, rspVars, firstErr>>

ClientReceive ==
  /\ clientUp /\ toClient # <<>> /\ await # <<>>
  /\ toClient' = Tail(toClient)
  /\ await' = Tail(await)
  /\ UNCHANGED <<fromClient, toBroker, fromBroker, ends, sent, mustToken,
                 brokerToken, chans, reqVars, rspVars, firstErr>>

ClientClose ==
  /\ clientUp
  /\ clientUp' = FALSE
  /\ UNCHANGED <<sockets, brokerUp, localOpen, remoteOpen, peers, chans,
                 reqVars, rspVars, firstErr>>

(* A broker serves a connection's requests one after another.  After a v0  *)
(* handshake it takes the next frame for a token, whose reply is four zero *)
(* bytes (PLAIN); it answers all but a Produce with acks=0.                *)
BrokerServe ==
  /\ brokerUp /\ toBroker # <<>>
  /\ LET f == Head(toBroker)
         answered == brokerToken \/ f.kind # "produce0"
     IN  /\ answered => Len(fromBroker) < SockCap
         /\ fromBroker' = IF answered
                          THEN Append(fromBroker, [f EXCEPT !.token = brokerToken])
                          ELSE fromBroker
         /\ brokerToken' = (~brokerToken /\ f.kind = "hs0")
  /\ toBroker' = Tail(toBroker)
  /\ UNCHANGED <<fromClient, toClient, ends, sent, await, mustToken, chans,
                 reqVars, rspVars, firstErr>>

BrokerClose ==
  /\ brokerUp
  /\ brokerUp' = FALSE
  /\ UNCHANGED <<sockets, clientUp, localOpen, remoteOpen, peers, chans,
                 reqVars, rspVars, firstErr>>

(* ConnSet.Close at shutdown closes the client connection only.            *)
ConnSetClose ==
  /\ localOpen
  /\ localOpen' = FALSE
  /\ UNCHANGED <<sockets, clientUp, brokerUp, remoteOpen, peers, chans,
                 reqVars, rspVars, firstErr>>

-----------------------------------------------------------------------------
(* The requests loop. *)

(* The gateway handshake ends under its deadline, one way or the other.    *)
GatewayAuth ==
  /\ req = "gateway"
  /\ \/ localOpen /\ req' = "handler"
     \/ req' = "returned"
  /\ UNCHANGED <<sockets, ends, peers, chans, reqHandler, reqFrame,
                 localSaslDone, rspVars, firstErr>>

GetNextRequestHandler ==
  /\ req = "handler"
  /\ IF nextReq = "none"
     THEN req' = "missing" /\ UNCHANGED <<nextReq, reqHandler>>
     ELSE req' = "read" /\ reqHandler' = nextReq /\ nextReq' = "none"
  /\ UNCHANGED <<sockets, ends, peers, openRequests, nextRsp, reqFrame,
                 localSaslDone, rspVars, firstErr>>

(* putNextRequestHandler does not wait: a full channel is an error.        *)
PutNextRequestHandler(h, pc) ==
  IF nextReq = "none" THEN nextReq' = h /\ req' = pc
                      ELSE req' = "returned" /\ UNCHANGED nextReq

(* Header checks, forbidden keys and the local SASL state of the default   *)
(* handler: what a frame of this kind leads to.                            *)
\* Fault.
AdmitsBeforeAuth(kind) ==
  \/ kind \in Malformed \cup Forbidden
  \/ LocalSaslEnabled /\ localSaslDone /\ kind \in Handshakes

Rejected(kind) ==
  \/ kind \in Malformed \cup Forbidden
  \/ LocalSaslEnabled /\ localSaslDone /\ kind \in Handshakes
  \/ LocalSaslEnabled /\ ~localSaslDone /\ kind \notin Handshakes \cup {"api"}

HandledLocally(kind) ==
  LocalSaslEnabled /\ ~localSaslDone /\ kind \in Handshakes /\ ~Rejected(kind)

\* Fault.
AlwaysReply(kind) == TRUE
MustReply(kind)   == kind # "produce0" \/ Acks0Disabled

\* Fault.
NeverPushes(kind) == "write"
PcAfterRead(kind) == IF MustReply(kind) THEN "push" ELSE "write"

CanRead == localOpen /\ fromClient # <<>>

(* The SASL v0 handler rejects only a token that is too large.             *)
ReadAndReject ==
  /\ req = "read" /\ CanRead
  /\ \/ reqHandler = "default" /\ Rejected(Head(fromClient).kind)
     \/ reqHandler = "saslV0"
  /\ fromClient' = Tail(fromClient)
  /\ req' = "returned"
  /\ UNCHANGED <<toClient, toBroker, fromBroker, ends, peers, chans, reqHandler,
                 reqFrame, localSaslDone, rspVars, firstErr>>

(* The frame is read to its end and passed through the request filters,    *)
(* any of which may fail.                                                  *)
ReadRequest ==
  /\ req = "read" /\ reqHandler = "default" /\ CanRead
  /\ LET r == Head(fromClient)
     IN  /\ ~Rejected(r.kind) /\ ~HandledLocally(r.kind)
         /\ \/ /\ req' = PcAfterRead(r.kind)
               /\ reqFrame' = [id |-> r.id, kind |-> r.kind, token |-> FALSE,
                               reply |-> reqFrame.reply + (IF MustReply(r.kind) THEN 1 ELSE 0),
                               slot |-> reqFrame.slot + (IF MustReply(r.kind) THEN 1 ELSE 0)]
            \/ req' = "returned" /\ UNCHANGED reqFrame
  /\ fromClient' = Tail(fromClient)
  /\ UNCHANGED <<toClient, toBroker, fromBroker, ends, peers, chans, reqHandler,
                 localSaslDone, rspVars, firstErr>>

(* SaslAuthV0RequestHandler: any frame is a token, and no open request.    *)
ReadSaslToken ==
  /\ req = "read" /\ reqHandler = "saslV0" /\ CanRead
  /\ req' = "write"
  /\ reqFrame' = [id |-> Head(fromClient).id, kind |-> Head(fromClient).kind,
                  token |-> TRUE, reply |-> reqFrame.reply + 1,
                  slot |-> reqFrame.slot]
  /\ fromClient' = Tail(fromClient)
  /\ UNCHANGED <<toClient, toBroker, fromBroker, ends, peers, chans, reqHandler,
                 localSaslDone, rspVars, firstErr>>

(* Closed or drained sockets fail a read; the v0 and the local SASL        *)
(* exchanges also read under a deadline.                                   *)
ReadRequestFails ==
  /\ req \in {"read", "token"}
  /\ \/ ~localOpen
     \/ fromClient = <<>> /\ ~clientUp
     \/ fromClient = <<>> /\ (req = "token" \/ reqHandler = "saslV0")
  /\ req' = "returned"
  /\ UNCHANGED <<sockets, ends, peers, chans, reqHandler, reqFrame,
                 localSaslDone, rspVars, firstErr>>

(* Local SASL: the handshake is answered even when the mechanism is not    *)
(* supported; the write may also fail.                                     *)
LocalHandshake ==
  /\ req = "read" /\ reqHandler = "default" /\ CanRead
  /\ LET r == Head(fromClient)
     IN  /\ HandledLocally(r.kind)
         /\ \/ /\ Len(toClient) < SockCap
               /\ toClient' = Append(toClient, r)
               /\ \/ req' = "token"
                  \/ req' = "returned"
            \/ req' = "returned" /\ UNCHANGED toClient
         /\ reqFrame' = [reqFrame EXCEPT !.id = r.id, !.kind = r.kind]
  /\ fromClient' = Tail(fromClient)
  /\ UNCHANGED <<toBroker, fromBroker, ends, peers, chans, reqHandler,
                 localSaslDone, rspVars, firstErr>>

(* The second half of the local exchange.  After a v1 handshake the frame  *)
(* must be a SaslAuthenticate, which is answered whatever the verdict;     *)
(* after a v0 handshake only valid credentials are answered.               *)
LocalToken ==
  /\ req = "token" /\ CanRead
  /\ LET r == Head(fromClient)
     IN  \/ /\ reqFrame.kind = "hs0" \/ r.kind = "saslauth"
            /\ Len(toClient) < SockCap
            /\ toClient' = Append(toClient, r)
            /\ localSaslDone' = TRUE
            /\ \/ PutNextRequestHandler("default", "handler")
               \/ req' = "returned" /\ UNCHANGED nextReq    \* SetDeadline fails
         \/ /\ reqFrame.kind = "hs1" /\ r.kind = "saslauth"
            /\ Len(toClient) < SockCap
            /\ toClient' = Append(toClient, r)
            /\ req' = "returned"
            /\ UNCHANGED <<localSaslDone, nextReq>>
         \/ req' = "returned" /\ UNCHANGED <<toClient, localSaslDone, nextReq>>
  /\ fromClient' = Tail(fromClient)
  /\ UNCHANGED <<toBroker, fromBroker, ends, peers, openRequests, nextRsp,
                 reqHandler, reqFrame, rspVars, firstErr>>

\* Fault.
OneTooMany   == Len(openRequests) <= MaxOpenRequests
OpenHasRoom  == Len(openRequests) < MaxOpenRequests

(* sendRequestKeyVersion: waits for room, at most openRequestSendTimeout.  *)
SendRequestKeyVersion ==
  /\ req = "push"
  /\ \/ /\ OpenHasRoom
        /\ openRequests' = Append(openRequests,
                                  [slot |-> reqFrame.slot, kind |-> reqFrame.kind])
        /\ req' = "write"
     \/ /\ ~OpenHasRoom
        /\ req' = "returned"
        /\ UNCHANGED openRequests
  /\ UNCHANGED <<sockets, ends, peers, nextReq, nextRsp, reqHandler, reqFrame,
                 localSaslDone, rspVars, firstErr>>

IsHandshakeV0(f) == ~f.token /\ f.kind = "hs0"

(* The handler of the client's next frame, and whether the frame just      *)
(* written will be answered, so that a response handler must follow.       *)
\* Fault.
NoHandlerAfterAcks0(f) == IF f.kind = "produce0" THEN "none" ELSE "default"
NextHandler(f)         == IF IsHandshakeV0(f) THEN "saslV0" ELSE "default"

\* Fault.
NeverPutsResponse(f) == "handler"
PcAfterWrite(f)      == IF f.token \/ MustReply(f.kind) THEN "putRsp" ELSE "handler"

WriteRequest ==
  /\ req = "write" /\ remoteOpen /\ Len(toBroker) < SockCap
  /\ toBroker' = Append(toBroker, reqFrame)
  /\ PutNextRequestHandler(NextHandler(reqFrame), PcAfterWrite(reqFrame))
  /\ UNCHANGED <<fromClient, toClient, fromBroker, ends, peers, openRequests,
                 nextRsp, reqHandler, reqFrame, localSaslDone, rspVars, firstErr>>

WriteRequestFails ==
  /\ req = "write"
  /\ ~remoteOpen \/ ~brokerUp \/ Len(toBroker) >= SockCap
  /\ req' = "returned"
  /\ UNCHANGED <<sockets, ends, peers, chans, reqHandler, reqFrame,
                 localSaslDone, rspVars, firstErr>>

(* Second half of putNextHandlers: waits at most openRequestSendTimeout.   *)
PutNextResponseHandler ==
  /\ req = "putRsp"
  /\ IF Len(nextRsp) < ResponseHandlerCap
     THEN /\ nextRsp' = Append(nextRsp,
                 [reply |-> reqFrame.reply + 1,
                  h |-> NextHandler(reqFrame)])
          /\ req' = "handler"
     ELSE req' = "returned" /\ UNCHANGED nextRsp
  /\ UNCHANGED <<sockets, ends, peers, openRequests, nextReq, reqHandler,
                 reqFrame, localSaslDone, rspVars, firstErr>>

-----------------------------------------------------------------------------
(* The responses loop. *)

GetNextResponseHandler ==
  /\ rsp = "handler" /\ nextRsp # <<>>
  /\ rspHandler' = Head(nextRsp)
  /\ nextRsp' = Tail(nextRsp)
  /\ rsp' = "read"
  /\ UNCHANGED <<sockets, ends, peers, openRequests, nextReq, reqVars, rspFrame,
                 rspOpen, firstErr>>

GetNextResponseHandlerTimeout ==
  /\ rsp = "handler" /\ nextRsp = <<>>
  /\ rsp' = "returned"
  /\ UNCHANGED <<sockets, ends, peers, chans, reqVars, rspHandler, rspFrame,
                 rspOpen, firstErr>>

\* Fault.
KeepsLastKeyVersion ==
  /\ rsp = "read" /\ remoteOpen /\ fromBroker # <<>>
  /\ rspFrame' = Head(fromBroker)
  /\ fromBroker' = Tail(fromBroker)
  /\ rsp' = IF rspOpen.slot = 0 THEN "pop" ELSE "write"
  /\ UNCHANGED <<fromClient, toClient, toBroker, ends, peers, chans, reqVars,
                 rspHandler, rspOpen, firstErr>>

ReadResponse ==
  /\ rsp = "read" /\ remoteOpen /\ fromBroker # <<>>
  /\ rspFrame' = Head(fromBroker)
  /\ fromBroker' = Tail(fromBroker)
  /\ rsp' = IF rspHandler.h = "default" THEN "pop" ELSE "write"
  /\ UNCHANGED <<fromClient, toClient, toBroker, ends, peers, chans, reqVars,
                 rspHandler, rspOpen, firstErr>>

(* Only the SASL v0 handler waits for the reply under a deadline.          *)
ReadResponseFails ==
  /\ rsp = "read"
  /\ \/ ~remoteOpen
     \/ fromBroker = <<>> /\ ~brokerUp
     \/ fromBroker = <<>> /\ rspHandler.h = "saslV0"
  /\ rsp' = "returned"
  /\ UNCHANGED <<sockets, ends, peers, chans, reqVars, rspHandler, rspFrame,
                 rspOpen, firstErr>>

(* receiveRequestKeyVersion: waits at most openRequestReceiveTimeout.      *)
ReceiveRequestKeyVersion ==
  /\ rsp = "pop"
  /\ IF openRequests # <<>>
     THEN /\ rspOpen' = Head(openRequests)
          /\ openRequests' = Tail(openRequests)
          /\ rsp' = "write"
     ELSE rsp' = "returned" /\ UNCHANGED <<rspOpen, openRequests>>
  /\ UNCHANGED <<sockets, ends, peers, nextReq, nextRsp, reqVars, rspHandler,
                 rspFrame, firstErr>>

(* What the client can make of the bytes: a reply read by the wrong        *)
(* handler, or with the key and version of another request, is garbled.    *)
Relayed ==
  LET sound == IF rspHandler.h = "saslV0" THEN rspFrame.token
               ELSE ~rspFrame.token /\ rspOpen.kind = rspFrame.kind
  IN  [id |-> rspFrame.id, kind |-> IF sound THEN rspFrame.kind ELSE "garbled"]

WriteResponse ==
  /\ rsp = "write" /\ localOpen /\ Len(toClient) < SockCap
  /\ toClient' = Append(toClient, Relayed)
  /\ rsp' = "handler"
  /\ UNCHANGED <<fromClient, toBroker, fromBroker, ends, peers, chans, reqVars,
                 rspHandler, rspFrame, rspOpen, firstErr>>

(* The default handler also fails on a reply it cannot decode or map, or   *)
(* that a response filter refuses.                                         *)
WriteResponseFails ==
  /\ rsp = "write"
  /\ \/ ~localOpen \/ ~clientUp \/ Len(toClient) >= SockCap
     \/ rspHandler.h = "default"
  /\ rsp' = "returned"
  /\ UNCHANGED <<sockets, ends, peers, chans, reqVars, rspHandler, rspFrame,
                 rspOpen, firstErr>>

-----------------------------------------------------------------------------
(* copyThenClose: the loop that returns first closes both connections.     *)
(* A nil error makes copyError panic, and nothing is closed.               *)

\* Fault.
ReturnsWithoutClosing ==
  /\ req \in {"returned", "missing"}
  /\ req' = "done" /\ firstErr' = TRUE
  /\ UNCHANGED <<sockets, ends, peers, chans, reqHandler, reqFrame,
                 localSaslDone, rspVars>>

RequestsLoopReturns ==
  /\ req \in {"returned", "missing"}
  /\ IF firstErr THEN req' = "done" /\ UNCHANGED firstErr
     ELSE /\ firstErr' = TRUE
          /\ req' = IF req = "missing" THEN "panicked" ELSE "closing"
  /\ UNCHANGED <<sockets, ends, peers, chans, reqHandler, reqFrame,
                 localSaslDone, rspVars>>

\* Fault.
ClosesRemoteOnly ==
  /\ req = "closing"
  /\ req' = "done" /\ remoteOpen' = FALSE
  /\ UNCHANGED <<sockets, clientUp, brokerUp, localOpen, peers, chans,
                 reqHandler, reqFrame, localSaslDone, rspVars, firstErr>>

RequestsLoopCloses ==
  /\ req = "closing"
  /\ req' = "done" /\ remoteOpen' = FALSE /\ localOpen' = FALSE
  /\ UNCHANGED <<sockets, clientUp, brokerUp, peers, chans, reqHandler,
                 reqFrame, localSaslDone, rspVars, firstErr>>

ResponsesLoopReturns ==
  /\ rsp = "returned"
  /\ rsp' = IF firstErr THEN "done" ELSE "closing"
  /\ firstErr' = TRUE
  /\ UNCHANGED <<sockets, ends, peers, chans, reqVars, rspHandler, rspFrame,
                 rspOpen>>

ResponsesLoopCloses ==
  /\ rsp = "closing"
  /\ rsp' = "done" /\ remoteOpen' = FALSE /\ localOpen' = FALSE
  /\ UNCHANGED <<sockets, clientUp, brokerUp, peers, chans, reqVars,
                 rspHandler, rspFrame, rspOpen, firstErr>>

-----------------------------------------------------------------------------

Environment ==
  \/ \E kind \in Kinds : ClientSend(kind)
  \/ ClientReceive \/ ClientClose
  \/ BrokerServe \/ BrokerClose
  \/ ConnSetClose

RequestsLoop ==
  \/ GatewayAuth \/ GetNextRequestHandler
  \/ ReadAndReject \/ ReadRequest \/ ReadSaslToken \/ ReadRequestFails
  \/ LocalHandshake \/ LocalToken
  \/ SendRequestKeyVersion \/ WriteRequest \/ WriteRequestFails
  \/ PutNextResponseHandler
  \/ RequestsLoopReturns \/ RequestsLoopCloses

ResponsesLoop ==
  \/ GetNextResponseHandler \/ GetNextResponseHandlerTimeout
  \/ ReadResponse \/ ReadResponseFails
  \/ ReceiveRequestKeyVersion
  \/ WriteResponse \/ WriteResponseFails
  \/ ResponsesLoopReturns \/ ResponsesLoopCloses

Next == Environment \/ RequestsLoop \/ ResponsesLoop

Spec == Init /\ [][Next]_vars

(* The Go scheduler runs both goroutines, and every timer and deadline     *)
(* they wait on fires; nothing is assumed of the peers.                    *)
Fairness == WF_vars(RequestsLoop) /\ WF_vars(ResponsesLoop)

FairSpec == Spec /\ Fairness

(* Also peers that keep reading what is sent to them.                      *)
LiveSpec == FairSpec /\ WF_vars(BrokerServe) /\ WF_vars(ClientReceive)

-----------------------------------------------------------------------------
TypeOK ==
  /\ fromClient \in Seq(Request) /\ toClient \in Seq(Reply)
  /\ toBroker \in Seq(Frame) /\ fromBroker \in Seq(Frame)
  /\ clientUp \in BOOLEAN /\ brokerUp \in BOOLEAN
  /\ localOpen \in BOOLEAN /\ remoteOpen \in BOOLEAN
  /\ sent \in Nat /\ await \in Seq(Request)
  /\ mustToken \in BOOLEAN /\ brokerToken \in BOOLEAN
  /\ openRequests \in Seq(Entry) /\ Len(openRequests) <= MaxOpenRequests
  /\ nextReq \in Handlers \cup {"none"}
  /\ nextRsp \in Seq(RspJob) /\ Len(nextRsp) <= ResponseHandlerCap
  /\ req \in ReqPcs /\ reqHandler \in Handlers /\ reqFrame \in Frame
  /\ localSaslDone \in BOOLEAN
  /\ rsp \in RspPcs /\ rspHandler \in RspJob /\ rspFrame \in Frame
  /\ rspOpen \in Entry
  /\ firstErr \in BOOLEAN

-----------------------------------------------------------------------------
(* Safety. *)

(* A reply is decoded, mapped and filtered with the api key and version of *)
(* the request it answers, and by the handler that its format needs        *)
(* (handleResponse): the entry taken from openRequests is that request's.  *)
ReplyReadAsItsRequest ==
  /\ rsp \in {"pop", "write"} => (rspHandler.h = "saslV0") = rspFrame.token
  /\ rsp = "write" /\ rspHandler.h = "default" =>
        rspOpen = [slot |-> rspFrame.slot, kind |-> rspFrame.kind]

(* sendRequestKeyVersion happens before the write "to prevent race         *)
(* condition in proxyResponses" (processor_default.go:121): when a reply   *)
(* header has been read its open request is already there, so              *)
(* receiveRequestKeyVersion never waits and never times out.               *)
OpenRequestPresent == rsp = "pop" => openRequests # <<>>

(* getNextResponseHandler waits only for a requests loop that has written  *)
(* the last frame and is about to put the handler, or has given up: the    *)
(* five second timeout is never a wait for a peer.                         *)
HandlerIsOnItsWay ==
  rsp = "handler" /\ nextRsp = <<>> => req = "putRsp" \/ ReqEnded

(* The requests loop always finds its next handler: the early return with  *)
(* a nil error (processor.go:213), on which copyError would panic and      *)
(* leave both connections open, is never taken.                            *)
RequestHandlerPresent == req \notin {"missing", "panicked"}

(* For a client that authenticates step by step, room for MaxOpenRequests  *)
(* + 1 handlers is enough: putNextHandlers never has to wait.              *)
ResponseHandlerFits == req = "putRsp" => Len(nextRsp) < ResponseHandlerCap

(* What the client reads are the answers to its requests, in the order it  *)
(* asked, none missing, doubled or garbled, whether the broker or the      *)
(* proxy itself (local SASL) gave them.                                    *)
RepliesInOrder ==
  \A i \in 1..Len(toClient) : i <= Len(await) /\ toClient[i] = await[i]

(* What the broker is about to execute as a request was admitted: no       *)
(* forbidden api key, and with local SASL no handshake at all and, before  *)
(* the client has authenticated, nothing but ApiVersions.                  *)
BrokerSeesOnlyAdmitted ==
  \A i \in 1..Len(toBroker) :
    LET f == toBroker[i]
        asToken == IF i = 1 THEN brokerToken ELSE IsHandshakeV0(toBroker[i - 1])
    IN  ~asToken =>
          /\ f.kind \notin Forbidden \cup Malformed
          /\ LocalSaslEnabled => /\ f.kind \notin Handshakes
                                 /\ localSaslDone \/ f.kind = "api"

(* The connection implements the reply queue its client relies on.         *)
Promise == INSTANCE ReplyQueue WITH
  Requests <- [id : 1..MaxFrames, kind : Kinds],
  pending  <- SubSeq(await, Len(toClient) + 1, Len(await)),
  replies  <- toClient,
  closed   <- ~localOpen

ImplementsReplyQueue == Promise!Spec

(* The loops keep to what handleConn relies on: one of them closes both    *)
(* sockets, once, and copyThenClose returns with the responses loop.       *)
Contract == INSTANCE CopyThenClose WITH
  localClosed  <- ~localOpen,
  serverClosed <- ~remoteOpen,
  firstErr     <- CASE req = "closing"              -> "requests"
                    [] firstErr /\ req # "closing" /\ rsp # "closing" -> "closed"
                    [] OTHER                         -> "open",
  returned     <- rsp = "done"

KeepsContract == Contract!Spec

(* Whoever ends first, the client, the broker or the proxy's shutdown,     *)
(* both goroutines end and both connections are closed.                    *)
Teardown ==
  (~clientUp \/ ~brokerUp \/ ~localOpen) ~>
     (req = "done" /\ rsp = "done" /\ ~localOpen /\ ~remoteOpen)

(* Every request that is to be answered is answered, or the client learns  *)
(* that it will not be because the connection is closed.                   *)
EveryRequestAnswered ==
  \A n \in 1..MaxFrames :
    (\E i \in 1..Len(await) : await[i].id = n) ~>
       (~localOpen \/ \A i \in 1..Len(await) : await[i].id # n)
=============================================================================
