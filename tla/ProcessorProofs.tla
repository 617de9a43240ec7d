--------------------------- MODULE ProcessorProofs ---------------------------
(***************************************************************************)
(* Proofs about Processor: type correctness, and that every reply is read  *)
(* by the handler, and with the api key and version, of the request it     *)
(* answers, for every client, every capacity of the channels and every     *)
(* configuration of the connection.                                        *)
(***************************************************************************)
EXTENDS Processor, TLAPS

Num(b) == IF b THEN 1 ELSE 0

(* The broker answers the frame; the frame has an entry in openRequests.   *)
Demands(f)   == f.token \/ f.kind # "produce0"
TakesSlot(f) == ~f.token /\ f.kind # "produce0"

(* The numbers of s continue those of the frame base, and a frame is a     *)
(* token exactly when a v0 handshake precedes it (tok, for the first one). *)
FrameChain(s, base, tok) ==
  \A i \in 1..Len(s) :
    /\ s[i].reply = (IF i = 1 THEN base.reply ELSE s[i-1].reply) + Num(Demands(s[i]))
    /\ s[i].slot  = (IF i = 1 THEN base.slot  ELSE s[i-1].slot) + Num(TakesSlot(s[i]))
    /\ s[i].token <=> (IF i = 1 THEN tok ELSE IsHandshakeV0(s[i-1]))

(* The same for replies, each of which is an answered frame.               *)
ReplyChain(s, base) ==
  \A i \in 1..Len(s) :
    /\ Demands(s[i])
    /\ s[i].reply = base.reply + i
    /\ s[i].slot  = (IF i = 1 THEN base.slot ELSE s[i-1].slot) + Num(TakesSlot(s[i]))

LastAnswered  == IF fromBroker = <<>> THEN rspFrame ELSE fromBroker[Len(fromBroker)]
LastForwarded == IF toBroker = <<>> THEN LastAnswered ELSE toBroker[Len(toBroker)]
NextIsToken   == IF toBroker = <<>> THEN brokerToken
                 ELSE IsHandshakeV0(toBroker[Len(toBroker)])

(* The frame in hand has not been written to the broker yet; its response  *)
(* handler has not been put yet.                                           *)
InHand == req \in {"push", "write"}
Unput  == req \in {"push", "write", "putRsp"} /\ Demands(reqFrame)

Acks0Inv ==
  Acks0Disabled => /\ \A i \in 1..Len(fromClient) : fromClient[i].kind # "produce0"
                   /\ InHand => reqFrame.kind # "produce0"

(* The frames between the loops, in order.                                 *)
NotAfter(f, g) == f.reply <= g.reply /\ f.slot <= g.slot

PipeInv ==
  /\ ReplyChain(fromBroker, rspFrame)
  /\ FrameChain(toBroker, LastAnswered, brokerToken)
  /\ NotAfter(rspFrame, LastForwarded)
  /\ \A i \in 1..Len(fromBroker) : NotAfter(fromBroker[i], LastForwarded)
  /\ \A i \in 1..Len(toBroker) : NotAfter(toBroker[i], LastForwarded)

(* Where the requests loop stands relative to the last forwarded frame.    *)
ReqInv ==
  ~ReqEnded =>
    /\ reqFrame.reply = LastForwarded.reply + (IF InHand THEN Num(Demands(reqFrame)) ELSE 0)
    /\ reqFrame.slot  = LastForwarded.slot + (IF InHand THEN Num(TakesSlot(reqFrame)) ELSE 0)
    /\ req = "push" => TakesSlot(reqFrame)
    /\ req = "putRsp" => Demands(reqFrame)
    /\ req = "token" => reqHandler = "default"
    /\ req \in {"gateway", "handler"} => (NextIsToken <=> nextReq = "saslV0")
    /\ req \in {"read", "token"} => (NextIsToken <=> reqHandler = "saslV0")
    /\ InHand => (NextIsToken <=> reqFrame.token)
    /\ req = "putRsp" => (NextIsToken <=> IsHandshakeV0(reqFrame))
    /\ nextReq = "none" <=> req \in {"read", "token", "push", "write"}
    /\ req = "putRsp" => nextReq = NextHandler(reqFrame)

(* Where the responses loop stands.                                        *)
RspInv ==
  /\ rsp = "read" => rspHandler.reply = rspFrame.reply + 1
  /\ rsp \in {"handler", "pop", "write"} => rspHandler.reply = rspFrame.reply
  /\ rsp \in {"handler", "read", "write"} => rspOpen.slot = rspFrame.slot
  /\ rsp = "pop" => rspOpen.slot = rspFrame.slot - 1 /\ rspHandler.h = "default"
  /\ rsp \in {"pop", "write"} => (rspHandler.h = "saslV0" <=> rspFrame.token)

(* The entries of openRequests: numbered without a gap, never behind the   *)
(* frames, and of the kind of the frame with the same number.              *)
OpenInv ==
  /\ \A i \in 1..Len(openRequests) : openRequests[i].slot = rspOpen.slot + i
  /\ rspOpen.slot + Len(openRequests) >= LastForwarded.slot
  /\ ~ReqEnded => rspOpen.slot + Len(openRequests) = reqFrame.slot - Num(req = "push")

OpenKindInv ==
  /\ \A i \in 1..Len(openRequests) :
       /\ \A j \in 1..Len(fromBroker) :
             TakesSlot(fromBroker[j]) /\ fromBroker[j].slot = openRequests[i].slot
               => fromBroker[j].kind = openRequests[i].kind
       /\ \A j \in 1..Len(toBroker) :
             TakesSlot(toBroker[j]) /\ toBroker[j].slot = openRequests[i].slot
               => toBroker[j].kind = openRequests[i].kind
       /\ req = "write" /\ TakesSlot(reqFrame) /\ reqFrame.slot = openRequests[i].slot
               => reqFrame.kind = openRequests[i].kind
       /\ rsp = "pop" /\ rspFrame.slot = openRequests[i].slot
               => rspFrame.kind = openRequests[i].kind
  /\ rsp = "write" /\ rspHandler.h = "default" => rspOpen.kind = rspFrame.kind

(* The queued response handlers, and that each has the type of the frame   *)
(* with the same number.                                                   *)
HandlerInv ==
  /\ \A i \in 1..Len(nextRsp) : nextRsp[i].reply = rspHandler.reply + i
  /\ ~ReqEnded => rspHandler.reply + Len(nextRsp) = reqFrame.reply + Num(~Unput)

JobMatches(x) ==
  /\ \A j \in 1..Len(fromBroker) :
        fromBroker[j].reply = x.reply => (x.h = "saslV0" <=> fromBroker[j].token)
  /\ \A j \in 1..Len(toBroker) :
        Demands(toBroker[j]) /\ toBroker[j].reply = x.reply
          => (x.h = "saslV0" <=> toBroker[j].token)
  /\ InHand /\ Demands(reqFrame) /\ reqFrame.reply = x.reply
          => (x.h = "saslV0" <=> reqFrame.token)
  /\ ~ReqEnded /\ ~Unput /\ x.reply = reqFrame.reply + 1
          => (x.h = "saslV0" <=> NextIsToken)

JobInv ==
  /\ \A i \in 1..Len(nextRsp) : JobMatches(nextRsp[i])
  /\ rsp = "read" => JobMatches(rspHandler)

IInv ==
  /\ TypeOK /\ RequestHandlerPresent /\ Acks0Inv /\ PipeInv /\ ReqInv /\ RspInv
  /\ OpenInv /\ OpenKindInv /\ HandlerInv /\ JobInv

-----------------------------------------------------------------------------
(* Type correctness. *)

LEMMA CapsAreNat == MaxOpenRequests \in Nat /\ ResponseHandlerCap \in Nat
  BY ConstAssumption DEF MaxOpenRequests, ResponseHandlerCap

LEMMA HeadTailType ==
  ASSUME NEW S, NEW s \in Seq(S), s # <<>>
  PROVE  Head(s) \in S /\ Tail(s) \in Seq(S) /\ Len(Tail(s)) = Len(s) - 1
  OBVIOUS

LEMMA AppendType ==
  ASSUME NEW S, NEW s \in Seq(S), NEW e \in S
  PROVE  Append(s, e) \in Seq(S) /\ Len(Append(s, e)) = Len(s) + 1
  OBVIOUS

LEMMA RequestIsReply == \A r \in Request : r \in Reply /\ r.id \in Nat /\ r.kind \in AllKinds
  BY DEF Request, Reply

LEMMA FrameFields ==
  \A f \in Frame : /\ f.id \in Nat /\ f.kind \in AllKinds /\ f.token \in BOOLEAN
                    /\ f.reply \in Nat /\ f.slot \in Nat
  BY DEF Frame

LEMMA TypeInit == Init => TypeOK
  <1> SUFFICES ASSUME Init PROVE TypeOK
    OBVIOUS
  <1>1. /\ [reply |-> 1, h |-> "default"] \in RspJob
        /\ [reply |-> 0, h |-> "default"] \in RspJob
        /\ NoFrame \in Frame /\ [slot |-> 0, kind |-> "bad"] \in Entry
    BY DEF RspJob, Handlers, NoFrame, Frame, Entry, AllKinds
  <1>2. nextRsp \in Seq(RspJob) /\ Len(nextRsp) <= ResponseHandlerCap
    BY <1>1, CapsAreNat DEF Init, ResponseHandlerCap
  <1>3. openRequests \in Seq(Entry) /\ Len(openRequests) <= MaxOpenRequests
    BY CapsAreNat DEF Init
  <1>4. req \in ReqPcs /\ rsp \in RspPcs /\ reqHandler \in Handlers
        /\ nextReq \in Handlers \cup {"none"}
    BY DEF Init, ReqPcs, RspPcs, Handlers
  <1>5. /\ fromClient \in Seq(Request) /\ toClient \in Seq(Reply)
        /\ toBroker \in Seq(Frame) /\ fromBroker \in Seq(Frame)
        /\ sent \in Nat /\ await \in Seq(Request)
    BY DEF Init
  <1>6. /\ clientUp \in BOOLEAN /\ brokerUp \in BOOLEAN
        /\ localOpen \in BOOLEAN /\ remoteOpen \in BOOLEAN
        /\ mustToken \in BOOLEAN /\ brokerToken \in BOOLEAN
        /\ localSaslDone \in BOOLEAN /\ firstErr \in BOOLEAN
    BY Zenon DEF Init
  <1>7. reqFrame \in Frame /\ rspHandler \in RspJob /\ rspFrame \in Frame
        /\ rspOpen \in Entry
    BY <1>1 DEF Init
  <1> QED BY <1>2, <1>3, <1>4, <1>5, <1>6, <1>7 DEF TypeOK

LEMMA TypeEnvironment == TypeOK /\ Environment => TypeOK'
  <1> SUFFICES ASSUME TypeOK, Environment PROVE TypeOK'
    OBVIOUS
  <1> USE DEF TypeOK, sockets, ends, peers, chans, reqVars, rspVars
  <1>1. ASSUME NEW kind \in Kinds, ClientSend(kind) PROVE TypeOK'
    <2>1. [id |-> sent + 1, kind |-> kind] \in Request
      BY ConstAssumption DEF Request
    <2> QED BY <1>1, <2>1 DEF ClientSend
  <1>2. CASE ClientReceive BY <1>2 DEF ClientReceive
  <1>3. CASE ClientClose BY <1>3 DEF ClientClose
  <1>4. CASE BrokerServe
    <2>0. Head(toBroker) \in Frame /\ Tail(toBroker) \in Seq(Frame)
      BY <1>4, HeadTailType DEF BrokerServe
    <2>1. [Head(toBroker) EXCEPT !.token = brokerToken] \in Frame
      <3> HIDE DEF TypeOK
      <3>1. brokerToken \in BOOLEAN BY DEF TypeOK
      <3> QED BY <2>0, <3>1 DEF Frame
    <2>2. fromBroker' \in Seq(Frame)
      BY <1>4, <2>1 DEF BrokerServe
    <2>3. brokerToken' \in BOOLEAN
      BY <1>4 DEF BrokerServe
    <2> QED BY <1>4, <2>0, <2>2, <2>3 DEF BrokerServe
  <1>5. CASE BrokerClose BY <1>5 DEF BrokerClose
  <1>6. CASE ConnSetClose BY <1>6 DEF ConnSetClose
  <1> QED BY <1>1, <1>2, <1>3, <1>4, <1>5, <1>6 DEF Environment

LEMMA TypeRequestsLoop == TypeOK /\ RequestsLoop => TypeOK'
  <1> SUFFICES ASSUME TypeOK, RequestsLoop PROVE TypeOK'
    OBVIOUS
  <1> USE DEF TypeOK, sockets, ends, peers, chans, reqVars, rspVars, ReqPcs
  <1>1. CASE GatewayAuth BY <1>1 DEF GatewayAuth
  <1>2. CASE GetNextRequestHandler
    BY <1>2 DEF GetNextRequestHandler, Handlers
  <1>3. CASE ReadAndReject BY <1>3 DEF ReadAndReject, CanRead
  <1>4. CASE ReadRequest
    <2>0. Head(fromClient) \in Request /\ Tail(fromClient) \in Seq(Request)
      BY <1>4, HeadTailType DEF ReadRequest, CanRead
    <2>1. reqFrame' \in Frame
      <3> HIDE DEF TypeOK
      <3>1. reqFrame \in Frame BY DEF TypeOK
      <3>2. /\ reqFrame.reply \in Nat /\ reqFrame.slot \in Nat
            /\ Head(fromClient).id \in Nat /\ Head(fromClient).kind \in AllKinds
        BY <2>0, <3>1, RequestIsReply, FrameFields
      <3>3. CASE UNCHANGED reqFrame BY <3>1, <3>3
      <3>4. CASE reqFrame' = [id |-> Head(fromClient).id, kind |-> Head(fromClient).kind,
                 token |-> FALSE,
                 reply |-> reqFrame.reply + (IF MustReply(Head(fromClient).kind) THEN 1 ELSE 0),
                 slot |-> reqFrame.slot + (IF MustReply(Head(fromClient).kind) THEN 1 ELSE 0)]
        BY <3>2, <3>4 DEF Frame
      <3> QED BY <1>4, <3>3, <3>4 DEF ReadRequest
    <2> QED BY <2>0, <1>4, <2>1 DEF ReadRequest, CanRead, PcAfterRead
  <1>5. CASE ReadSaslToken
    <2>0. Head(fromClient) \in Request /\ Tail(fromClient) \in Seq(Request)
      BY <1>5, HeadTailType DEF ReadSaslToken, CanRead
    <2>1. reqFrame' \in Frame
      <3> HIDE DEF TypeOK
      <3>1. reqFrame \in Frame BY DEF TypeOK
      <3>2. /\ reqFrame.reply \in Nat /\ reqFrame.slot \in Nat
            /\ Head(fromClient).id \in Nat /\ Head(fromClient).kind \in AllKinds
        BY <2>0, <3>1, RequestIsReply, FrameFields
      <3> QED BY <1>5, <3>1, <3>2 DEF ReadSaslToken, Frame
    <2> QED BY <2>0, <1>5, <2>1 DEF ReadSaslToken, CanRead
  <1>6. CASE ReadRequestFails BY <1>6 DEF ReadRequestFails
  <1>7. CASE LocalHandshake
    <2>0. Head(fromClient) \in Request /\ Tail(fromClient) \in Seq(Request)
      BY <1>7, HeadTailType DEF LocalHandshake, CanRead
    <2>1. Head(fromClient) \in Reply
      BY <2>0, RequestIsReply
    <2>2. reqFrame' \in Frame
      <3> HIDE DEF TypeOK
      <3>1. reqFrame \in Frame BY DEF TypeOK
      <3>2. Head(fromClient).id \in Nat /\ Head(fromClient).kind \in AllKinds
        BY <2>0, RequestIsReply
      <3> QED BY <1>7, <3>1, <3>2 DEF LocalHandshake, Frame
    <2>3. toClient' \in Seq(Reply)
      <3>1. Append(toClient, Head(fromClient)) \in Seq(Reply)
        BY <2>1, AppendType
      <3> QED BY <1>7, <3>1 DEF LocalHandshake
    <2> QED BY <1>7, <2>0, <2>2, <2>3 DEF LocalHandshake, CanRead
  <1>8. CASE LocalToken
    <2>0. Head(fromClient) \in Request /\ Tail(fromClient) \in Seq(Request)
      BY <1>8, HeadTailType DEF LocalToken, CanRead
    <2>1. Head(fromClient) \in Reply
      BY <2>0, RequestIsReply
    <2>2. toClient' \in Seq(Reply)
      <3>1. Append(toClient, Head(fromClient)) \in Seq(Reply)
        BY <2>1, AppendType
      <3> QED BY <1>8, <3>1 DEF LocalToken
    <2>3. nextReq' \in Handlers \cup {"none"} /\ req' \in ReqPcs
      BY <1>8 DEF LocalToken, PutNextRequestHandler, Handlers
    <2>4. localSaslDone' \in BOOLEAN
      BY <1>8 DEF LocalToken
    <2> QED BY <1>8, <2>0, <2>2, <2>3, <2>4 DEF LocalToken, CanRead
  <1>9. CASE SendRequestKeyVersion
    <2>1. [slot |-> reqFrame.slot, kind |-> reqFrame.kind] \in Entry
      BY DEF Frame, Entry
    <2>2. openRequests' \in Seq(Entry) /\ Len(openRequests') <= MaxOpenRequests
      <3> DEFINE e == [slot |-> reqFrame.slot, kind |-> reqFrame.kind]
      <3>1. /\ Append(openRequests, e) \in Seq(Entry)
            /\ Len(Append(openRequests, e)) = Len(openRequests) + 1
        BY <2>1, AppendType
      <3>2. Len(openRequests) \in Nat /\ Len(openRequests) <= MaxOpenRequests
            /\ openRequests \in Seq(Entry)
        OBVIOUS
      <3>3. \/ openRequests' = Append(openRequests, e) /\ Len(openRequests) < MaxOpenRequests
            \/ openRequests' = openRequests
        BY <1>9 DEF SendRequestKeyVersion, OpenHasRoom
      <3> HIDE DEF e, TypeOK
      <3> QED BY <3>1, <3>2, <3>3, CapsAreNat
    <2> QED BY <1>9, <2>2 DEF SendRequestKeyVersion
  <1>10. CASE WriteRequest
    BY <1>10 DEF WriteRequest, PutNextRequestHandler, NextHandler, PcAfterWrite, Handlers
  <1>11. CASE WriteRequestFails BY <1>11 DEF WriteRequestFails
  <1>12. CASE PutNextResponseHandler
    <2>1. [reply |-> reqFrame.reply + 1, h |-> NextHandler(reqFrame)] \in RspJob
      BY DEF Frame, RspJob, NextHandler, Handlers
    <2>2. nextRsp' \in Seq(RspJob) /\ Len(nextRsp') <= ResponseHandlerCap
      <3> DEFINE e == [reply |-> reqFrame.reply + 1, h |-> NextHandler(reqFrame)]
      <3>1. /\ Append(nextRsp, e) \in Seq(RspJob)
            /\ Len(Append(nextRsp, e)) = Len(nextRsp) + 1
        BY <2>1, AppendType
      <3>2. Len(nextRsp) \in Nat /\ Len(nextRsp) <= ResponseHandlerCap
            /\ nextRsp \in Seq(RspJob)
        OBVIOUS
      <3>3. \/ nextRsp' = Append(nextRsp, e) /\ Len(nextRsp) < ResponseHandlerCap
            \/ nextRsp' = nextRsp
        BY <1>12 DEF PutNextResponseHandler
      <3> HIDE DEF e, TypeOK
      <3> QED BY <3>1, <3>2, <3>3, CapsAreNat
    <2> QED BY <1>12, <2>2 DEF PutNextResponseHandler
  <1>13. CASE RequestsLoopReturns BY <1>13 DEF RequestsLoopReturns
  <1>14. CASE RequestsLoopCloses BY <1>14 DEF RequestsLoopCloses
  <1> QED BY <1>1, <1>2, <1>3, <1>4, <1>5, <1>6, <1>7, <1>8, <1>9, <1>10, <1>11,
             <1>12, <1>13, <1>14 DEF RequestsLoop

LEMMA TypeResponsesLoop == TypeOK /\ ResponsesLoop => TypeOK'
  <1> SUFFICES ASSUME TypeOK, ResponsesLoop PROVE TypeOK'
    OBVIOUS
  <1> USE DEF TypeOK, sockets, ends, peers, chans, reqVars, rspVars, RspPcs
  <1>1. CASE GetNextResponseHandler
    BY <1>1, CapsAreNat DEF GetNextResponseHandler
  <1>2. CASE GetNextResponseHandlerTimeout BY <1>2 DEF GetNextResponseHandlerTimeout
  <1>3. CASE ReadResponse BY <1>3 DEF ReadResponse
  <1>4. CASE ReadResponseFails BY <1>4 DEF ReadResponseFails
  <1>5. CASE ReceiveRequestKeyVersion
    <2>1. openRequests # <<>> =>
            /\ Head(openRequests) \in Entry /\ Tail(openRequests) \in Seq(Entry)
            /\ Len(Tail(openRequests)) = Len(openRequests) - 1
      BY HeadTailType
    <2>2. openRequests' \in Seq(Entry) /\ Len(openRequests') <= MaxOpenRequests
      <3>1. Len(openRequests) \in Nat /\ Len(openRequests) <= MaxOpenRequests
            /\ openRequests \in Seq(Entry)
        OBVIOUS
      <3>2. \/ openRequests' = Tail(openRequests) /\ openRequests # <<>>
            \/ openRequests' = openRequests
        BY <1>5 DEF ReceiveRequestKeyVersion
      <3> HIDE DEF TypeOK
      <3> QED BY <2>1, <3>1, <3>2, CapsAreNat
    <2> QED BY <1>5, <2>1, <2>2 DEF ReceiveRequestKeyVersion
  <1>6. CASE WriteResponse
    <2>1. Relayed \in Reply
      BY DEF Relayed, Reply, Frame
    <2> QED BY <1>6, <2>1 DEF WriteResponse
  <1>7. CASE WriteResponseFails BY <1>7 DEF WriteResponseFails
  <1>8. CASE ResponsesLoopReturns BY <1>8 DEF ResponsesLoopReturns
  <1>9. CASE ResponsesLoopCloses BY <1>9 DEF ResponsesLoopCloses
  <1> QED BY <1>1, <1>2, <1>3, <1>4, <1>5, <1>6, <1>7, <1>8, <1>9 DEF ResponsesLoop

LEMMA TypeNext == TypeOK /\ [Next]_vars => TypeOK'
  <1> SUFFICES ASSUME TypeOK, [Next]_vars PROVE TypeOK'
    OBVIOUS
  <1>1. CASE UNCHANGED vars
    BY <1>1 DEF TypeOK, vars, sockets, ends, peers, chans, reqVars, rspVars
  <1> QED BY <1>1, TypeEnvironment, TypeRequestsLoop, TypeResponsesLoop DEF Next

(* Every variable keeps its type; in particular neither channel ever holds *)
(* more than the capacity newProcessor gives it.                           *)
THEOREM TypeCorrect == Spec => []TypeOK
  <1> QED BY TypeInit, TypeNext, PTL DEF Spec

-----------------------------------------------------------------------------
(* The inductive invariant. *)

LEMMA TailAt ==
  ASSUME NEW S, NEW s \in Seq(S), s # <<>>
  PROVE  /\ Len(s) \in Nat /\ Len(s) >= 1 /\ Len(Tail(s)) = Len(s) - 1
         /\ Head(s) = s[1] /\ 1 \in 1..Len(s)
         /\ \A i \in 1..Len(Tail(s)) : i + 1 \in 1..Len(s) /\ Tail(s)[i] = s[i + 1]
  OBVIOUS

LEMMA AppendAt ==
  ASSUME NEW S, NEW s \in Seq(S), NEW e \in S
  PROVE  /\ Len(s) \in Nat /\ Len(Append(s, e)) = Len(s) + 1
         /\ Append(s, e)[Len(s) + 1] = e
         /\ \A i \in 1..Len(s) : Append(s, e)[i] = s[i]
         /\ \A i \in 1..Len(Append(s, e)) : i \in 1..Len(s) \/ i = Len(s) + 1
  OBVIOUS

LEMMA PipeTypes ==
  ASSUME TypeOK
  PROVE  /\ LastAnswered \in Frame /\ LastForwarded \in Frame
         /\ LastForwarded.reply \in Nat /\ LastForwarded.slot \in Nat
  <1>1. /\ fromBroker \in Seq(Frame) /\ toBroker \in Seq(Frame) /\ rspFrame \in Frame
    BY DEF TypeOK
  <1>2. LastAnswered \in Frame
    BY <1>1 DEF LastAnswered
  <1>3. LastForwarded \in Frame
    BY <1>1, <1>2 DEF LastForwarded
  <1> QED BY <1>2, <1>3, FrameFields

LEMMA Elements ==
  ASSUME NEW s \in Seq(Frame)
  PROVE  \A i \in 1..Len(s) : s[i] \in Frame /\ s[i].reply \in Nat /\ s[i].slot \in Nat
  <1>1. \A i \in 1..Len(s) : s[i] \in Frame OBVIOUS
  <1> QED BY <1>1, FrameFields

(* No frame between the loops is numbered beyond the last forwarded one.   *)
LEMMA PipeBounds ==
  ASSUME TypeOK, PipeInv
  PROVE  /\ \A j \in 1..Len(fromBroker) :
               /\ fromBroker[j].slot \in Nat /\ fromBroker[j].slot <= LastForwarded.slot
               /\ fromBroker[j].reply \in Nat /\ fromBroker[j].reply <= LastForwarded.reply
         /\ \A j \in 1..Len(toBroker) :
               /\ toBroker[j].slot \in Nat /\ toBroker[j].slot <= LastForwarded.slot
               /\ toBroker[j].reply \in Nat /\ toBroker[j].reply <= LastForwarded.reply
         /\ rspFrame.slot <= LastForwarded.slot /\ rspFrame.reply <= LastForwarded.reply
         /\ rspFrame.slot \in Nat /\ rspFrame.reply \in Nat
  <1>1. fromBroker \in Seq(Frame) /\ toBroker \in Seq(Frame) /\ rspFrame \in Frame
    BY DEF TypeOK
  <1> QED BY <1>1, Elements, FrameFields DEF PipeInv, NotAfter

(* The part of the state the invariant reads.                              *)
pipeVars == <<fromBroker, toBroker, rspFrame, brokerToken>>
reqState == <<openRequests, nextReq, nextRsp, req, reqHandler, reqFrame>>
rspState == <<rsp, rspHandler, rspOpen>>

LEMMA PipeUnchanged ==
  ASSUME PipeInv, UNCHANGED pipeVars
  PROVE  /\ PipeInv' /\ LastForwarded' = LastForwarded
         /\ (NextIsToken' <=> NextIsToken)
  BY DEF PipeInv, pipeVars, ReplyChain, FrameChain, LastAnswered, LastForwarded,
         NextIsToken, NotAfter, Demands, TakesSlot, Num, IsHandshakeV0

(* A step that leaves the state of both loops and the pipe alone.          *)
LEMMA CoreUnchanged ==
  ASSUME IInv, TypeOK', Acks0Inv', UNCHANGED <<pipeVars, reqState, rspState>>
  PROVE  IInv'
  <1>1. PipeInv' /\ LastForwarded' = LastForwarded /\ (NextIsToken' <=> NextIsToken)
    BY PipeUnchanged DEF IInv
  <1> USE DEF IInv, pipeVars, reqState, rspState
  <1>2. RequestHandlerPresent' BY DEF RequestHandlerPresent
  <1>3. ReqInv'
    BY <1>1 DEF ReqInv, ReqEnded, InHand, Demands, TakesSlot, NextHandler, IsHandshakeV0
  <1>4. RspInv' BY DEF RspInv
  <1>5. OpenInv' BY <1>1 DEF OpenInv, ReqEnded
  <1>6. OpenKindInv' BY DEF OpenKindInv, TakesSlot
  <1>7. HandlerInv' BY DEF HandlerInv, ReqEnded, Unput, Demands
  <1>8. JobInv' BY <1>1 DEF JobInv, JobMatches, ReqEnded, InHand, Unput, Demands
  <1> QED BY <1>1, <1>2, <1>3, <1>4, <1>5, <1>6, <1>7, <1>8

(* The requests loop gives up: what is on its way stays in order.          *)
LEMMA ReqEnds ==
  ASSUME IInv, TypeOK', req' \in {"returned", "closing", "done"},
         fromClient' = fromClient \/ (fromClient # <<>> /\ fromClient' = Tail(fromClient)),
         UNCHANGED <<pipeVars, rspState, openRequests, nextRsp>>
  PROVE  IInv'
  <1>1. PipeInv' /\ LastForwarded' = LastForwarded /\ (NextIsToken' <=> NextIsToken)
    BY PipeUnchanged DEF IInv
  <1>2. Acks0Inv'
    <2>1. fromClient \in Seq(Request)
      BY DEF IInv, TypeOK
    <2>2. Acks0Disabled => \A i \in 1..Len(fromClient) : fromClient[i].kind # "produce0"
      BY DEF IInv, Acks0Inv
    <2>3. Acks0Disabled => \A i \in 1..Len(fromClient') : fromClient'[i].kind # "produce0"
      BY <2>1, <2>2, TailAt
    <2> QED BY <2>3 DEF Acks0Inv, InHand
  <1> USE DEF IInv, pipeVars, rspState
  <1>3. RequestHandlerPresent' BY DEF RequestHandlerPresent
  <1>4. ReqInv' BY DEF ReqInv, ReqEnded
  <1>5. RspInv' BY DEF RspInv
  <1>6. OpenInv' BY <1>1 DEF OpenInv, ReqEnded
  <1>7. OpenKindInv' BY DEF OpenKindInv, TakesSlot
  <1>8. HandlerInv' BY DEF HandlerInv, ReqEnded
  <1>9. JobInv' BY DEF JobInv, JobMatches, ReqEnded, InHand, Demands
  <1> QED BY <1>1, <1>2, <1>3, <1>4, <1>5, <1>6, <1>7, <1>8, <1>9

(* The responses loop gives up, or goes on to the next handler after it    *)
(* has written a reply.                                                    *)
LEMMA RspMoves ==
  ASSUME IInv, TypeOK',
         rsp' \in {"returned", "closing", "done"} \/ (rsp = "write" /\ rsp' = "handler"),
         UNCHANGED <<fromClient, pipeVars, reqState, rspHandler, rspOpen>>
  PROVE  IInv'
  <1>1. PipeInv' /\ LastForwarded' = LastForwarded /\ (NextIsToken' <=> NextIsToken)
    BY PipeUnchanged DEF IInv
  <1> USE DEF IInv, pipeVars, reqState
  <1>2. Acks0Inv' BY DEF Acks0Inv, InHand
  <1>3. RequestHandlerPresent' BY DEF RequestHandlerPresent
  <1>4. ReqInv'
    BY <1>1 DEF ReqInv, ReqEnded, InHand, Demands, TakesSlot, NextHandler, IsHandshakeV0
  <1>5. RspInv' BY DEF RspInv
  <1>6. OpenInv' BY <1>1 DEF OpenInv, ReqEnded
  <1>7. OpenKindInv' BY DEF OpenKindInv, TakesSlot
  <1>8. HandlerInv' BY DEF HandlerInv, ReqEnded, Unput, Demands
  <1>9. JobInv' BY <1>1 DEF JobInv, JobMatches, ReqEnded, InHand, Unput, Demands
  <1> QED BY <1>1, <1>2, <1>3, <1>4, <1>5, <1>6, <1>7, <1>8, <1>9

-----------------------------------------------------------------------------
(* The requests loop, action by action. *)

LEMMA InvGatewayAuth ==
  ASSUME IInv, TypeOK', GatewayAuth PROVE IInv'
  <1> USE DEF GatewayAuth, sockets, peers, chans, rspVars
  <1>1. CASE req' = "returned"
    BY <1>1, ReqEnds DEF pipeVars, rspState
  <1>2. CASE req = "gateway" /\ req' = "handler"
    <2>1. UNCHANGED <<fromClient, pipeVars, openRequests, nextReq, nextRsp, reqHandler,
                      reqFrame, rspState>>
      BY DEF pipeVars, rspState
    <2>2. PipeInv' /\ LastForwarded' = LastForwarded /\ (NextIsToken' <=> NextIsToken)
      BY <2>1, PipeUnchanged DEF IInv
    <2> HIDE DEF GatewayAuth
    <2> USE <1>2, <2>1 DEF IInv, pipeVars, rspState
    <2>3. Acks0Inv' BY DEF Acks0Inv, InHand
    <2>4. RequestHandlerPresent' BY DEF RequestHandlerPresent
    <2>5. ReqInv'
      BY <2>2 DEF ReqInv, ReqEnded, InHand, Demands, TakesSlot
    <2>6. RspInv' BY DEF RspInv
    <2>7. OpenInv' BY <2>2 DEF OpenInv, ReqEnded, Num
    <2>8. OpenKindInv' BY DEF OpenKindInv, TakesSlot
    <2>9. HandlerInv' BY DEF HandlerInv, ReqEnded, Unput, Num
    <2>10. JobInv' BY <2>2 DEF JobInv, JobMatches, ReqEnded, InHand, Unput, Demands
    <2> QED BY <2>2, <2>3, <2>4, <2>5, <2>6, <2>7, <2>8, <2>9, <2>10
  <1> QED BY <1>1, <1>2

LEMMA InvGetNextRequestHandler ==
  ASSUME IInv, TypeOK', GetNextRequestHandler PROVE IInv'
  <1>1. /\ req = "handler" /\ req' = "read" /\ nextReq # "none"
        /\ reqHandler' = nextReq /\ nextReq' = "none"
        /\ UNCHANGED <<fromClient, pipeVars, openRequests, nextRsp, reqFrame, rspState>>
    BY DEF GetNextRequestHandler, sockets, peers, rspVars, pipeVars, rspState, IInv,
           ReqInv, ReqEnded
  <1>2. PipeInv' /\ LastForwarded' = LastForwarded /\ (NextIsToken' <=> NextIsToken)
    BY <1>1, PipeUnchanged DEF IInv
  <1> USE <1>1 DEF IInv, pipeVars, rspState
  <1>3. Acks0Inv' BY DEF Acks0Inv, InHand
  <1>4. RequestHandlerPresent' BY DEF RequestHandlerPresent
  <1>5. ReqInv'
    BY <1>2 DEF ReqInv, ReqEnded, InHand, Demands, TakesSlot
  <1>6. RspInv' BY DEF RspInv
  <1>7. OpenInv' BY <1>2 DEF OpenInv, ReqEnded, Num
  <1>8. OpenKindInv' BY DEF OpenKindInv, TakesSlot
  <1>9. HandlerInv' BY DEF HandlerInv, ReqEnded, Unput, Num
  <1>10. JobInv' BY <1>2 DEF JobInv, JobMatches, ReqEnded, InHand, Unput, Demands
  <1> QED BY <1>2, <1>3, <1>4, <1>5, <1>6, <1>7, <1>8, <1>9, <1>10

(* A frame has been read and numbered: what ReadRequest and ReadSaslToken  *)
(* have in common.                                                         *)
LEMMA FrameRead ==
  ASSUME IInv, TypeOK', Acks0Inv', req = "read",
         reqFrame'.token <=> reqHandler = "saslV0",
         reqFrame'.reply = reqFrame.reply + Num(Demands(reqFrame')),
         reqFrame'.slot = reqFrame.slot + Num(TakesSlot(reqFrame')),
         req' = IF TakesSlot(reqFrame') THEN "push" ELSE "write",
         UNCHANGED <<pipeVars, openRequests, nextReq, nextRsp, reqHandler, rspState>>
  PROVE  IInv'
  <1>1. PipeInv' /\ LastForwarded' = LastForwarded /\ (NextIsToken' <=> NextIsToken)
    BY PipeUnchanged DEF IInv
  <1>2. /\ reqFrame.reply \in Nat /\ reqFrame.slot \in Nat
        /\ reqFrame'.reply \in Nat /\ reqFrame'.slot \in Nat
    BY FrameFields DEF IInv, TypeOK
  <1>3. req' \in {"push", "write"} /\ (req' = "push" <=> TakesSlot(reqFrame'))
    OBVIOUS
  <1> USE DEF IInv, pipeVars, rspState
  <1>4. RequestHandlerPresent' BY <1>3 DEF RequestHandlerPresent
  <1>5. ReqInv'
    <2>1. LastForwarded.reply \in Nat /\ LastForwarded.slot \in Nat
      BY PipeTypes
    <2>2. InHand' /\ ~ReqEnded' BY <1>3 DEF InHand, ReqEnded
    <2>3. /\ reqFrame.reply = LastForwarded.reply /\ reqFrame.slot = LastForwarded.slot
          /\ (NextIsToken <=> reqHandler = "saslV0") /\ nextReq = "none"
      BY <2>1 DEF ReqInv, ReqEnded, InHand
    <2> QED BY <1>1, <1>3, <2>2, <2>3 DEF ReqInv
  <1>6. RspInv' BY DEF RspInv
  <1>7. OpenInv' BY <1>1, <1>2, <1>3 DEF OpenInv, ReqEnded, Num
  <1>8. OpenKindInv' BY <1>3 DEF OpenKindInv, TakesSlot
  <1>9. HandlerInv'
    BY <1>2, <1>3 DEF HandlerInv, ReqEnded, Unput, Num, Demands
  <1>10. JobInv'
    <2>1. reqFrame'.token <=> NextIsToken
      BY DEF ReqInv, ReqEnded
    <2>2. ASSUME NEW x, JobMatches(x) PROVE JobMatches(x)'
      BY <1>1, <1>2, <1>3, <2>1, <2>2
         DEF JobMatches, ReqEnded, InHand, Unput, Num, Demands
    <2> QED BY <2>2 DEF JobInv
  <1> QED BY <1>1, <1>4, <1>5, <1>6, <1>7, <1>8, <1>9, <1>10

LEMMA InvReadRequest ==
  ASSUME IInv, TypeOK', ReadRequest PROVE IInv'
  <1> DEFINE r == Head(fromClient)
  <1>1. /\ req = "read" /\ reqHandler = "default" /\ fromClient # <<>>
        /\ fromClient' = Tail(fromClient)
        /\ UNCHANGED <<pipeVars, openRequests, nextReq, nextRsp, reqHandler, rspState>>
    BY DEF ReadRequest, CanRead, chans, peers, rspVars, pipeVars, rspState
  <1>2. CASE req' = "returned"
    BY <1>1, <1>2, ReqEnds
  <1>3. CASE /\ req' = PcAfterRead(r.kind)
             /\ reqFrame' = [id |-> r.id, kind |-> r.kind, token |-> FALSE,
                             reply |-> reqFrame.reply + (IF MustReply(r.kind) THEN 1 ELSE 0),
                             slot |-> reqFrame.slot + (IF MustReply(r.kind) THEN 1 ELSE 0)]
    <2>1. fromClient \in Seq(Request)
      BY DEF IInv, TypeOK
    <2>2. Acks0Disabled =>
            r.kind # "produce0" /\ \A i \in 1..Len(fromClient') : fromClient'[i].kind # "produce0"
      BY <1>1, <2>1, TailAt DEF IInv, Acks0Inv
    <2>3. MustReply(r.kind) <=> r.kind # "produce0"
      BY <2>2 DEF MustReply
    <2>4. /\ reqFrame'.kind = r.kind /\ reqFrame'.token = FALSE
          /\ reqFrame'.reply = reqFrame.reply + (IF MustReply(r.kind) THEN 1 ELSE 0)
          /\ reqFrame'.slot = reqFrame.slot + (IF MustReply(r.kind) THEN 1 ELSE 0)
      BY <1>3
    <2> HIDE DEF r
    <2>5. Demands(reqFrame') <=> MustReply(r.kind)
      BY <2>3, <2>4 DEF Demands
    <2>6. TakesSlot(reqFrame') <=> MustReply(r.kind)
      BY <2>3, <2>4 DEF TakesSlot
    <2>7. Acks0Inv'
      BY <2>2, <2>4 DEF Acks0Inv
    <2>8. req' = IF TakesSlot(reqFrame') THEN "push" ELSE "write"
      BY <1>3, <2>6 DEF PcAfterRead
    <2>9. /\ reqFrame'.token <=> reqHandler = "saslV0"
          /\ reqFrame'.reply = reqFrame.reply + Num(Demands(reqFrame'))
          /\ reqFrame'.slot = reqFrame.slot + Num(TakesSlot(reqFrame'))
      BY <1>1, <2>4, <2>5, <2>6 DEF Num
    <2> QED BY <1>1, <2>7, <2>8, <2>9, FrameRead
  <1> QED BY <1>2, <1>3 DEF ReadRequest

LEMMA InvReadSaslToken ==
  ASSUME IInv, TypeOK', ReadSaslToken PROVE IInv'
  <1>1. /\ req = "read" /\ reqHandler = "saslV0" /\ fromClient # <<>> /\ req' = "write"
        /\ fromClient' = Tail(fromClient)
        /\ UNCHANGED <<pipeVars, openRequests, nextReq, nextRsp, reqHandler, rspState>>
    BY DEF ReadSaslToken, CanRead, chans, peers, rspVars, pipeVars, rspState
  <1>2. /\ reqFrame'.kind = Head(fromClient).kind /\ reqFrame'.token = TRUE
        /\ reqFrame'.reply = reqFrame.reply + 1
        /\ reqFrame'.slot = reqFrame.slot
    BY DEF ReadSaslToken
  <1>3. reqFrame.slot \in Nat
    BY FrameFields DEF IInv, TypeOK
  <1>4. Acks0Inv'
    <2>1. fromClient \in Seq(Request)
      BY DEF IInv, TypeOK
    <2>2. Acks0Disabled => /\ Head(fromClient).kind # "produce0"
                           /\ \A i \in 1..Len(fromClient') : fromClient'[i].kind # "produce0"
      BY <1>1, <2>1, TailAt DEF IInv, Acks0Inv
    <2> QED BY <1>2, <2>2 DEF Acks0Inv
  <1>5. Demands(reqFrame') /\ ~TakesSlot(reqFrame')
    BY <1>2 DEF Demands, TakesSlot
  <1>6. /\ reqFrame'.token <=> reqHandler = "saslV0"
        /\ reqFrame'.reply = reqFrame.reply + Num(Demands(reqFrame'))
        /\ reqFrame'.slot = reqFrame.slot + Num(TakesSlot(reqFrame'))
    BY <1>1, <1>2, <1>3, <1>5 DEF Num
  <1>7. req' = IF TakesSlot(reqFrame') THEN "push" ELSE "write"
    BY <1>1, <1>5
  <1> QED BY <1>1, <1>4, <1>6, <1>7, FrameRead

(* The local SASL exchange does not touch the numbers of the frames.       *)
LEMMA LocalStep ==
  ASSUME IInv, TypeOK', Acks0Inv', UNCHANGED <<pipeVars, openRequests, nextRsp, rspState>>,
         \/ req = "read" /\ req' = "token" /\ reqHandler = "default"
            /\ UNCHANGED <<nextReq, reqHandler>>
         \/ req = "token" /\ req' = "handler" /\ nextReq' = "default",
         reqFrame'.reply = reqFrame.reply, reqFrame'.slot = reqFrame.slot
  PROVE  IInv'
  <1>1. PipeInv' /\ LastForwarded' = LastForwarded /\ (NextIsToken' <=> NextIsToken)
    BY PipeUnchanged DEF IInv
  <1> USE DEF IInv, pipeVars, rspState
  <1>2. RequestHandlerPresent' BY DEF RequestHandlerPresent
  <1>3. ReqInv'
    <2>1. reqFrame.reply = LastForwarded.reply + 0 /\ reqFrame.slot = LastForwarded.slot + 0
      BY DEF ReqInv, ReqEnded, InHand
    <2>2. ~InHand' BY DEF InHand
    <2>3. ~NextIsToken
      BY DEF ReqInv, ReqEnded
    <2>4. req = "read" => nextReq = "none"
      BY DEF ReqInv, ReqEnded
    <2> QED BY <1>1, <2>1, <2>2, <2>3, <2>4 DEF ReqInv
  <1>4. RspInv' BY DEF RspInv
  <1>5. OpenInv' BY <1>1 DEF OpenInv, ReqEnded, Num
  <1>6. OpenKindInv' BY DEF OpenKindInv, TakesSlot
  <1>7. HandlerInv' BY DEF HandlerInv, ReqEnded, Unput, Num
  <1>8. JobInv' BY <1>1 DEF JobInv, JobMatches, ReqEnded, InHand, Unput, Demands
  <1> QED BY <1>1, <1>2, <1>3, <1>4, <1>5, <1>6, <1>7, <1>8

LEMMA InvLocalHandshake ==
  ASSUME IInv, TypeOK', LocalHandshake PROVE IInv'
  <1>1. /\ req = "read" /\ reqHandler = "default" /\ fromClient # <<>>
        /\ fromClient' = Tail(fromClient) /\ req' \in {"token", "returned"}
        /\ UNCHANGED <<pipeVars, openRequests, nextReq, nextRsp, reqHandler, rspState>>
    BY DEF LocalHandshake, CanRead, chans, peers, rspVars, pipeVars, rspState
  <1>2. CASE req' = "returned"
    BY <1>1, <1>2, ReqEnds
  <1>3. CASE req' = "token"
    <2>1. reqFrame \in Frame /\ fromClient \in Seq(Request)
      BY DEF IInv, TypeOK
    <2>2. reqFrame'.reply = reqFrame.reply /\ reqFrame'.slot = reqFrame.slot
      BY <2>1 DEF LocalHandshake, Frame
    <2>3. Acks0Disabled => \A i \in 1..Len(fromClient') : fromClient'[i].kind # "produce0"
      BY <1>1, <2>1, TailAt DEF IInv, Acks0Inv
    <2>4. Acks0Inv' BY <1>3, <2>3 DEF Acks0Inv, InHand
    <2> QED BY <1>1, <1>3, <2>2, <2>4, LocalStep
  <1> QED BY <1>1, <1>2, <1>3

LEMMA InvLocalToken ==
  ASSUME IInv, TypeOK', LocalToken PROVE IInv'
  <1>1. /\ req = "token" /\ fromClient # <<>> /\ fromClient' = Tail(fromClient)
        /\ UNCHANGED <<pipeVars, openRequests, nextRsp, reqHandler, reqFrame, rspState>>
    BY DEF LocalToken, CanRead, peers, rspVars, pipeVars, rspState
  <1>2. req' = "returned" \/ (req' = "handler" /\ nextReq' = "default")
    BY DEF LocalToken, PutNextRequestHandler
  <1>3. CASE req' = "returned"
    BY <1>1, <1>3, ReqEnds
  <1>4. CASE req' = "handler" /\ nextReq' = "default"
    <2>1. fromClient \in Seq(Request)
      BY DEF IInv, TypeOK
    <2>2. Acks0Disabled => \A i \in 1..Len(fromClient') : fromClient'[i].kind # "produce0"
      BY <1>1, <2>1, TailAt DEF IInv, Acks0Inv
    <2>3. Acks0Inv' BY <1>4, <2>2 DEF Acks0Inv, InHand
    <2> QED BY <1>1, <1>4, <2>3, LocalStep
  <1> QED BY <1>2, <1>3, <1>4

LEMMA InvSendRequestKeyVersion ==
  ASSUME IInv, TypeOK', SendRequestKeyVersion PROVE IInv'
  <1> DEFINE e == [slot |-> reqFrame.slot, kind |-> reqFrame.kind]
  <1>1. /\ req = "push" /\ req' \in {"write", "returned"}
        /\ req' = "write" => openRequests' = Append(openRequests, e)
        /\ req' = "returned" => openRequests' = openRequests
        /\ UNCHANGED <<fromClient, pipeVars, nextReq, nextRsp, reqHandler, reqFrame, rspState>>
    BY DEF SendRequestKeyVersion, sockets, peers, rspVars, pipeVars, rspState
  <1>2. CASE req' = "returned"
    BY <1>1, <1>2, ReqEnds
  <1>3. CASE req' = "write"
    <2>1. PipeInv' /\ LastForwarded' = LastForwarded /\ (NextIsToken' <=> NextIsToken)
      BY <1>1, PipeUnchanged DEF IInv
    <2>2. openRequests \in Seq(Entry) /\ e \in Entry
      BY FrameFields DEF IInv, TypeOK, Entry
    <2>3. /\ reqFrame.slot \in Nat /\ rspOpen.slot \in Nat /\ LastForwarded.slot \in Nat
          /\ rspFrame.slot \in Nat
      BY FrameFields, PipeTypes DEF IInv, TypeOK, Entry
    <2>4. /\ Len(openRequests) \in Nat /\ Len(openRequests') = Len(openRequests) + 1
          /\ openRequests'[Len(openRequests) + 1] = e
          /\ \A i \in 1..Len(openRequests) : openRequests'[i] = openRequests[i]
          /\ \A i \in 1..Len(openRequests') :
                i \in 1..Len(openRequests) \/ i = Len(openRequests) + 1
      BY <1>1, <1>3, <2>2, AppendAt
    <2>5. e.slot = reqFrame.slot /\ e.kind = reqFrame.kind
      OBVIOUS
    <2>6. /\ rspOpen.slot + Len(openRequests) = reqFrame.slot - 1
          /\ reqFrame.slot = LastForwarded.slot + 1
          /\ TakesSlot(reqFrame)
      BY <1>1, <2>3 DEF IInv, OpenInv, ReqInv, ReqEnded, InHand, Num
    <2> HIDE DEF e
    <2>20. /\ rspOpen.slot + Len(openRequests') = reqFrame.slot
          /\ rspOpen.slot + (Len(openRequests) + 1) = reqFrame.slot
          /\ reqFrame.slot >= LastForwarded.slot
      <3>1. Len(openRequests) \in Nat /\ Len(openRequests') = Len(openRequests) + 1
        BY <2>4
      <3>2. rspOpen.slot + Len(openRequests) = reqFrame.slot - 1
        BY <2>6
      <3>3. reqFrame.slot = LastForwarded.slot + 1
        BY <2>6
      <3> QED BY <2>3, <3>1, <3>2, <3>3
    <2> USE <1>1, <1>3 DEF IInv, pipeVars, rspState
    <2>7. Acks0Inv' BY DEF Acks0Inv, InHand
    <2>8. RequestHandlerPresent' BY DEF RequestHandlerPresent
    <2>9. ReqInv'
      BY <2>1 DEF ReqInv, ReqEnded, InHand, Demands, TakesSlot
    <2>10. RspInv' BY DEF RspInv
    <2>11. OpenInv'
      <3>1. ASSUME NEW i \in 1..Len(openRequests') PROVE openRequests'[i].slot = rspOpen.slot + i
        <4>1. CASE i \in 1..Len(openRequests) BY <4>1, <2>4 DEF OpenInv
        <4>2. CASE i = Len(openRequests) + 1
          BY <4>2, <2>20, <2>4, <2>5
        <4> QED BY <4>1, <4>2, <2>4
      <3> QED BY <2>1, <2>3, <2>20, <3>1 DEF OpenInv, Num
    <2>12. OpenKindInv'
      <3>1. /\ \A j \in 1..Len(fromBroker) : fromBroker[j].slot # e.slot
            /\ \A j \in 1..Len(toBroker) : toBroker[j].slot # e.slot
            /\ rspFrame.slot # e.slot
        <4>1. /\ \A j \in 1..Len(fromBroker) : /\ fromBroker[j].slot \in Nat
                                                 /\ fromBroker[j].slot <= LastForwarded.slot
              /\ \A j \in 1..Len(toBroker) : /\ toBroker[j].slot \in Nat
                                               /\ toBroker[j].slot <= LastForwarded.slot
              /\ rspFrame.slot <= LastForwarded.slot
          BY PipeBounds
        <4>2. e.slot = LastForwarded.slot + 1 BY <2>5, <2>6
        <4> QED BY <2>3, <4>1, <4>2
      <3>2. \A i \in 1..Len(openRequests) : openRequests[i].slot # reqFrame.slot
        <4> SUFFICES ASSUME NEW i \in 1..Len(openRequests)
                     PROVE  openRequests[i].slot # reqFrame.slot
          OBVIOUS
        <4>1. openRequests[i].slot = rspOpen.slot + i
          BY DEF OpenInv
        <4>2. Len(openRequests) \in Nat BY <2>4
        <4>3. i \in Nat /\ i <= Len(openRequests) BY <4>2
        <4>4. rspOpen.slot + Len(openRequests) = reqFrame.slot - 1 BY <2>6
        <4>5. rspOpen.slot + i # reqFrame.slot BY <2>3, <4>2, <4>3, <4>4
        <4> QED BY <4>1, <4>5
      <3>3. ASSUME NEW i \in 1..Len(openRequests')
            PROVE  /\ \A j \in 1..Len(fromBroker) :
                         TakesSlot(fromBroker[j]) /\ fromBroker[j].slot = openRequests'[i].slot
                           => fromBroker[j].kind = openRequests'[i].kind
                   /\ \A j \in 1..Len(toBroker) :
                         TakesSlot(toBroker[j]) /\ toBroker[j].slot = openRequests'[i].slot
                           => toBroker[j].kind = openRequests'[i].kind
                   /\ reqFrame.slot = openRequests'[i].slot
                           => reqFrame.kind = openRequests'[i].kind
                   /\ rsp = "pop" /\ rspFrame.slot = openRequests'[i].slot
                           => rspFrame.kind = openRequests'[i].kind
        <4>1. CASE i \in 1..Len(openRequests)
          BY <4>1, <2>4, <3>2 DEF OpenKindInv
        <4>2. CASE openRequests'[i] = e
          BY <4>2, <2>5, <3>1
        <4> QED BY <4>1, <4>2, <2>4
      <3> QED BY <3>3 DEF OpenKindInv, TakesSlot
    <2>13. HandlerInv' BY DEF HandlerInv, ReqEnded, Unput, Demands
    <2>14. JobInv' BY <2>1 DEF JobInv, JobMatches, ReqEnded, InHand, Unput, Demands
    <2> QED BY <2>1, <2>7, <2>8, <2>9, <2>10, <2>11, <2>12, <2>13, <2>14
  <1> QED BY <1>1, <1>2, <1>3

LEMMA InvPutNextResponseHandler ==
  ASSUME IInv, TypeOK', PutNextResponseHandler PROVE IInv'
  <1> DEFINE x == [reply |-> reqFrame.reply + 1, h |-> NextHandler(reqFrame)]
  <1>1. /\ req = "putRsp" /\ req' \in {"handler", "returned"}
        /\ req' = "handler" => nextRsp' = Append(nextRsp, x)
        /\ req' = "returned" => nextRsp' = nextRsp
        /\ UNCHANGED <<fromClient, pipeVars, openRequests, nextReq, reqHandler, reqFrame, rspState>>
    BY DEF PutNextResponseHandler, sockets, peers, rspVars, pipeVars, rspState
  <1>2. CASE req' = "returned"
    BY <1>1, <1>2, ReqEnds
  <1>3. CASE req' = "handler"
    <2>1. PipeInv' /\ LastForwarded' = LastForwarded /\ (NextIsToken' <=> NextIsToken)
      BY <1>1, PipeUnchanged DEF IInv
    <2>2. nextRsp \in Seq(RspJob) /\ x \in RspJob
      BY SMTT(30), FrameFields DEF IInv, TypeOK, RspJob, NextHandler, Handlers
    <2>3. /\ reqFrame.reply \in Nat /\ rspHandler.reply \in Nat /\ LastForwarded.reply \in Nat
      BY FrameFields, PipeTypes DEF IInv, TypeOK, RspJob
    <2>4. /\ Len(nextRsp) \in Nat /\ Len(nextRsp') = Len(nextRsp) + 1
          /\ nextRsp'[Len(nextRsp) + 1] = x
          /\ \A i \in 1..Len(nextRsp) : nextRsp'[i] = nextRsp[i]
          /\ \A i \in 1..Len(nextRsp') : i \in 1..Len(nextRsp) \/ i = Len(nextRsp) + 1
      BY <1>1, <1>3, <2>2, AppendAt
    <2>5. x.reply = reqFrame.reply + 1 /\ x.h = NextHandler(reqFrame)
      OBVIOUS
    <2>6. /\ rspHandler.reply + Len(nextRsp) = reqFrame.reply
          /\ reqFrame.reply = LastForwarded.reply
          /\ Demands(reqFrame) /\ nextReq = NextHandler(reqFrame)
          /\ (NextIsToken <=> IsHandshakeV0(reqFrame))
      BY <1>1, <2>3 DEF IInv, HandlerInv, ReqInv, ReqEnded, InHand, Unput, Num
    <2>7. NextHandler(reqFrame) = "saslV0" <=> NextIsToken
      BY <2>6 DEF NextHandler
    <2> HIDE DEF x
    <2>20. /\ rspHandler.reply + Len(nextRsp') = reqFrame.reply + 1
          /\ rspHandler.reply + (Len(nextRsp) + 1) = reqFrame.reply + 1
      BY SMTT(30), <2>3, <2>4, <2>6
    <2> USE <1>1, <1>3 DEF IInv, pipeVars, rspState
    <2>8. Acks0Inv' BY DEF Acks0Inv, InHand
    <2>9. RequestHandlerPresent' BY DEF RequestHandlerPresent
    <2>10. ReqInv'
      <3>1. nextReq # "none" BY <2>6 DEF NextHandler
      <3> QED BY <2>1, <2>6, <2>7, <3>1 DEF ReqInv, ReqEnded, InHand
    <2>11. RspInv' BY DEF RspInv
    <2>12. OpenInv' BY <2>1 DEF OpenInv, ReqEnded, Num
    <2>13. OpenKindInv' BY DEF OpenKindInv, TakesSlot
    <2>14. HandlerInv'
      <3>1. ASSUME NEW i \in 1..Len(nextRsp') PROVE nextRsp'[i].reply = rspHandler.reply + i
        <4>1. CASE i \in 1..Len(nextRsp) BY <4>1, <2>4 DEF HandlerInv
        <4>2. CASE i = Len(nextRsp) + 1
          BY <4>2, <2>20, <2>4, <2>5
        <4> QED BY <4>1, <4>2, <2>4
      <3>2. ~Unput' BY DEF Unput
      <3> QED BY <2>20, <3>1, <3>2 DEF HandlerInv, Num
    <2>15. JobInv'
      <3>1. /\ \A j \in 1..Len(fromBroker) : fromBroker[j].reply # x.reply
            /\ \A j \in 1..Len(toBroker) : toBroker[j].reply # x.reply
        <4>1. /\ \A j \in 1..Len(fromBroker) : /\ fromBroker[j].reply \in Nat
                                                 /\ fromBroker[j].reply <= LastForwarded.reply
              /\ \A j \in 1..Len(toBroker) : /\ toBroker[j].reply \in Nat
                                               /\ toBroker[j].reply <= LastForwarded.reply
          BY PipeBounds
        <4>2. x.reply = LastForwarded.reply + 1 BY <2>5, <2>6
        <4> QED BY <2>3, <4>1, <4>2
      <3>2. ~InHand' /\ ~ReqEnded' /\ ~Unput'
        BY DEF InHand, ReqEnded, Unput
      <3>3. ASSUME NEW i \in 1..Len(nextRsp') PROVE JobMatches(nextRsp[i])'
        <4>1. CASE i \in 1..Len(nextRsp)
          <5>1. nextRsp[i].reply = rspHandler.reply + i /\ JobMatches(nextRsp[i])
            BY <4>1 DEF HandlerInv, JobInv
          <5>2. nextRsp[i].reply # reqFrame.reply + 1
            BY <4>1, <5>1, <2>3, <2>4, <2>6
          <5>3. nextRsp'[i] = nextRsp[i]
            BY <4>1, <2>4
          <5> QED BY <5>1, <5>2, <5>3, <3>2 DEF JobMatches, Demands
        <4>2. CASE nextRsp'[i] = x
          BY <4>2, <2>1, <2>3, <2>5, <2>6, <2>7, <3>1, <3>2 DEF JobMatches
        <4> QED BY <4>1, <4>2, <2>4
      <3>4. rsp = "read" => JobMatches(rspHandler)'
        <4>1. rspHandler.reply # reqFrame.reply + 1
          BY <2>3, <2>4, <2>6
        <4> QED BY <4>1, <3>2 DEF JobInv, JobMatches, Demands
      <3> QED BY <3>3, <3>4 DEF JobInv
    <2> QED BY <2>1, <2>8, <2>9, <2>10, <2>11, <2>12, <2>13, <2>14, <2>15
  <1> QED BY <1>1, <1>2, <1>3

-----------------------------------------------------------------------------
(* Frames enter and leave the pipe at its ends. *)

LEMMA FrameChainAppend ==
  ASSUME NEW s \in Seq(Frame), NEW base, NEW tok, NEW f \in Frame,
         FrameChain(s, base, tok),
         f.reply = (IF s = <<>> THEN base ELSE s[Len(s)]).reply + Num(Demands(f)),
         f.slot = (IF s = <<>> THEN base ELSE s[Len(s)]).slot + Num(TakesSlot(f)),
         f.token <=> (IF s = <<>> THEN tok ELSE IsHandshakeV0(s[Len(s)]))
  PROVE  FrameChain(Append(s, f), base, tok)
  <1> DEFINE t == Append(s, f)
  <1>1. /\ Len(s) \in Nat /\ Len(t) = Len(s) + 1 /\ t[Len(s) + 1] = f
        /\ \A i \in 1..Len(s) : t[i] = s[i]
        /\ \A i \in 1..Len(t) : i \in 1..Len(s) \/ i = Len(s) + 1
    BY AppendAt
  <1>2. s = <<>> <=> Len(s) = 0
    OBVIOUS
  <1> HIDE DEF t
  <1>3. ASSUME NEW i \in 1..Len(t)
        PROVE  /\ t[i].reply = (IF i = 1 THEN base.reply ELSE t[i-1].reply) + Num(Demands(t[i]))
               /\ t[i].slot  = (IF i = 1 THEN base.slot  ELSE t[i-1].slot) + Num(TakesSlot(t[i]))
               /\ t[i].token <=> (IF i = 1 THEN tok ELSE IsHandshakeV0(t[i-1]))
    <2>1. CASE i \in 1..Len(s)
      <3>1. t[i] = s[i] /\ (i # 1 => t[i-1] = s[i-1])
        BY <1>1, <2>1
      <3> QED BY <2>1, <3>1 DEF FrameChain
    <2>2. CASE i = Len(s) + 1 /\ s = <<>>
      BY <1>1, <1>2, <2>2
    <2>3. CASE i = Len(s) + 1 /\ s # <<>>
      <3>1. t[i] = f /\ i # 1 /\ i - 1 = Len(s) /\ t[i-1] = s[Len(s)]
        BY <1>1, <1>2, <2>3
      <3> QED BY <2>3, <3>1
    <2> QED BY <1>1, <2>1, <2>2, <2>3
  <1>4. FrameChain(t, base, tok)
    BY <1>3 DEF FrameChain
  <1> QED BY <1>4 DEF t

LEMMA FrameChainTail ==
  ASSUME NEW s \in Seq(Frame), s # <<>>, NEW base, NEW tok, FrameChain(s, base, tok),
         NEW newBase, newBase.reply = s[1].reply, newBase.slot = s[1].slot,
         NEW newTok, newTok <=> IsHandshakeV0(s[1])
  PROVE  FrameChain(Tail(s), newBase, newTok)
  <1> DEFINE t == Tail(s)
  <1>1. /\ Len(s) \in Nat
        /\ \A i \in 1..Len(t) : i + 1 \in 1..Len(s) /\ t[i] = s[i + 1]
    BY TailAt
  <1>2. Len(t) \in Nat OBVIOUS
  <1> HIDE DEF t
  <1>3. ASSUME NEW i \in 1..Len(t)
        PROVE  /\ t[i].reply = (IF i = 1 THEN newBase.reply ELSE t[i-1].reply) + Num(Demands(t[i]))
               /\ t[i].slot  = (IF i = 1 THEN newBase.slot  ELSE t[i-1].slot) + Num(TakesSlot(t[i]))
               /\ t[i].token <=> (IF i = 1 THEN newTok ELSE IsHandshakeV0(t[i-1]))
    <2>1. /\ t[i] = s[i + 1] /\ i + 1 \in 1..Len(s) /\ i + 1 # 1 /\ (i + 1) - 1 = i
          /\ i # 1 => t[i-1] = s[i]
      BY <1>1, <1>2
    <2>2. /\ s[i+1].reply = s[i].reply + Num(Demands(s[i+1]))
          /\ s[i+1].slot = s[i].slot + Num(TakesSlot(s[i+1]))
          /\ s[i+1].token <=> IsHandshakeV0(s[i])
      BY <2>1 DEF FrameChain
    <2> QED BY <2>1, <2>2
  <1>4. FrameChain(t, newBase, newTok)
    BY <1>3 DEF FrameChain
  <1> QED BY <1>4 DEF t

LEMMA ReplyChainTail ==
  ASSUME NEW s \in Seq(Frame), s # <<>>, NEW base \in Frame, ReplyChain(s, base)
  PROVE  ReplyChain(Tail(s), s[1])
  <1> DEFINE t == Tail(s)
  <1>1. /\ Len(s) \in Nat /\ 1 \in 1..Len(s)
        /\ \A i \in 1..Len(t) : i + 1 \in 1..Len(s) /\ t[i] = s[i + 1]
    BY TailAt
  <1>2. Len(t) \in Nat OBVIOUS
  <1>3. base.reply \in Nat /\ s[1].reply = base.reply + 1
    BY <1>1, FrameFields DEF ReplyChain
  <1> HIDE DEF t
  <1>4. ASSUME NEW i \in 1..Len(t)
        PROVE  /\ Demands(t[i])
               /\ t[i].reply = s[1].reply + i
               /\ t[i].slot  = (IF i = 1 THEN s[1].slot ELSE t[i-1].slot) + Num(TakesSlot(t[i]))
    <2>1. /\ t[i] = s[i + 1] /\ i + 1 \in 1..Len(s) /\ i + 1 # 1 /\ (i + 1) - 1 = i
          /\ i # 1 => t[i-1] = s[i]
      BY <1>1, <1>2
    <2>2. /\ Demands(s[i+1]) /\ s[i+1].reply = base.reply + (i + 1)
          /\ s[i+1].slot = s[i].slot + Num(TakesSlot(s[i+1]))
      BY <2>1 DEF ReplyChain
    <2>3. base.reply + (i + 1) = s[1].reply + i
      BY <1>2, <1>3
    <2> QED BY <2>1, <2>2, <2>3
  <1>5. ReplyChain(t, s[1])
    BY <1>4 DEF ReplyChain
  <1> QED BY <1>5 DEF t

LEMMA ReplyChainAppend ==
  ASSUME NEW s \in Seq(Frame), NEW base \in Frame, NEW f \in Frame,
         ReplyChain(s, base), Demands(f),
         f.reply = (IF s = <<>> THEN base ELSE s[Len(s)]).reply + 1,
         f.slot = (IF s = <<>> THEN base ELSE s[Len(s)]).slot + Num(TakesSlot(f))
  PROVE  ReplyChain(Append(s, f), base)
  <1> DEFINE t == Append(s, f)
  <1>1. /\ Len(s) \in Nat /\ Len(t) = Len(s) + 1 /\ t[Len(s) + 1] = f
        /\ \A i \in 1..Len(s) : t[i] = s[i]
        /\ \A i \in 1..Len(t) : i \in 1..Len(s) \/ i = Len(s) + 1
    BY AppendAt
  <1>2. s = <<>> <=> Len(s) = 0
    OBVIOUS
  <1>3. base.reply \in Nat
    BY FrameFields
  <1> HIDE DEF t
  <1>4. ASSUME NEW i \in 1..Len(t)
        PROVE  /\ Demands(t[i])
               /\ t[i].reply = base.reply + i
               /\ t[i].slot  = (IF i = 1 THEN base.slot ELSE t[i-1].slot) + Num(TakesSlot(t[i]))
    <2>1. CASE i \in 1..Len(s)
      <3>1. t[i] = s[i] /\ (i # 1 => t[i-1] = s[i-1])
        BY <1>1, <2>1
      <3> QED BY <2>1, <3>1 DEF ReplyChain
    <2>2. CASE i = Len(s) + 1 /\ s = <<>>
      BY <1>1, <1>2, <2>2
    <2>3. CASE i = Len(s) + 1 /\ s # <<>>
      <3>1. t[i] = f /\ i # 1 /\ i - 1 = Len(s) /\ t[i-1] = s[Len(s)] /\ Len(s) \in 1..Len(s)
        BY <1>1, <1>2, <2>3
      <3>2. s[Len(s)].reply = base.reply + Len(s)
        BY <3>1 DEF ReplyChain
      <3>3. f.reply = base.reply + i
        BY <1>1, <1>3, <2>3, <3>2
      <3> QED BY <2>3, <3>1, <3>3
    <2> QED BY <1>1, <2>1, <2>2, <2>3
  <1>5. ReplyChain(t, base)
    BY <1>4 DEF ReplyChain
  <1> QED BY <1>5 DEF t

LEMMA InvWriteRequest ==
  ASSUME IInv, TypeOK', WriteRequest PROVE IInv'
  <1>1. /\ req = "write" /\ nextReq = "none"
        /\ toBroker' = Append(toBroker, reqFrame)
        /\ nextReq' = NextHandler(reqFrame) /\ req' = PcAfterWrite(reqFrame)
        /\ UNCHANGED <<fromClient, fromBroker, rspFrame, brokerToken, openRequests, nextRsp,
                       reqHandler, reqFrame, rspState>>
    BY DEF WriteRequest, PutNextRequestHandler, peers, rspVars, rspState, IInv, ReqInv, ReqEnded
  <1>2. /\ fromBroker \in Seq(Frame) /\ toBroker \in Seq(Frame) /\ rspFrame \in Frame
        /\ reqFrame \in Frame /\ rspOpen.slot \in Nat
        /\ reqFrame.reply \in Nat /\ reqFrame.slot \in Nat
    BY FrameFields DEF IInv, TypeOK, Entry
  <1>3. /\ Len(toBroker) \in Nat /\ Len(toBroker') = Len(toBroker) + 1
        /\ toBroker'[Len(toBroker) + 1] = reqFrame
        /\ \A i \in 1..Len(toBroker) : toBroker'[i] = toBroker[i]
        /\ \A i \in 1..Len(toBroker') : i \in 1..Len(toBroker) \/ i = Len(toBroker) + 1
    BY <1>1, <1>2, AppendAt
  <1>4. LastForwarded' = reqFrame /\ (NextIsToken' <=> IsHandshakeV0(reqFrame))
    <2>1. toBroker' # <<>> BY <1>1, <1>2
    <2> QED BY <1>1, <1>3, <2>1 DEF LastForwarded, NextIsToken, IsHandshakeV0
  <1>5. /\ reqFrame.reply = LastForwarded.reply + Num(Demands(reqFrame))
        /\ reqFrame.slot = LastForwarded.slot + Num(TakesSlot(reqFrame))
        /\ (NextIsToken <=> reqFrame.token)
    BY <1>1 DEF IInv, ReqInv, ReqEnded, InHand
  <1>6. MustReply(reqFrame.kind) <=> reqFrame.kind # "produce0"
    BY <1>1 DEF IInv, Acks0Inv, InHand, MustReply
  <1>7. /\ req' = IF Demands(reqFrame) THEN "putRsp" ELSE "handler"
        /\ nextReq' = IF IsHandshakeV0(reqFrame) THEN "saslV0" ELSE "default"
    BY <1>1, <1>6 DEF PcAfterWrite, Demands, NextHandler
  <1>8. PipeInv'
    <2>1. FrameChain(toBroker', LastAnswered, brokerToken)
      <3>1. /\ LastForwarded = IF toBroker = <<>> THEN LastAnswered ELSE toBroker[Len(toBroker)]
            /\ NextIsToken <=> IF toBroker = <<>> THEN brokerToken
                               ELSE IsHandshakeV0(toBroker[Len(toBroker)])
        BY DEF LastForwarded, NextIsToken
      <3>2. FrameChain(toBroker, LastAnswered, brokerToken)
        BY DEF IInv, PipeInv
      <3> QED BY <1>1, <1>2, <1>5, <3>1, <3>2, FrameChainAppend
    <2>2. LastAnswered' = LastAnswered /\ brokerToken' = brokerToken
      BY <1>1 DEF LastAnswered
    <2>3. ReplyChain(fromBroker, rspFrame)'
      BY <1>1 DEF IInv, PipeInv, ReplyChain, Demands, TakesSlot
    <2>4. LastForwarded.reply \in Nat /\ LastForwarded.slot \in Nat
      BY PipeTypes DEF IInv
    <2>5. LastForwarded.reply <= reqFrame.reply /\ LastForwarded.slot <= reqFrame.slot
      BY <1>2, <1>5, <2>4 DEF Num
    <2>6. /\ NotAfter(rspFrame, reqFrame)
          /\ \A i \in 1..Len(fromBroker) : NotAfter(fromBroker[i], reqFrame)
          /\ \A i \in 1..Len(toBroker) : NotAfter(toBroker[i], reqFrame)
          /\ NotAfter(reqFrame, reqFrame)
      BY SMTT(30), <1>2, <2>4, <2>5, PipeBounds DEF IInv, NotAfter
    <2>7. \A i \in 1..Len(toBroker') : NotAfter(toBroker'[i], reqFrame)
      BY <1>3, <2>6
    <2>8. FrameChain(toBroker, LastAnswered, brokerToken)'
      BY <2>1, <2>2 DEF FrameChain, Demands, TakesSlot, IsHandshakeV0
    <2> QED BY <1>1, <1>4, <2>3, <2>6, <2>7, <2>8 DEF PipeInv, NotAfter
  <1>9. req' \in {"putRsp", "handler"} /\ (req' = "putRsp" <=> Demands(reqFrame))
    BY <1>7
  <1>10. Acks0Inv'
    BY <1>1, <1>9 DEF IInv, Acks0Inv, InHand
  <1>11. RequestHandlerPresent' BY <1>9 DEF RequestHandlerPresent
  <1>12. ReqInv'
    <2>1. ~InHand' BY <1>9 DEF InHand
    <2>2. ~Demands(reqFrame) => ~IsHandshakeV0(reqFrame)
      BY DEF Demands, IsHandshakeV0
    <2> QED BY <1>1, <1>2, <1>4, <1>7, <1>9, <2>1, <2>2 DEF ReqInv, NextHandler, IsHandshakeV0, Demands
  <1>13. RspInv' BY <1>1 DEF IInv, RspInv, rspState
  <1>14. OpenInv'
    <2>1. rspOpen.slot + Len(openRequests) = reqFrame.slot
      BY <1>1, <1>2 DEF IInv, OpenInv, ReqEnded, Num
    <2> QED BY <1>1, <1>2, <1>4, <1>9, <2>1 DEF IInv, OpenInv, Num, rspState
  <1>15. OpenKindInv'
    <2>1. ASSUME NEW i \in 1..Len(openRequests), NEW j \in 1..Len(toBroker'),
                 TakesSlot(toBroker'[j]), toBroker'[j].slot = openRequests[i].slot
          PROVE  toBroker'[j].kind = openRequests[i].kind
      BY <1>1, <1>3, <2>1 DEF IInv, OpenKindInv
    <2> QED BY <1>1, <1>9, <2>1 DEF IInv, OpenKindInv, TakesSlot, rspState
  <1>16. HandlerInv'
    BY <1>1, <1>9 DEF IInv, HandlerInv, ReqEnded, Unput, Demands, rspState
  <1>17. JobInv'
    <2>1. /\ ~InHand' /\ ~ReqEnded' /\ InHand /\ ~ReqEnded
          /\ (Unput <=> Demands(reqFrame)) /\ (Unput' <=> Demands(reqFrame))
      BY <1>1, <1>9 DEF InHand, ReqEnded, Unput, Demands
    <2>2. ~Demands(reqFrame) => ~IsHandshakeV0(reqFrame) /\ ~reqFrame.token
      BY DEF Demands, IsHandshakeV0
    <2>3. ASSUME NEW x, JobMatches(x)
          PROVE  /\ \A j \in 1..Len(toBroker') :
                        Demands(toBroker'[j]) /\ toBroker'[j].reply = x.reply
                          => (x.h = "saslV0" <=> toBroker'[j].token)
                 /\ ~Demands(reqFrame) /\ x.reply = reqFrame.reply + 1
                          => (x.h = "saslV0" <=> IsHandshakeV0(reqFrame))
      BY <1>3, <1>5, <2>1, <2>2, <2>3 DEF JobMatches
    <2>4. \A i \in 1..Len(nextRsp) : JobMatches(nextRsp[i])'
      BY <1>1, <1>4, <2>1, <2>3 DEF IInv, JobInv, JobMatches, Demands
    <2>5. rsp = "read" => JobMatches(rspHandler)'
      BY <1>1, <1>4, <2>1, <2>3 DEF IInv, JobInv, JobMatches, Demands, rspState
    <2> QED BY <1>1, <2>4, <2>5 DEF JobInv, rspState
  <1> QED BY <1>8, <1>10, <1>11, <1>12, <1>13, <1>14, <1>15, <1>16, <1>17 DEF IInv

LEMMA InvBrokerServe ==
  ASSUME IInv, TypeOK', BrokerServe PROVE IInv'
  <1> DEFINE f == toBroker[1]
  <1>1. /\ fromBroker \in Seq(Frame) /\ toBroker \in Seq(Frame) /\ rspFrame \in Frame
        /\ brokerToken \in BOOLEAN /\ toBroker # <<>>
    BY DEF IInv, TypeOK, BrokerServe
  <1>2. /\ Len(toBroker) \in Nat /\ Len(toBroker) >= 1 /\ Head(toBroker) = f
        /\ 1 \in 1..Len(toBroker)
        /\ Len(Tail(toBroker)) = Len(toBroker) - 1
        /\ \A i \in 1..Len(Tail(toBroker)) :
              i + 1 \in 1..Len(toBroker) /\ Tail(toBroker)[i] = toBroker[i + 1]
    BY <1>1, TailAt
  <1>3. f \in Frame /\ f.token \in BOOLEAN /\ f.reply \in Nat /\ f.slot \in Nat
    BY <1>1, <1>2, Elements, FrameFields
  <1>4. FrameChain(toBroker, LastAnswered, brokerToken) /\ ReplyChain(fromBroker, rspFrame)
    BY DEF IInv, PipeInv
  <1>5. /\ f.reply = LastAnswered.reply + Num(Demands(f))
        /\ f.slot = LastAnswered.slot + Num(TakesSlot(f))
        /\ (f.token <=> brokerToken)
    BY <1>2, <1>4 DEF FrameChain
  <1>6. LastAnswered \in Frame /\ LastAnswered.reply \in Nat /\ LastAnswered.slot \in Nat
    BY PipeTypes, FrameFields DEF IInv
  <1>7. [f EXCEPT !.token = brokerToken] = f
    <2>1. f.token = brokerToken BY <1>1, <1>3, <1>5
    <2> QED BY <1>3, <2>1 DEF Frame
  <1>8. /\ fromBroker' = IF Demands(f) THEN Append(fromBroker, f) ELSE fromBroker
        /\ (brokerToken' <=> IsHandshakeV0(f))
        /\ toBroker' = Tail(toBroker)
        /\ UNCHANGED <<fromClient, rspFrame, reqState, rspState>>
    BY <1>2, <1>5, <1>7 DEF BrokerServe, Demands, IsHandshakeV0, chans, reqVars, rspVars,
                            reqState, rspState
  <1> HIDE DEF f
  <1>9. \A i \in 1..Len(fromBroker') :
          \/ i \in 1..Len(fromBroker) /\ fromBroker'[i] = fromBroker[i]
          \/ Demands(f) /\ fromBroker'[i] = f
    BY <1>1, <1>3, <1>8, AppendAt
  <1>10. LastAnswered' = IF Demands(f) THEN f ELSE LastAnswered
    <2>1. CASE Demands(f)
      <3>1. fromBroker' = Append(fromBroker, f) BY <1>8, <2>1
      <3>2. fromBroker' # <<>> /\ fromBroker'[Len(fromBroker')] = f
        BY <1>1, <1>3, <3>1, AppendAt
      <3> QED BY <2>1, <3>2 DEF LastAnswered
    <2>2. CASE ~Demands(f) BY <1>8, <2>2 DEF LastAnswered
    <2> QED BY <2>1, <2>2
  <1>11. LastAnswered'.reply = f.reply /\ LastAnswered'.slot = f.slot
    BY <1>3, <1>5, <1>6, <1>10 DEF Num, Demands, TakesSlot
  (* The end of the pipe does not move.                                    *)
  <1>12. /\ LastForwarded'.reply = LastForwarded.reply
         /\ LastForwarded'.slot = LastForwarded.slot
         /\ (NextIsToken' <=> NextIsToken)
    <2>1. LastForwarded = toBroker[Len(toBroker)]
          /\ (NextIsToken <=> IsHandshakeV0(toBroker[Len(toBroker)]))
      BY <1>1 DEF LastForwarded, NextIsToken
    <2>2. CASE toBroker' = <<>>
      <3>1. Len(toBroker) = 1 BY <1>1, <1>2, <1>8, <2>2
      <3>2. LastForwarded' = LastAnswered' /\ (NextIsToken' <=> brokerToken')
        BY <2>2 DEF LastForwarded, NextIsToken
      <3> QED BY <1>8, <1>11, <2>1, <3>1, <3>2 DEF f
    <2>3. CASE toBroker' # <<>>
      <3>1. toBroker'[Len(toBroker')] = toBroker[Len(toBroker)]
        BY <1>1, <1>2, <1>8, <2>3
      <3> QED BY <2>1, <2>3, <3>1 DEF LastForwarded, NextIsToken, IsHandshakeV0
    <2> QED BY <2>2, <2>3
  <1>13. PipeInv'
    <2>1. ReplyChain(fromBroker', rspFrame)
      <3>1. LastAnswered = IF fromBroker = <<>> THEN rspFrame ELSE fromBroker[Len(fromBroker)]
        BY DEF LastAnswered
      <3>2. CASE Demands(f)
        BY <1>1, <1>3, <1>4, <1>5, <1>8, <3>1, <3>2, ReplyChainAppend DEF Num
      <3>3. CASE ~Demands(f)
        BY <1>4, <1>8, <3>3
      <3> QED BY <3>2, <3>3
    <2>2. FrameChain(toBroker', LastAnswered', brokerToken')
      BY <1>1, <1>4, <1>8, <1>11, FrameChainTail DEF f
    <2>3. /\ NotAfter(rspFrame, LastForwarded')
          /\ \A i \in 1..Len(fromBroker) : NotAfter(fromBroker[i], LastForwarded')
          /\ \A i \in 1..Len(toBroker) : NotAfter(toBroker[i], LastForwarded')
      BY <1>12 DEF IInv, PipeInv, NotAfter
    <2>4. \A i \in 1..Len(fromBroker') : NotAfter(fromBroker'[i], LastForwarded')
      BY <1>2, <1>9, <2>3 DEF f
    <2>5. \A i \in 1..Len(toBroker') : NotAfter(toBroker'[i], LastForwarded')
      BY <1>2, <1>8, <2>3
    <2>6. ReplyChain(fromBroker, rspFrame)' /\ FrameChain(toBroker, LastAnswered, brokerToken)'
      BY <1>8, <2>1, <2>2 DEF ReplyChain, FrameChain, Demands, TakesSlot, IsHandshakeV0
    <2> QED BY <1>8, <2>3, <2>4, <2>5, <2>6 DEF PipeInv, NotAfter
  <1>14. Acks0Inv' BY <1>8 DEF IInv, Acks0Inv, InHand, reqState
  <1>15. RequestHandlerPresent' BY <1>8 DEF IInv, RequestHandlerPresent, reqState
  <1>16. ReqInv'
    BY <1>8, <1>12 DEF IInv, ReqInv, ReqEnded, InHand, Demands, TakesSlot, NextHandler,
                       IsHandshakeV0, reqState
  <1>17. RspInv' BY <1>8 DEF IInv, RspInv, rspState
  <1>18. OpenInv' BY <1>8, <1>12 DEF IInv, OpenInv, ReqEnded, reqState, rspState
  <1>19. OpenKindInv'
    <2>1. ASSUME NEW i \in 1..Len(openRequests)
          PROVE  /\ \A j \in 1..Len(fromBroker') :
                       TakesSlot(fromBroker'[j]) /\ fromBroker'[j].slot = openRequests[i].slot
                         => fromBroker'[j].kind = openRequests[i].kind
                 /\ \A j \in 1..Len(toBroker') :
                       TakesSlot(toBroker'[j]) /\ toBroker'[j].slot = openRequests[i].slot
                         => toBroker'[j].kind = openRequests[i].kind
      BY <1>2, <1>8, <1>9 DEF IInv, OpenKindInv, f
    <2> QED BY <1>8, <2>1 DEF IInv, OpenKindInv, TakesSlot, reqState, rspState
  <1>20. HandlerInv'
    BY <1>8 DEF IInv, HandlerInv, ReqEnded, Unput, Demands, reqState, rspState
  <1>21. JobInv'
    <2>1. ASSUME NEW x, JobMatches(x)
          PROVE  /\ \A j \in 1..Len(fromBroker') :
                       fromBroker'[j].reply = x.reply => (x.h = "saslV0" <=> fromBroker'[j].token)
                 /\ \A j \in 1..Len(toBroker') :
                       Demands(toBroker'[j]) /\ toBroker'[j].reply = x.reply
                         => (x.h = "saslV0" <=> toBroker'[j].token)
      BY <1>2, <1>8, <1>9, <2>1 DEF JobMatches, f
    <2>2. \A i \in 1..Len(nextRsp) : JobMatches(nextRsp[i])'
      BY <1>8, <1>12, <2>1 DEF IInv, JobInv, JobMatches, ReqEnded, InHand, Unput, Demands, reqState
    <2>3. rsp = "read" => JobMatches(rspHandler)'
      BY <1>8, <1>12, <2>1 DEF IInv, JobInv, JobMatches, ReqEnded, InHand, Unput, Demands,
                               reqState, rspState
    <2> QED BY <1>8, <2>2, <2>3 DEF JobInv, reqState, rspState
  <1> QED BY <1>13, <1>14, <1>15, <1>16, <1>17, <1>18, <1>19, <1>20, <1>21 DEF IInv

-----------------------------------------------------------------------------
(* The responses loop, action by action. *)

LEMMA InvGetNextResponseHandler ==
  ASSUME IInv, TypeOK', GetNextResponseHandler PROVE IInv'
  <1>1. /\ rsp = "handler" /\ rsp' = "read" /\ nextRsp # <<>>
        /\ rspHandler' = Head(nextRsp) /\ nextRsp' = Tail(nextRsp)
        /\ UNCHANGED <<fromClient, pipeVars, openRequests, nextReq, req, reqHandler,
                       reqFrame, rspOpen>>
    BY DEF GetNextResponseHandler, sockets, peers, reqVars, pipeVars
  <1>2. PipeInv' /\ LastForwarded' = LastForwarded /\ (NextIsToken' <=> NextIsToken)
    BY <1>1, PipeUnchanged DEF IInv
  <1>3. nextRsp \in Seq(RspJob) /\ rspHandler.reply \in Nat
    BY DEF IInv, TypeOK, RspJob
  <1>4. /\ Len(nextRsp) \in Nat /\ Len(nextRsp) >= 1 /\ Len(nextRsp') = Len(nextRsp) - 1
        /\ rspHandler' = nextRsp[1] /\ 1 \in 1..Len(nextRsp)
        /\ \A i \in 1..Len(nextRsp') : i + 1 \in 1..Len(nextRsp) /\ nextRsp'[i] = nextRsp[i + 1]
    BY <1>1, <1>3, TailAt
  <1>5. rspHandler'.reply = rspHandler.reply + 1
    BY <1>4 DEF IInv, HandlerInv
  <1>6. Acks0Inv' BY <1>1 DEF IInv, Acks0Inv, InHand
  <1>7. RequestHandlerPresent' BY <1>1 DEF IInv, RequestHandlerPresent
  <1>8. ReqInv'
    BY <1>1, <1>2 DEF IInv, ReqInv, ReqEnded, InHand, Demands, TakesSlot, NextHandler, IsHandshakeV0
  <1>9. RspInv'
    BY <1>1, <1>5 DEF IInv, RspInv, pipeVars
  <1>10. OpenInv' BY <1>1, <1>2 DEF IInv, OpenInv, ReqEnded
  <1>11. OpenKindInv' BY <1>1 DEF IInv, OpenKindInv, TakesSlot, pipeVars
  <1>12. HandlerInv'
    <2>1. ASSUME NEW i \in 1..Len(nextRsp') PROVE nextRsp'[i].reply = rspHandler'.reply + i
      <3>1. nextRsp[i + 1].reply = rspHandler.reply + (i + 1)
        BY <1>4 DEF IInv, HandlerInv
      <3>2. i \in Nat /\ nextRsp'[i] = nextRsp[i + 1] BY <1>4
      <3>3. rspHandler.reply + (i + 1) = (rspHandler.reply + 1) + i
        <4>1. rspHandler.reply \in Nat BY <1>3
        <4>2. i \in Nat BY <3>2
        <4> QED BY <4>1, <4>2
      <3> QED BY <1>5, <3>1, <3>2, <3>3
    <2>2. rspHandler'.reply + Len(nextRsp') = rspHandler.reply + Len(nextRsp)
      BY <1>3, <1>4, <1>5
    <2> QED BY <1>1, <2>1, <2>2 DEF IInv, HandlerInv, ReqEnded, Unput, Demands
  <1>13. JobInv'
    <2>1. \A i \in 1..Len(nextRsp) : JobMatches(nextRsp[i])
      BY DEF IInv, JobInv
    <2>2. ASSUME NEW i \in 1..Len(nextRsp') PROVE JobMatches(nextRsp[i])'
      BY <1>1, <1>2, <1>4, <2>1 DEF JobMatches, ReqEnded, InHand, Unput, Demands, pipeVars
    <2>3. JobMatches(rspHandler)'
      BY <1>1, <1>2, <1>4, <2>1 DEF JobMatches, ReqEnded, InHand, Unput, Demands, pipeVars
    <2> QED BY <2>2, <2>3 DEF JobInv
  <1> QED BY <1>2, <1>6, <1>7, <1>8, <1>9, <1>10, <1>11, <1>12, <1>13 DEF IInv

LEMMA InvReadResponse ==
  ASSUME IInv, TypeOK', ReadResponse PROVE IInv'
  <1> DEFINE g == fromBroker[1]
  <1>1. /\ fromBroker \in Seq(Frame) /\ toBroker \in Seq(Frame) /\ rspFrame \in Frame
        /\ fromBroker # <<>> /\ rspHandler.h \in Handlers /\ rspFrame.slot \in Nat
    BY FrameFields DEF IInv, TypeOK, ReadResponse, RspJob
  <1>2. /\ Len(fromBroker) \in Nat /\ Len(fromBroker) >= 1 /\ Head(fromBroker) = g
        /\ 1 \in 1..Len(fromBroker)
        /\ Len(Tail(fromBroker)) = Len(fromBroker) - 1
        /\ \A i \in 1..Len(Tail(fromBroker)) :
              i + 1 \in 1..Len(fromBroker) /\ Tail(fromBroker)[i] = fromBroker[i + 1]
    BY <1>1, TailAt
  <1>3. /\ rsp = "read" /\ rspFrame' = g /\ fromBroker' = Tail(fromBroker)
        /\ rsp' = IF rspHandler.h = "default" THEN "pop" ELSE "write"
        /\ UNCHANGED <<fromClient, toBroker, brokerToken, reqState, rspHandler, rspOpen>>
    BY <1>2 DEF ReadResponse, peers, chans, reqVars, reqState
  <1>4. g \in Frame /\ g.token \in BOOLEAN /\ g.slot \in Nat
    BY <1>1, <1>2, Elements, FrameFields
  <1>5. ReplyChain(fromBroker, rspFrame)
    BY DEF IInv, PipeInv
  <1>6. /\ Demands(g) /\ g.reply = rspFrame.reply + 1
        /\ g.slot = rspFrame.slot + Num(TakesSlot(g))
    BY <1>2, <1>5 DEF ReplyChain
  (* The handler in hand is the one the reply needs.                       *)
  <1>7. rspHandler.reply = g.reply /\ (rspHandler.h = "saslV0" <=> g.token)
    BY <1>2, <1>3, <1>6 DEF IInv, RspInv, JobInv, JobMatches
  <1>8. rspHandler.h = "default" <=> TakesSlot(g)
    BY <1>1, <1>6, <1>7 DEF Handlers, TakesSlot, Demands
  <1> HIDE DEF g
  <1>9. /\ LastAnswered' = LastAnswered /\ LastForwarded' = LastForwarded
        /\ (NextIsToken' <=> NextIsToken)
    <2>1. LastAnswered = fromBroker[Len(fromBroker)]
      BY <1>1 DEF LastAnswered
    <2>2. CASE fromBroker' = <<>>
      <3>1. Len(fromBroker) = 1
        <4>1. Tail(fromBroker) = <<>> BY <1>3, <2>2, Zenon
        <4>2. Len(<<>>) = 0 OBVIOUS
        <4>3. Len(Tail(fromBroker)) = 0 BY <4>1, <4>2, Zenon
        <4>4. Len(fromBroker) \in Nat /\ Len(Tail(fromBroker)) = Len(fromBroker) - 1 BY <1>2
        <4> QED BY <4>3, <4>4
      <3> QED BY <1>3, <2>1, <2>2, <3>1 DEF LastAnswered, LastForwarded, NextIsToken, g, IsHandshakeV0
    <2>3. CASE fromBroker' # <<>>
      <3>1. fromBroker'[Len(fromBroker')] = fromBroker[Len(fromBroker)]
        BY <1>1, <1>2, <1>3, <2>3
      <3> QED BY <1>3, <2>1, <2>3, <3>1 DEF LastAnswered, LastForwarded, NextIsToken, IsHandshakeV0
    <2> QED BY <2>2, <2>3
  <1>10. PipeInv'
    <2>1. ReplyChain(fromBroker', rspFrame')
      BY <1>1, <1>3, <1>5, ReplyChainTail DEF g
    <2>2. FrameChain(toBroker', LastAnswered', brokerToken')
      BY <1>3, <1>9 DEF IInv, PipeInv
    <2>3. /\ NotAfter(rspFrame', LastForwarded')
          /\ \A i \in 1..Len(fromBroker') : NotAfter(fromBroker'[i], LastForwarded')
          /\ \A i \in 1..Len(toBroker') : NotAfter(toBroker'[i], LastForwarded')
      BY <1>2, <1>3, <1>9 DEF IInv, PipeInv, g
    <2>4. ReplyChain(fromBroker, rspFrame)' /\ FrameChain(toBroker, LastAnswered, brokerToken)'
      BY <2>1, <2>2 DEF ReplyChain, FrameChain, Demands, TakesSlot, IsHandshakeV0
    <2> QED BY <2>3, <2>4 DEF PipeInv, NotAfter
  <1>11. Acks0Inv' BY <1>3 DEF IInv, Acks0Inv, InHand, reqState
  <1>12. RequestHandlerPresent' BY <1>3 DEF IInv, RequestHandlerPresent, reqState
  <1>13. ReqInv'
    BY <1>3, <1>9 DEF IInv, ReqInv, ReqEnded, InHand, Demands, TakesSlot, NextHandler,
                      IsHandshakeV0, reqState
  <1>14. RspInv'
    <2>1. rspOpen.slot = rspFrame.slot BY <1>3 DEF IInv, RspInv
    <2>2. rsp' = "pop" => rspOpen.slot = g.slot - 1 /\ rspHandler.h = "default"
      BY <1>1, <1>3, <1>6, <1>8, <2>1 DEF Num
    <2>3. rsp' = "write" => rspOpen.slot = g.slot
      BY <1>1, <1>3, <1>4, <1>6, <1>8, <2>1 DEF Num
    <2> QED BY <1>3, <1>7, <2>2, <2>3 DEF RspInv
  <1>15. OpenInv' BY <1>3, <1>9 DEF IInv, OpenInv, ReqEnded, reqState
  <1>16. OpenKindInv'
    <2>1. ASSUME NEW i \in 1..Len(openRequests)
          PROVE  /\ \A j \in 1..Len(fromBroker') :
                       TakesSlot(fromBroker'[j]) /\ fromBroker'[j].slot = openRequests[i].slot
                         => fromBroker'[j].kind = openRequests[i].kind
                 /\ rsp' = "pop" /\ g.slot = openRequests[i].slot
                         => g.kind = openRequests[i].kind
      BY <1>2, <1>3, <1>8 DEF IInv, OpenKindInv, g
    <2> QED BY <1>3, <2>1 DEF IInv, OpenKindInv, TakesSlot, reqState
  <1>17. HandlerInv'
    BY <1>3 DEF IInv, HandlerInv, ReqEnded, Unput, Demands, reqState
  <1>18. JobInv'
    <2>1. ASSUME NEW x, JobMatches(x)
          PROVE  \A j \in 1..Len(fromBroker') :
                    fromBroker'[j].reply = x.reply => (x.h = "saslV0" <=> fromBroker'[j].token)
      BY <1>2, <1>3, <2>1 DEF JobMatches
    <2>2. \A i \in 1..Len(nextRsp) : JobMatches(nextRsp[i])'
      BY <1>3, <1>9, <2>1 DEF IInv, JobInv, JobMatches, ReqEnded, InHand, Unput, Demands, reqState
    <2>3. rsp' # "read" BY <1>3
    <2> QED BY <1>3, <2>2, <2>3 DEF JobInv, reqState
  <1> QED BY <1>10, <1>11, <1>12, <1>13, <1>14, <1>15, <1>16, <1>17, <1>18 DEF IInv

(* The entry of a reply is in openRequests when its header has been read.  *)
LEMMA EntryIsThere ==
  ASSUME IInv, rsp = "pop" PROVE openRequests # <<>>
  <1>1. /\ rspOpen.slot = rspFrame.slot - 1
        /\ rspOpen.slot + Len(openRequests) >= LastForwarded.slot
    BY DEF IInv, RspInv, OpenInv
  <1>2. /\ rspOpen.slot \in Nat /\ rspFrame.slot \in Nat /\ LastForwarded.slot \in Nat
        /\ rspFrame.slot <= LastForwarded.slot
    BY PipeBounds, PipeTypes DEF IInv, TypeOK, Entry
  <1>3. openRequests = <<>> => Len(openRequests) = 0
    OBVIOUS
  <1> QED BY <1>1, <1>2, <1>3

LEMMA InvReceiveRequestKeyVersion ==
  ASSUME IInv, TypeOK', ReceiveRequestKeyVersion PROVE IInv'
  <1>1. /\ rsp = "pop" /\ rsp' = "write" /\ openRequests # <<>>
        /\ rspOpen' = Head(openRequests) /\ openRequests' = Tail(openRequests)
        /\ UNCHANGED <<fromClient, pipeVars, nextReq, nextRsp, req, reqHandler, reqFrame,
                       rspHandler>>
    BY EntryIsThere DEF ReceiveRequestKeyVersion, sockets, peers, reqVars, pipeVars
  <1>2. PipeInv' /\ LastForwarded' = LastForwarded /\ (NextIsToken' <=> NextIsToken)
    BY <1>1, PipeUnchanged DEF IInv
  <1>3. openRequests \in Seq(Entry) /\ rspOpen.slot \in Nat /\ rspFrame.slot \in Nat
    BY FrameFields DEF IInv, TypeOK, Entry
  <1>4. /\ Len(openRequests) \in Nat /\ Len(openRequests) >= 1
        /\ Len(openRequests') = Len(openRequests) - 1
        /\ rspOpen' = openRequests[1] /\ 1 \in 1..Len(openRequests)
        /\ \A i \in 1..Len(openRequests') :
              i + 1 \in 1..Len(openRequests) /\ openRequests'[i] = openRequests[i + 1]
    BY <1>1, <1>3, TailAt
  <1>5. rspOpen'.slot = rspOpen.slot + 1 /\ rspOpen'.slot = rspFrame.slot
    <2>1. openRequests[1].slot = rspOpen.slot + 1
      BY <1>4 DEF IInv, OpenInv
    <2>2. rspOpen.slot = rspFrame.slot - 1
      BY <1>1 DEF IInv, RspInv
    <2> QED BY <1>3, <1>4, <2>1, <2>2
  <1>6. rspOpen'.kind = rspFrame.kind
    BY <1>1, <1>4, <1>5 DEF IInv, OpenKindInv
  <1>7. Acks0Inv' BY <1>1 DEF IInv, Acks0Inv, InHand
  <1>8. RequestHandlerPresent' BY <1>1 DEF IInv, RequestHandlerPresent
  <1>9. ReqInv'
    BY <1>1, <1>2 DEF IInv, ReqInv, ReqEnded, InHand, Demands, TakesSlot, NextHandler, IsHandshakeV0
  <1>10. RspInv'
    BY <1>1, <1>5 DEF IInv, RspInv, pipeVars
  <1>11. OpenInv'
    <2>1. ASSUME NEW i \in 1..Len(openRequests') PROVE openRequests'[i].slot = rspOpen'.slot + i
      <3>1. openRequests[i + 1].slot = rspOpen.slot + (i + 1)
        BY <1>4 DEF IInv, OpenInv
      <3>2. i \in Nat /\ openRequests'[i] = openRequests[i + 1] BY <1>4
      <3>3. rspOpen.slot + (i + 1) = (rspOpen.slot + 1) + i
        <4>1. rspOpen.slot \in Nat BY <1>3
        <4>2. i \in Nat BY <3>2
        <4> QED BY <4>1, <4>2
      <3> QED BY <1>5, <3>1, <3>2, <3>3
    <2>2. rspOpen'.slot + Len(openRequests') = rspOpen.slot + Len(openRequests)
      BY <1>3, <1>4, <1>5
    <2> QED BY <1>1, <1>2, <2>1, <2>2 DEF IInv, OpenInv, ReqEnded
  <1>12. OpenKindInv'
    BY <1>1, <1>4, <1>6 DEF IInv, OpenKindInv, TakesSlot, pipeVars
  <1>13. HandlerInv'
    BY <1>1 DEF IInv, HandlerInv, ReqEnded, Unput, Demands
  <1>14. JobInv'
    BY <1>1, <1>2 DEF IInv, JobInv, JobMatches, ReqEnded, InHand, Unput, Demands, pipeVars
  <1> QED BY <1>2, <1>7, <1>8, <1>9, <1>10, <1>11, <1>12, <1>13, <1>14 DEF IInv

-----------------------------------------------------------------------------
(* The invariant holds initially and every step preserves it. *)

LEMMA InvInit == Init => IInv
  <1> SUFFICES ASSUME Init PROVE IInv
    OBVIOUS
  <1>1. /\ fromBroker = <<>> /\ toBroker = <<>> /\ fromClient = <<>> /\ openRequests = <<>>
        /\ ~brokerToken /\ nextReq = "default" /\ req \in {"gateway", "handler"}
        /\ reqFrame = NoFrame /\ rspFrame = NoFrame /\ rsp = "handler"
        /\ rspHandler.reply = 0 /\ rspOpen.slot = 0
    BY DEF Init
  <1>2. Len(nextRsp) = 1 /\ nextRsp[1].reply = 1 /\ nextRsp[1].h = "default"
    BY DEF Init
  <1>3. NoFrame.reply = 0 /\ NoFrame.slot = 0 /\ NoFrame.token = FALSE /\ NoFrame.kind = "bad"
    BY DEF NoFrame
  <1>4. Len(fromBroker) = 0 /\ Len(toBroker) = 0 /\ Len(fromClient) = 0 /\ Len(openRequests) = 0
    BY <1>1
  <1>5. LastForwarded = NoFrame /\ LastAnswered = NoFrame /\ ~NextIsToken
    BY <1>1 DEF LastForwarded, LastAnswered, NextIsToken
  <1>6. ~InHand /\ ~Unput /\ ~ReqEnded
    BY <1>1 DEF InHand, Unput, ReqEnded
  <1>7. Acks0Inv BY <1>4, <1>6 DEF Acks0Inv
  <1>8. PipeInv
    BY <1>1, <1>3, <1>4, <1>5 DEF PipeInv, ReplyChain, FrameChain, NotAfter
  <1>9. ReqInv BY <1>1, <1>3, <1>5, <1>6 DEF ReqInv
  <1>10. RspInv BY <1>1, <1>3 DEF RspInv
  <1>11. OpenInv
    <2>1. /\ rspOpen.slot = 0 /\ LastForwarded.slot = 0 /\ reqFrame.slot = 0
          /\ Len(openRequests) = 0 /\ req # "push"
      BY <1>1, <1>3, <1>4, <1>5
    <2>2. \A i \in 1..Len(openRequests) : openRequests[i].slot = rspOpen.slot + i
      BY <1>4
    <2>3. Num(req = "push") = 0 BY <2>1 DEF Num
    <2>4. /\ rspOpen.slot + Len(openRequests) >= LastForwarded.slot
          /\ rspOpen.slot + Len(openRequests) = reqFrame.slot - Num(req = "push")
      BY <2>1, <2>3
    <2> QED BY <2>2, <2>4 DEF OpenInv
  <1>12. OpenKindInv BY <1>1, <1>4 DEF OpenKindInv
  <1>13. HandlerInv
    <2>1. \A i \in 1..Len(nextRsp) : i = 1 BY <1>2
    <2>2. reqFrame.reply = 0 BY <1>1, <1>3
    <2> QED BY <1>1, <1>2, <1>6, <2>1, <2>2 DEF HandlerInv, Num
  <1>14. JobInv
    <2>1. JobMatches(nextRsp[1]) BY <1>2, <1>4, <1>5, <1>6 DEF JobMatches
    <2>2. \A i \in 1..Len(nextRsp) : i = 1 BY <1>2
    <2> QED BY <1>1, <2>1, <2>2 DEF JobInv
  <1>15. RequestHandlerPresent BY <1>1 DEF RequestHandlerPresent
  <1> QED BY TypeInit, <1>7, <1>8, <1>9, <1>10, <1>11, <1>12, <1>13, <1>14, <1>15 DEF IInv

LEMMA InvClientSend ==
  ASSUME IInv, TypeOK', NEW kind \in Kinds, ClientSend(kind) PROVE IInv'
  <1> DEFINE r == [id |-> sent + 1, kind |-> kind]
  <1>1. fromClient' = Append(fromClient, r) /\ UNCHANGED <<pipeVars, reqState, rspState>>
    BY DEF ClientSend, chans, reqVars, rspVars, pipeVars, reqState, rspState
  <1>2. fromClient \in Seq(Request) /\ r \in Request
    BY ConstAssumption DEF IInv, TypeOK, Request
  <1>3. /\ \A i \in 1..Len(fromClient) : fromClient'[i] = fromClient[i]
        /\ fromClient'[Len(fromClient) + 1] = r
        /\ \A i \in 1..Len(fromClient') :
              i \in 1..Len(fromClient) \/ i = Len(fromClient) + 1
    BY <1>1, <1>2, AppendAt
  <1>4. Acks0Disabled => r.kind # "produce0"
    BY Acks0Assumption
  <1> HIDE DEF r
  <1>5. Acks0Disabled => \A i \in 1..Len(fromClient') : fromClient'[i].kind # "produce0"
    BY <1>3, <1>4 DEF IInv, Acks0Inv
  <1>6. Acks0Inv'
    BY <1>1, <1>5 DEF IInv, Acks0Inv, InHand, reqState
  <1> QED BY <1>1, <1>6, CoreUnchanged

LEMMA InvEnvironment ==
  ASSUME IInv, TypeOK', Environment PROVE IInv'
  <1>1. ASSUME UNCHANGED <<fromClient, pipeVars, reqState, rspState>> PROVE IInv'
    <2>1. Acks0Inv' BY <1>1 DEF IInv, Acks0Inv, InHand, reqState
    <2> QED BY <1>1, <2>1, CoreUnchanged
  <1> USE DEF sockets, peers, chans, reqVars, rspVars, pipeVars, reqState, rspState
  <1>2. CASE ClientReceive BY <1>1, <1>2 DEF ClientReceive
  <1>3. CASE ClientClose BY <1>1, <1>3 DEF ClientClose
  <1>4. CASE BrokerClose BY <1>1, <1>4 DEF BrokerClose
  <1>5. CASE ConnSetClose BY <1>1, <1>5 DEF ConnSetClose
  <1> QED BY <1>2, <1>3, <1>4, <1>5, InvClientSend, InvBrokerServe DEF Environment

LEMMA InvRequestsLoop ==
  ASSUME IInv, TypeOK', RequestsLoop PROVE IInv'
  <1> USE DEF sockets, peers, chans, rspVars, pipeVars, rspState
  <1>1. CASE ReadAndReject BY <1>1, ReqEnds DEF ReadAndReject, CanRead
  <1>2. CASE ReadRequestFails BY <1>2, ReqEnds DEF ReadRequestFails
  <1>3. CASE WriteRequestFails BY <1>3, ReqEnds DEF WriteRequestFails
  <1>4. CASE RequestsLoopReturns
    <2>1. req # "missing" BY DEF IInv, RequestHandlerPresent
    <2> QED BY <1>4, <2>1, ReqEnds DEF RequestsLoopReturns
  <1>5. CASE RequestsLoopCloses BY <1>5, ReqEnds DEF RequestsLoopCloses
  <1> QED BY <1>1, <1>2, <1>3, <1>4, <1>5, InvGatewayAuth, InvGetNextRequestHandler,
             InvReadRequest, InvReadSaslToken, InvLocalHandshake, InvLocalToken,
             InvSendRequestKeyVersion, InvWriteRequest, InvPutNextResponseHandler
          DEF RequestsLoop

LEMMA InvResponsesLoop ==
  ASSUME IInv, TypeOK', ResponsesLoop PROVE IInv'
  <1> USE DEF sockets, peers, chans, reqVars, pipeVars, reqState
  <1>1. CASE GetNextResponseHandlerTimeout BY <1>1, RspMoves DEF GetNextResponseHandlerTimeout
  <1>2. CASE ReadResponseFails BY <1>2, RspMoves DEF ReadResponseFails
  <1>3. CASE WriteResponse BY <1>3, RspMoves DEF WriteResponse
  <1>4. CASE WriteResponseFails BY <1>4, RspMoves DEF WriteResponseFails
  <1>5. CASE ResponsesLoopReturns BY <1>5, RspMoves DEF ResponsesLoopReturns
  <1>6. CASE ResponsesLoopCloses BY <1>6, RspMoves DEF ResponsesLoopCloses
  <1> QED BY <1>1, <1>2, <1>3, <1>4, <1>5, <1>6, InvGetNextResponseHandler,
             InvReadResponse, InvReceiveRequestKeyVersion
          DEF ResponsesLoop

LEMMA InvNext == IInv /\ [Next]_vars => IInv'
  <1> SUFFICES ASSUME IInv, [Next]_vars PROVE IInv'
    OBVIOUS
  <1>1. TypeOK' BY TypeNext DEF IInv
  <1>2. CASE UNCHANGED vars
    <2>1. UNCHANGED <<fromClient, pipeVars, reqState, rspState>>
      BY <1>2 DEF vars, sockets, peers, chans, reqVars, rspVars, pipeVars, reqState, rspState
    <2>2. Acks0Inv' BY <2>1 DEF IInv, Acks0Inv, InHand, reqState
    <2> QED BY <1>1, <2>1, <2>2, CoreUnchanged
  <1> QED BY <1>1, <1>2, InvEnvironment, InvRequestsLoop, InvResponsesLoop DEF Next

LEMMA InvAlways == Spec => []IInv
  <1> QED BY InvInit, InvNext, PTL DEF Spec

-----------------------------------------------------------------------------
(* What the invariant shows. *)

(* However the loops, the client and the broker interleave, a reply is     *)
(* read by the handler of its format and modified with the api key and     *)
(* version of the request it answers (handleResponse), although it carries *)
(* neither: openRequests and nextRsp stay in step with the broker.         *)
THEOREM RepliesReadAsTheirRequests == Spec => []ReplyReadAsItsRequest
  <1>1. IInv => ReplyReadAsItsRequest
    <2> SUFFICES ASSUME IInv PROVE ReplyReadAsItsRequest
      OBVIOUS
    <2>1. rspFrame.token \in BOOLEAN /\ rspOpen \in Entry
      BY FrameFields DEF IInv, TypeOK
    <2>2. rsp \in {"pop", "write"} => (rspHandler.h = "saslV0") = rspFrame.token
      BY <2>1 DEF IInv, RspInv
    <2>3. rsp = "write" /\ rspHandler.h = "default" =>
            rspOpen.slot = rspFrame.slot /\ rspOpen.kind = rspFrame.kind
      BY DEF IInv, RspInv, OpenKindInv
    <2>4. rspOpen = [slot |-> rspOpen.slot, kind |-> rspOpen.kind]
      BY <2>1 DEF Entry
    <2> QED BY <2>2, <2>3, <2>4 DEF ReplyReadAsItsRequest
  <1> QED BY <1>1, InvAlways, PTL

(* receiveRequestKeyVersion never waits: the entry was put in openRequests *)
(* before the request was written.                                         *)
THEOREM OpenRequestsPresent == Spec => []OpenRequestPresent
  <1>1. IInv => OpenRequestPresent
    BY EntryIsThere DEF OpenRequestPresent
  <1> QED BY <1>1, InvAlways, PTL

(* requestsLoop never finds its handler channel empty, so copyError is     *)
(* never given a nil error.                                                *)
THEOREM RequestHandlersPresent == Spec => []RequestHandlerPresent
  <1>1. IInv => RequestHandlerPresent BY DEF IInv
  <1> QED BY <1>1, InvAlways, PTL

(* getNextResponseHandler waits only while putNextHandlers is on its way   *)
(* to the channel, or after the requests loop has given up.                *)
THEOREM HandlersOnTheirWay == Spec => []HandlerIsOnItsWay
  <1>1. IInv => HandlerIsOnItsWay
    <2> SUFFICES ASSUME IInv, rsp = "handler", nextRsp = <<>>, ~ReqEnded, req # "putRsp"
                 PROVE  FALSE
      BY DEF HandlerIsOnItsWay
    <2>1. /\ rspHandler.reply = rspFrame.reply
          /\ rspHandler.reply + Len(nextRsp) = reqFrame.reply + Num(~Unput)
          /\ reqFrame.reply = LastForwarded.reply + (IF InHand THEN Num(Demands(reqFrame)) ELSE 0)
      BY DEF IInv, RspInv, HandlerInv, ReqInv
    <2>2. /\ rspFrame.reply \in Nat /\ LastForwarded.reply \in Nat
          /\ rspFrame.reply <= LastForwarded.reply
      BY PipeBounds, PipeTypes DEF IInv
    <2>3. reqFrame.reply \in Nat
      BY FrameFields DEF IInv, TypeOK
    <2>4. Unput <=> InHand /\ Demands(reqFrame)
      BY DEF Unput, InHand
    <2>5. Len(nextRsp) = 0 OBVIOUS
    <2>6. rspHandler.reply = reqFrame.reply + Num(~Unput)
      BY <2>1, <2>2, <2>5
    <2> QED BY <2>1, <2>2, <2>3, <2>4, <2>6 DEF Num
  <1> QED BY <1>1, InvAlways, PTL
-----------------------------------------------------------------------------
(* The connection keeps the contract of copyThenClose. *)

(* Who has ended, and what is closed: a loop closes or is done only after  *)
(* firstErr was filled, one loop at most is closing, and once neither is   *)
(* both sockets are closed.                                                *)
StopInv ==
  /\ ~firstErr => req \notin {"closing", "done"} /\ rsp \notin {"closing", "done"}
  /\ ~(req = "closing" /\ rsp = "closing")
  /\ firstErr /\ req # "closing" /\ rsp # "closing" => ~localOpen /\ ~remoteOpen

(* What the contract sees of the connection.                               *)
Stopping == <<localOpen, remoteOpen, firstErr, req = "closing", rsp = "closing",
              rsp = "done">>

LEMMA EnvironmentStops ==
  ASSUME IInv, StopInv, Environment
  PROVE  /\ StopInv'
         /\ ConnSetClose \/ UNCHANGED Stopping
<1>1. CASE ConnSetClose
  BY <1>1 DEF ConnSetClose, StopInv, reqVars, rspVars
<1>2. CASE ~ConnSetClose
  <2>1. UNCHANGED <<localOpen, remoteOpen, firstErr, req, rsp>>
    BY <1>2 DEF Environment, ClientSend, ClientReceive, ClientClose, BrokerServe,
                BrokerClose, ends, reqVars, rspVars
  <2> QED BY <2>1 DEF StopInv, Stopping
<1> QED BY <1>1, <1>2

LEMMA RequestsLoopStops ==
  ASSUME IInv, StopInv, RequestsLoop
  PROVE  /\ StopInv'
         /\ RequestsLoopReturns \/ RequestsLoopCloses \/ UNCHANGED Stopping
<1> USE DEF StopInv, Stopping, sockets, ends, peers, chans, rspVars
<1>0. req \in ReqPcs /\ firstErr \in BOOLEAN /\ req \notin {"missing", "panicked"}
  BY DEF IInv, TypeOK, RequestHandlerPresent
<1>1. CASE \/ GatewayAuth \/ GetNextRequestHandler \/ ReadAndReject \/ ReadRequest
           \/ ReadSaslToken \/ ReadRequestFails \/ LocalHandshake \/ LocalToken
           \/ SendRequestKeyVersion \/ WriteRequest \/ WriteRequestFails
           \/ PutNextResponseHandler
  <2>1. /\ req \notin {"closing", "done"} /\ req' \notin {"closing", "done"}
        /\ UNCHANGED <<localOpen, remoteOpen, firstErr, rsp>>
    BY <1>1 DEF GatewayAuth, GetNextRequestHandler, ReadAndReject, ReadRequest,
         PcAfterRead, ReadSaslToken, ReadRequestFails, LocalHandshake, LocalToken,
         PutNextRequestHandler, SendRequestKeyVersion, WriteRequest, PcAfterWrite,
         WriteRequestFails, PutNextResponseHandler
  <2> QED BY <2>1
<1>2. CASE RequestsLoopReturns
  BY <1>0, <1>2 DEF RequestsLoopReturns
<1>3. CASE RequestsLoopCloses
  BY <1>0, <1>3 DEF RequestsLoopCloses
<1> QED BY <1>1, <1>2, <1>3 DEF RequestsLoop

LEMMA ResponsesLoopStops ==
  ASSUME IInv, StopInv, ResponsesLoop
  PROVE  /\ StopInv'
         /\ ResponsesLoopReturns \/ ResponsesLoopCloses \/ UNCHANGED Stopping
<1> USE DEF StopInv, Stopping, sockets, ends, peers, chans, reqVars
<1>0. rsp \in RspPcs /\ firstErr \in BOOLEAN
  BY DEF IInv, TypeOK
<1>1. CASE \/ GetNextResponseHandler \/ GetNextResponseHandlerTimeout \/ ReadResponse
           \/ ReadResponseFails \/ ReceiveRequestKeyVersion \/ WriteResponse
           \/ WriteResponseFails
  <2>1. /\ rsp \notin {"closing", "done"} /\ rsp' \notin {"closing", "done"}
        /\ UNCHANGED <<localOpen, remoteOpen, firstErr, req>>
    BY <1>1 DEF GetNextResponseHandler, GetNextResponseHandlerTimeout, ReadResponse,
         ReadResponseFails, ReceiveRequestKeyVersion, WriteResponse, WriteResponseFails
  <2> QED BY <2>1
<1>2. CASE ResponsesLoopReturns
  BY <1>0, <1>2 DEF ResponsesLoopReturns
<1>3. CASE ResponsesLoopCloses
  BY <1>0, <1>3 DEF ResponsesLoopCloses
<1> QED BY <1>1, <1>2, <1>3 DEF ResponsesLoop

LEMMA StopNext == IInv /\ StopInv /\ [Next]_vars => StopInv'
<1> SUFFICES ASSUME IInv, StopInv, [Next]_vars PROVE StopInv'
  OBVIOUS
<1>1. CASE UNCHANGED vars
  BY <1>1 DEF StopInv, vars, ends, reqVars, rspVars
<1> QED
  BY <1>1, EnvironmentStops, RequestsLoopStops, ResponsesLoopStops DEF Next

LEMMA ContractKept ==
  ASSUME IInv, StopInv, IInv', StopInv', [Next]_vars
  PROVE  [Contract!Next]_(Contract!vars)
<1> USE DEF StopInv, sockets, ends, peers, chans, reqVars, rspVars
<1>0. /\ firstErr \in BOOLEAN /\ localOpen \in BOOLEAN /\ remoteOpen \in BOOLEAN
      /\ req \notin {"missing", "panicked"}
  BY DEF IInv, TypeOK, RequestHandlerPresent
<1>1. CASE UNCHANGED Stopping
  BY <1>1 DEF Stopping, Contract!vars
<1>2. CASE ConnSetClose
  BY <1>2 DEF ConnSetClose, Contract!Next, Contract!ShutDown
<1>3. CASE RequestsLoopReturns
  <2>1. CASE firstErr
    BY <1>3, <2>1 DEF RequestsLoopReturns, Contract!vars
  <2>2. CASE ~firstErr
    BY <1>0, <1>3, <2>2 DEF RequestsLoopReturns, Contract!Next, Contract!RequestsLoopEnds
  <2> QED BY <2>1, <2>2
<1>4. CASE RequestsLoopCloses
  BY <1>0, <1>4 DEF RequestsLoopCloses, Contract!Next, Contract!RequestsLoopCloses,
                    Contract!CloseBoth
<1>5. CASE ResponsesLoopReturns
  <2>1. CASE firstErr
    BY <1>5, <2>1 DEF ResponsesLoopReturns, Contract!Next, Contract!ResponsesLoopEnds
  <2>2. CASE ~firstErr
    BY <1>0, <1>5, <2>2 DEF ResponsesLoopReturns, Contract!vars
  <2> QED BY <2>1, <2>2
<1>6. CASE ResponsesLoopCloses
  BY <1>0, <1>6 DEF ResponsesLoopCloses, Contract!Next, Contract!ResponsesLoopEnds,
                    Contract!CloseBoth
<1>7. CASE UNCHANGED vars
  BY <1>7 DEF vars, Contract!vars
<1> QED
  BY <1>1, <1>2, <1>3, <1>4, <1>5, <1>6, <1>7, EnvironmentStops, RequestsLoopStops,
     ResponsesLoopStops DEF Next

LEMMA StopInit == Init => StopInv /\ Contract!Init
  BY DEF Init, StopInv, Contract!Init

(* The two loops of a connection keep to the contract that handleConn      *)
(* relies on when it calls copyThenClose: firstErr is filled once, only    *)
(* the loop that filled it closes the sockets, it closes both, and the     *)
(* call returns with the responses loop, by then with firstErr filled.     *)
THEOREM LoopsKeepContract == Spec => KeepsContract
<1>1. Spec => []StopInv
  BY StopInit, StopNext, InvAlways, PTL DEF Spec
<1> QED
  BY <1>1, StopInit, ContractKept, InvAlways, PTL DEF Spec, KeepsContract, Contract!Spec
=============================================================================
