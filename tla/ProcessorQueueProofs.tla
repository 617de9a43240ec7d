------------------------ MODULE ProcessorQueueProofs -------------------------
(***************************************************************************)
(* Proofs about what the client and the broker see of a connection: only   *)
(* admitted requests reach the broker; replies reach the client in the     *)
(* order of its requests, so that the connection implements ReplyQueue;    *)
(* the channel of response handlers always has room.                       *)
(***************************************************************************)
EXTENDS ProcessorProofs, SequenceTheorems

(* The numbers of ProcessorProofs say where a frame stands between the     *)
(* loops.  QueueInv ties them to the client: the broker's reply number n   *)
(* answers the request in place Base + n of the client's queue await.      *)

(* Frames the requests loop has read; replies the responses loop is done   *)
(* with.                                                                   *)
Read   == sent - Len(fromClient)
Relays == rspFrame.reply - Num(rsp \in {"pop", "write"})
Base   == Len(toClient) - Relays

(* Frames that are to be answered, from the requests loop's hands to the   *)
(* responses loop's.                                                       *)
InFlight ==
  (IF rsp \in {"pop", "write"} THEN {rspFrame} ELSE {})
    \cup {fromBroker[i] : i \in 1..Len(fromBroker)}
    \cup {toBroker[i] : i \in {j \in 1..Len(toBroker) : Demands(toBroker[j])}}
    \cup (IF InHand /\ Demands(reqFrame) THEN {reqFrame} ELSE {})

(* f is the frame of the request in its place of the queue q, and one of   *)
(* the first r requests.                                                   *)
InPlace(f, q, base, r) ==
  /\ f.id <= r
  /\ base + f.reply \in 1..Len(q)
  /\ q[base + f.reply].id = f.id /\ q[base + f.reply].kind = f.kind

(* Requests are numbered as they are sent.                                 *)
IdInv ==
  /\ \A i \in 1..Len(fromClient) : fromClient[i].id = Read + i
  /\ \A k \in 1..Len(await) : await[k].id <= sent /\ await[k].kind # "produce0"
  /\ \A k, l \in 1..Len(await) : k < l => await[k].id < await[l].id

(* The client waits for every unread request but Produce with acks=0.      *)
UnreadInv ==
  /\ \A i \in 1..Len(fromClient) :
       fromClient[i].kind # "produce0" => \E k \in 1..Len(await) : await[k] = fromClient[i]
  /\ \A k \in 1..Len(await) :
       await[k].id > Read => \E i \in 1..Len(fromClient) : await[k] = fromClient[i]

(* What the client has not received yet answers what it waits for.         *)
ReceivedInv ==
  \A i \in 1..Len(toClient) :
    i <= Len(await) /\ toClient[i] = await[i] /\ toClient[i].id <= Read

(* A client that waits for a SASL reply waits for nothing else, and has    *)
(* sent nothing since.                                                     *)
StepwiseInv ==
  ~Pipelining => \A k \in 1..Len(await) :
                   await[k].kind \in SaslKinds => Len(await) = 1 /\ await[k].id = sent

(* The last frame the requests loop has read was a v0 handshake.           *)
AfterV0 ==
  \/ req \in {"gateway", "handler"} /\ nextReq = "saslV0"
  \/ req = "read" /\ reqHandler = "saslV0"
  \/ req = "token" /\ reqFrame.kind = "hs0"
  \/ req \in {"push", "write", "putRsp"} /\ IsHandshakeV0(reqFrame)

(* The client sends a token after a v0 handshake and nowhere else.         *)
TokenInv ==
  ~ReqEnded =>
    /\ \A i \in 1..Len(fromClient) :
         fromClient[i].kind = "token" <=>
            (IF i = 1 THEN AfterV0 ELSE fromClient[i-1].kind = "hs0")
    /\ mustToken <=> (IF fromClient = <<>> THEN AfterV0
                      ELSE fromClient[Len(fromClient)].kind = "hs0")

(* The frames to be answered are in the order of their numbers.            *)
OrderInv ==
  \A i \in 1..Len(toBroker) :
    Demands(toBroker[i]) =>
      /\ toBroker[i].reply > LastAnswered.reply
      /\ \A j \in 1..(i-1) : toBroker[j].reply < toBroker[i].reply

(* Every one of them has its place in the client's queue.                  *)
PlaceInv == ~RspEnded => \A f \in InFlight : InPlace(f, await, Base, Read)

(* The requests read so far fill the places up to the last frame's.        *)
ReadInv ==
  ~RspEnded /\ ~ReqEnded =>
    /\ Base + reqFrame.reply <= Len(await)
    /\ \A k \in 1..Len(await) : await[k].id <= Read <=> k <= Base + reqFrame.reply

QueueInv ==
  /\ IdInv /\ UnreadInv /\ ReceivedInv /\ StepwiseInv /\ TokenInv
  /\ OrderInv /\ PlaceInv /\ ReadInv

(* Only local SASL waits for a token of its own.                           *)
LocalInv == req = "token" => LocalSaslEnabled

(* For a client that authenticates step by step: while a forwarded request *)
(* has a response handler that was not taken, the client waits for a reply *)
(* that has not been written.                                              *)
UnansweredInv ==
  ~ReqEnded /\ reqFrame.reply > rspHandler.reply =>
     \E k \in 1..Len(await) : k > Len(toClient) /\ await[k].id <= Read

(* How many more handlers than entries wait in the two channels.           *)
Lag == (reqFrame.reply - rspHandler.reply) - (reqFrame.slot - rspOpen.slot)

(* The last thing the client has sent is a token, whose reply it awaits.   *)
TokenIsLast ==
  /\ fromClient = <<>> /\ toClient = <<>> /\ Len(await) = 1 /\ await[1].kind = "token"
  /\ reqFrame.reply <= rspHandler.reply + 1

FitInv ==
  ~ReqEnded =>
    \/ /\ Lag <= 0
       /\ rsp = "pop" \/ (rsp = "read" /\ rspHandler.h = "default") => Lag <= -1
    \/ TokenIsLast

(* Whatever may reach the broker as a request was admitted.                *)
Admitted(f) ==
  /\ f.kind \notin Forbidden \cup Malformed
  /\ LocalSaslEnabled => f.kind \notin Handshakes /\ (localSaslDone \/ f.kind = "api")

AdmitInv ==
  /\ \A i \in 1..Len(toBroker) : ~toBroker[i].token => Admitted(toBroker[i])
  /\ InHand /\ ~reqFrame.token => Admitted(reqFrame)

-----------------------------------------------------------------------------
(* Admission. *)

(* A step that does not read a request keeps what was admitted.            *)
LEMMA AdmitKept ==
  ASSUME AdmitInv, localSaslDone => localSaslDone', UNCHANGED toBroker,
         InHand' /\ ~reqFrame'.token => InHand /\ UNCHANGED reqFrame
  PROVE  AdmitInv'
  BY DEF AdmitInv, Admitted

LEMMA AdmitRead ==
  ASSUME IInv, AdmitInv, ReadRequest PROVE AdmitInv'
  <1> DEFINE k == Head(fromClient).kind
  <1>1. UNCHANGED <<toBroker, localSaslDone>>
    BY DEF ReadRequest
  <1>2. ~Rejected(k) /\ ~HandledLocally(k)
    BY DEF ReadRequest
  <1>3. /\ k \notin Forbidden \cup Malformed
        /\ LocalSaslEnabled => k \notin Handshakes /\ (localSaslDone \/ k = "api")
    BY <1>2 DEF Rejected, HandledLocally
  <1>4. InHand' => reqFrame'.kind = k
    BY DEF ReadRequest, InHand
  <1> HIDE DEF k
  <1> QED BY <1>1, <1>3, <1>4 DEF AdmitInv, Admitted

LEMMA AdmitWrite ==
  ASSUME IInv, AdmitInv, WriteRequest PROVE AdmitInv'
  <1>1. /\ toBroker' = Append(toBroker, reqFrame) /\ InHand /\ ~InHand'
        /\ UNCHANGED <<reqFrame, localSaslDone>>
    BY DEF WriteRequest, InHand, PutNextRequestHandler, PcAfterWrite
  <1>2. toBroker \in Seq(Frame) /\ reqFrame \in Frame
    BY DEF IInv, TypeOK
  <1>3. \A i \in 1..Len(toBroker') : \/ i \in 1..Len(toBroker) /\ toBroker'[i] = toBroker[i]
                                     \/ toBroker'[i] = reqFrame
    BY <1>1, <1>2, AppendAt
  <1> QED BY <1>1, <1>3 DEF AdmitInv, Admitted

LEMMA AdmitServe ==
  ASSUME IInv, AdmitInv, BrokerServe PROVE AdmitInv'
  <1>1. /\ toBroker # <<>> /\ toBroker' = Tail(toBroker)
        /\ UNCHANGED <<req, reqFrame, localSaslDone>>
    BY DEF BrokerServe, reqVars
  <1>2. toBroker \in Seq(Frame)
    BY DEF IInv, TypeOK
  <1>3. \A i \in 1..Len(toBroker') : i + 1 \in 1..Len(toBroker) /\ toBroker'[i] = toBroker[i+1]
    BY <1>1, <1>2, TailAt
  <1> QED BY <1>1, <1>3 DEF AdmitInv, Admitted, InHand

LEMMA AdmitNext ==
  ASSUME IInv, AdmitInv, [Next]_vars PROVE AdmitInv'
  <1> USE DEF sockets, peers, chans, reqVars, rspVars
  <1>1. CASE UNCHANGED vars BY <1>1, AdmitKept DEF vars, InHand
  <1>2. CASE Environment
    <2>1. CASE \E kind \in Kinds : ClientSend(kind)
      BY <2>1, AdmitKept DEF ClientSend, InHand
    <2>2. CASE ClientReceive \/ ClientClose \/ BrokerClose \/ ConnSetClose
      BY <2>2, AdmitKept DEF ClientReceive, ClientClose, BrokerClose, ConnSetClose, InHand
    <2> QED BY <1>2, <2>1, <2>2, AdmitServe DEF Environment
  <1>3. CASE ResponsesLoop
    <2>1. UNCHANGED <<toBroker, reqVars>>
      BY <1>3 DEF ResponsesLoop, GetNextResponseHandler, GetNextResponseHandlerTimeout,
         ReadResponse, ReadResponseFails, ReceiveRequestKeyVersion, WriteResponse,
         WriteResponseFails, ResponsesLoopReturns, ResponsesLoopCloses
    <2> QED BY <2>1, AdmitKept DEF InHand
  <1>4. CASE RequestsLoop
    <2>1. CASE GatewayAuth BY <2>1, AdmitKept DEF GatewayAuth, InHand
    <2>2. CASE GetNextRequestHandler BY <2>2, AdmitKept DEF GetNextRequestHandler, InHand
    <2>3. CASE ReadAndReject BY <2>3, AdmitKept DEF ReadAndReject, InHand
    <2>4. CASE ReadSaslToken
      BY <2>4, AdmitKept DEF ReadSaslToken
    <2>5. CASE ReadRequestFails BY <2>5, AdmitKept DEF ReadRequestFails, InHand
    <2>6. CASE LocalHandshake BY <2>6, AdmitKept DEF LocalHandshake, InHand
    <2>7. CASE LocalToken
      BY <2>7, AdmitKept DEF LocalToken, PutNextRequestHandler, InHand
    <2>8. CASE SendRequestKeyVersion BY <2>8, AdmitKept DEF SendRequestKeyVersion, InHand
    <2>9. CASE WriteRequestFails BY <2>9, AdmitKept DEF WriteRequestFails, InHand
    <2>10. CASE PutNextResponseHandler BY <2>10, AdmitKept DEF PutNextResponseHandler, InHand
    <2>11. CASE RequestsLoopReturns BY <2>11, AdmitKept DEF RequestsLoopReturns, InHand
    <2>12. CASE RequestsLoopCloses BY <2>12, AdmitKept DEF RequestsLoopCloses, InHand
    <2> QED BY <1>4, <2>1, <2>2, <2>3, <2>4, <2>5, <2>6, <2>7, <2>8, <2>9, <2>10, <2>11,
               <2>12, AdmitRead, AdmitWrite DEF RequestsLoop
  <1> QED BY <1>1, <1>2, <1>3, <1>4 DEF Next

(* Whatever the client sends, and whenever, the broker executes no request *)
(* with a forbidden api key and, with local SASL, none before the client   *)
(* has authenticated but ApiVersions (handleRequest): what is passed on    *)
(* unchecked, a SASL token, is taken for a token by the broker as well.    *)
THEOREM OnlyAdmittedReachesBroker == Spec => []BrokerSeesOnlyAdmitted
  <1>1. Init => AdmitInv
    BY DEF Init, AdmitInv, InHand
  <1>2. IInv /\ AdmitInv /\ [Next]_vars => AdmitInv'
    BY AdmitNext
  <1>3. IInv /\ AdmitInv => BrokerSeesOnlyAdmitted
    <2> SUFFICES ASSUME IInv, AdmitInv, NEW i \in 1..Len(toBroker),
                        ~(IF i = 1 THEN brokerToken ELSE IsHandshakeV0(toBroker[i - 1]))
                 PROVE  /\ toBroker[i].kind \notin Forbidden \cup Malformed
                        /\ LocalSaslEnabled =>
                              /\ toBroker[i].kind \notin Handshakes
                              /\ localSaslDone \/ toBroker[i].kind = "api"
      BY DEF BrokerSeesOnlyAdmitted
    <2>1. ~toBroker[i].token
      BY DEF IInv, PipeInv, FrameChain
    <2> QED BY <2>1 DEF AdmitInv, Admitted
  <1> QED BY <1>1, <1>2, <1>3, InvAlways, PTL DEF Spec

-----------------------------------------------------------------------------
(* The client's queue: what the proofs below use of the types. *)

LEMMA RequestEq ==
  \A r \in Request : r = [id |-> r.id, kind |-> r.kind]
  BY DEF Request

LEMMA ReplyFields == \A r \in Reply : r.id \in Nat
  BY DEF Reply

LEMMA QueueTypes ==
  ASSUME TypeOK
  PROVE  /\ fromClient \in Seq(Request) /\ await \in Seq(Request) /\ toClient \in Seq(Reply)
         /\ toBroker \in Seq(Frame) /\ fromBroker \in Seq(Frame)
         /\ Len(fromClient) \in Nat /\ Len(await) \in Nat /\ Len(toClient) \in Nat
         /\ Len(toBroker) \in Nat /\ Len(fromBroker) \in Nat
         /\ sent \in Nat /\ Read \in Int /\ Relays \in Int
         /\ reqFrame \in Frame /\ rspFrame \in Frame
         /\ reqFrame.reply \in Nat /\ rspFrame.reply \in Nat
         /\ reqFrame.slot \in Nat /\ rspFrame.slot \in Nat
         /\ rspHandler.reply \in Nat /\ rspOpen.slot \in Nat
         /\ \A i \in 1..Len(fromClient) : fromClient[i] \in Request /\ fromClient[i].id \in Nat
         /\ \A i \in 1..Len(await) : await[i] \in Request /\ await[i].id \in Nat
         /\ \A i \in 1..Len(toClient) : toClient[i] \in Reply /\ toClient[i].id \in Nat
         /\ \A i \in 1..Len(toBroker) : toBroker[i].reply \in Nat /\ toBroker[i].id \in Nat
         /\ \A i \in 1..Len(fromBroker) : fromBroker[i].reply \in Nat /\ fromBroker[i].id \in Nat
  <1>1. /\ fromClient \in Seq(Request) /\ await \in Seq(Request) /\ toClient \in Seq(Reply)
        /\ toBroker \in Seq(Frame) /\ fromBroker \in Seq(Frame)
        /\ sent \in Nat /\ reqFrame \in Frame /\ rspFrame \in Frame
        /\ rspHandler \in RspJob /\ rspOpen \in Entry
    BY DEF TypeOK
  <1>2. /\ Len(fromClient) \in Nat /\ Len(await) \in Nat /\ Len(toClient) \in Nat
        /\ Len(toBroker) \in Nat /\ Len(fromBroker) \in Nat
    BY <1>1
  <1>3. /\ reqFrame.reply \in Nat /\ rspFrame.reply \in Nat
        /\ reqFrame.slot \in Nat /\ rspFrame.slot \in Nat
    BY <1>1, FrameFields
  <1>4. rspHandler.reply \in Nat /\ rspOpen.slot \in Nat
    BY <1>1 DEF RspJob, Entry
  <1>5. Read \in Int /\ Relays \in Int
    BY <1>1, <1>2, <1>3 DEF Read, Relays, Num
  <1>6. /\ \A i \in 1..Len(fromClient) : fromClient[i] \in Request /\ fromClient[i].id \in Nat
        /\ \A i \in 1..Len(await) : await[i] \in Request /\ await[i].id \in Nat
    <2>1. /\ \A i \in 1..Len(fromClient) : fromClient[i] \in Request
          /\ \A i \in 1..Len(await) : await[i] \in Request
      BY <1>1
    <2> QED BY <2>1, RequestIsReply
  <1>7. \A i \in 1..Len(toClient) : toClient[i] \in Reply /\ toClient[i].id \in Nat
    <2>1. \A i \in 1..Len(toClient) : toClient[i] \in Reply
      BY <1>1
    <2> QED BY <2>1, ReplyFields
  <1>8. /\ \A i \in 1..Len(toBroker) : toBroker[i] \in Frame
        /\ \A i \in 1..Len(fromBroker) : fromBroker[i] \in Frame
    BY <1>1
  <1>9. /\ \A i \in 1..Len(toBroker) : toBroker[i].reply \in Nat /\ toBroker[i].id \in Nat
        /\ \A i \in 1..Len(fromBroker) : fromBroker[i].reply \in Nat /\ fromBroker[i].id \in Nat
    BY <1>8, FrameFields
  <1> QED BY <1>1, <1>2, <1>3, <1>4, <1>5, <1>6, <1>7, <1>9

(* The responses loop never is ahead of the requests loop.                 *)
LEMMA RelaysBounds ==
  ASSUME IInv
  PROVE  /\ Relays <= rspHandler.reply \/ RspEnded
         /\ ~ReqEnded => Relays <= reqFrame.reply
  <1>1. TypeOK /\ PipeInv /\ RspInv /\ ReqInv BY DEF IInv
  <1>2. rspFrame.reply <= LastForwarded.reply /\ LastForwarded.reply \in Nat
    BY <1>1, PipeBounds, PipeTypes
  <1>3. rsp \in RspPcs BY <1>1 DEF TypeOK
  <1>4. Relays <= rspFrame.reply
    BY <1>1, QueueTypes DEF Relays, Num
  <1>5. ~RspEnded => rspFrame.reply <= rspHandler.reply
    BY <1>1, <1>3, QueueTypes DEF RspInv, RspEnded, RspPcs
  <1>6. ~ReqEnded => LastForwarded.reply <= reqFrame.reply
    BY <1>1, <1>2 DEF ReqInv, Num
  <1>7. /\ Relays \in Int /\ rspFrame.reply \in Nat /\ rspHandler.reply \in Nat
        /\ reqFrame.reply \in Nat
    BY <1>1, QueueTypes
  <1> QED BY <1>2, <1>4, <1>5, <1>6, <1>7

(* The part of the invariant that only speaks of the client.               *)
ClientInv == IdInv /\ UnreadInv /\ StepwiseInv

LEMMA ClientSame ==
  ASSUME ClientInv, UNCHANGED <<fromClient, sent, await>>
  PROVE  ClientInv' /\ Read' = Read
  BY DEF ClientInv, IdInv, UnreadInv, StepwiseInv, Read

(* The requests loop takes a frame.                                        *)
LEMMA ClientRead ==
  ASSUME TypeOK, ClientInv, fromClient # <<>>, fromClient' = Tail(fromClient),
         UNCHANGED <<sent, await>>
  PROVE  /\ ClientInv' /\ Read' = Read + 1
         /\ Head(fromClient) = fromClient[1] /\ fromClient[1].id = Read + 1
         /\ 1 \in 1..Len(fromClient)
         /\ \A k \in 1..Len(await) : await[k].id > Read /\ ~(await[k].id > Read')
                                       => await[k] = fromClient[1]
  <1>1. /\ Len(fromClient) >= 1 /\ Len(fromClient') = Len(fromClient) - 1
        /\ Head(fromClient) = fromClient[1] /\ 1 \in 1..Len(fromClient)
        /\ \A i \in 1..Len(fromClient') :
              i + 1 \in 1..Len(fromClient) /\ fromClient'[i] = fromClient[i+1]
    BY QueueTypes, TailAt
  <1>2. Read' = Read + 1 /\ Read \in Int /\ Len(fromClient) \in Nat
    BY <1>1, QueueTypes DEF Read
  <1>3. fromClient[1].id = Read + 1
    BY <1>1 DEF ClientInv, IdInv
  <1>4. \A k \in 1..Len(await) : await[k].id > Read =>
           \E i \in 1..Len(fromClient) : await[k] = fromClient[i] /\ await[k].id = Read + i
    BY DEF ClientInv, UnreadInv, IdInv
  <1>5. \A k \in 1..Len(await) : await[k].id > Read /\ ~(await[k].id > Read')
                                   => await[k] = fromClient[1]
    <2> SUFFICES ASSUME NEW k \in 1..Len(await), await[k].id > Read, ~(await[k].id > Read')
                 PROVE  await[k] = fromClient[1]
      OBVIOUS
    <2>1. PICK i \in 1..Len(fromClient) : await[k] = fromClient[i] /\ await[k].id = Read + i
      BY <1>4
    <2>2. i = 1 BY <1>2, <2>1
    <2> QED BY <2>1, <2>2
  <1>6. IdInv'
    <2>1. \A i \in 1..Len(fromClient') : fromClient'[i].id = Read' + i
      <3> SUFFICES ASSUME NEW i \in 1..Len(fromClient') PROVE fromClient'[i].id = Read' + i
        OBVIOUS
      <3>1. fromClient'[i].id = Read + (i + 1)
        BY <1>1 DEF ClientInv, IdInv
      <3> QED BY <1>2, <3>1
    <2> QED BY <2>1 DEF ClientInv, IdInv
  <1>7. UnreadInv'
    <2>1. ASSUME NEW i \in 1..Len(fromClient'), fromClient'[i].kind # "produce0"
          PROVE  \E k \in 1..Len(await') : await'[k] = fromClient'[i]
      BY <1>1, <2>1 DEF ClientInv, UnreadInv
    <2>2. ASSUME NEW k \in 1..Len(await'), await'[k].id > Read'
          PROVE  \E i \in 1..Len(fromClient') : await'[k] = fromClient'[i]
      <3>1. await[k].id > Read
        <4>1. Read \in Int BY <1>2, QueueTypes
        <4>2. await[k].id \in Nat /\ await[k].id > Read' BY <1>2, <2>2, QueueTypes
        <4> QED BY <1>2, <4>1, <4>2
      <3>2. PICK i \in 1..Len(fromClient) : await[k] = fromClient[i] /\ await[k].id = Read + i
        BY <1>4, <3>1
      <3>3. i - 1 \in 1..Len(fromClient')
        BY <1>1, <1>2, <2>2, <3>2
      <3>4. fromClient'[i - 1] = fromClient[(i - 1) + 1]
        BY <1>1, <3>3
      <3> QED BY <3>2, <3>3, <3>4
    <2> QED BY <2>1, <2>2 DEF UnreadInv
  <1>8. StepwiseInv' BY DEF ClientInv, StepwiseInv
  <1> QED BY <1>1, <1>2, <1>3, <1>5, <1>6, <1>7, <1>8 DEF ClientInv

-----------------------------------------------------------------------------
(* Steps that leave the client's queue alone. *)

LEMMA InFlightTypes ==
  ASSUME TypeOK
  PROVE  \A f \in InFlight : f \in Frame /\ f.id \in Nat /\ f.reply \in Nat
  <1>1. /\ rspFrame \in Frame /\ reqFrame \in Frame
        /\ toBroker \in Seq(Frame) /\ fromBroker \in Seq(Frame)
    BY DEF TypeOK
  <1>2. \A f \in InFlight : f \in Frame
    BY <1>1 DEF InFlight
  <1> QED BY <1>2, FrameFields

(* Every frame in flight is numbered beyond the replies that are done.     *)
LEMMA InFlightAhead ==
  ASSUME IInv, OrderInv
  PROVE  \A f \in InFlight : /\ f.reply > Relays
                             /\ f = rspFrame \/ f.reply > rspFrame.reply
  <1>1. TypeOK /\ PipeInv /\ ReqInv BY DEF IInv
  <1>2. rspFrame.reply <= LastForwarded.reply /\ LastForwarded.reply \in Nat
    BY <1>1, PipeBounds, PipeTypes
  <1>3. LastAnswered.reply >= rspFrame.reply /\ LastAnswered.reply \in Nat
    <2>1. LastAnswered.reply \in Nat BY <1>1, PipeTypes, FrameFields
    <2>2. CASE fromBroker = <<>>
      BY <2>1, <2>2, <1>1, QueueTypes DEF LastAnswered
    <2>3. CASE fromBroker # <<>>
      <3>1. Len(fromBroker) \in 1..Len(fromBroker) BY <1>1, <2>3, QueueTypes
      <3>2. fromBroker[Len(fromBroker)].reply = rspFrame.reply + Len(fromBroker)
        BY <1>1, <3>1 DEF PipeInv, ReplyChain
      <3> QED BY <2>1, <2>3, <3>1, <3>2, <1>1, QueueTypes DEF LastAnswered
    <2> QED BY <2>2, <2>3
  <1>4. Relays <= rspFrame.reply /\ (rsp \in {"pop", "write"} => Relays < rspFrame.reply)
    BY <1>1, QueueTypes DEF Relays, Num
  <1> SUFFICES ASSUME NEW f \in InFlight
               PROVE  \/ f = rspFrame /\ rsp \in {"pop", "write"}
                      \/ f.reply \in Nat /\ f.reply > rspFrame.reply
    BY <1>1, <1>4, QueueTypes
  <1>5. CASE f = rspFrame /\ rsp \in {"pop", "write"} BY <1>5
  <1>6. ASSUME NEW i \in 1..Len(fromBroker), f = fromBroker[i]
        PROVE  f.reply \in Nat /\ f.reply > rspFrame.reply
    <2>1. f.reply = rspFrame.reply + i BY <1>1, <1>6 DEF PipeInv, ReplyChain
    <2>2. rspFrame.reply \in Nat /\ Len(fromBroker) \in Nat BY <1>1, QueueTypes
    <2> QED BY <2>1, <2>2
  <1>7. ASSUME NEW i \in 1..Len(toBroker), f = toBroker[i], Demands(f)
        PROVE  f.reply \in Nat /\ f.reply > rspFrame.reply
    <2>1. f.reply > LastAnswered.reply BY <1>7 DEF OrderInv
    <2>2. f.reply \in Nat BY <1>1, InFlightTypes
    <2>3. rspFrame.reply \in Nat BY <1>1, QueueTypes
    <2> QED BY <2>1, <2>2, <2>3, <1>3
  <1>8. ASSUME f = reqFrame, InHand, Demands(reqFrame)
        PROVE  f.reply \in Nat /\ f.reply > rspFrame.reply
    <2>1. reqFrame.reply = LastForwarded.reply + 1
      BY <1>1, <1>8 DEF ReqInv, ReqEnded, InHand, Num
    <2>2. reqFrame.reply \in Nat /\ rspFrame.reply \in Nat BY <1>1, QueueTypes
    <2> QED BY <2>1, <2>2, <1>2, <1>8
  <1>9. \/ f = rspFrame /\ rsp \in {"pop", "write"}
        \/ \E i \in 1..Len(fromBroker) : f = fromBroker[i]
        \/ \E i \in 1..Len(toBroker) : f = toBroker[i] /\ Demands(f)
        \/ f = reqFrame /\ InHand /\ Demands(reqFrame)
    BY DEF InFlight
  <1> QED BY <1>5, <1>6, <1>7, <1>8, <1>9

LEMMA PlaceKept ==
  ASSUME TypeOK, PlaceInv, RspEnded => RspEnded', InFlight' \subseteq InFlight,
         Base' = Base, Read' \in {Read, Read + 1},
         \A k \in 1..Len(await) : k \in 1..Len(await') /\ await'[k] = await[k]
  PROVE  PlaceInv'
  <1> SUFFICES ASSUME ~RspEnded', NEW f \in InFlight'
               PROVE  InPlace(f, await', Base', Read')
    BY DEF PlaceInv
  <1>1. f \in InFlight /\ f.id \in Nat /\ f.reply \in Nat BY InFlightTypes
  <1>2. InPlace(f, await, Base, Read) BY <1>1 DEF PlaceInv
  <1>3. f.id <= Read'
    <2>1. f.id <= Read BY <1>2 DEF InPlace
    <2>2. Read \in Int BY QueueTypes
    <2> QED BY <1>1, <2>1, <2>2
  <1> QED BY <1>2, <1>3 DEF InPlace

LEMMA ReceivedKept ==
  ASSUME TypeOK, ReceivedInv, UNCHANGED <<toClient, await>>, Read' \in {Read, Read + 1}
  PROVE  ReceivedInv'
  <1> SUFFICES ASSUME NEW i \in 1..Len(toClient)
               PROVE  i <= Len(await) /\ toClient[i] = await[i] /\ toClient[i].id <= Read'
    BY DEF ReceivedInv
  <1>1. i <= Len(await) /\ toClient[i] = await[i] /\ toClient[i].id <= Read
    BY DEF ReceivedInv
  <1>2. toClient[i].id \in Nat /\ Read \in Int BY QueueTypes
  <1> QED BY <1>1, <1>2

LEMMA OrderKept ==
  ASSUME OrderInv, UNCHANGED <<toBroker, fromBroker, rspFrame>>
  PROVE  OrderInv'
  BY DEF OrderInv, LastAnswered, Demands

LEMMA TokenKept ==
  ASSUME TokenInv, UNCHANGED <<fromClient, mustToken>>,
         ReqEnded' \/ (~ReqEnded /\ (AfterV0' <=> AfterV0))
  PROVE  TokenInv'
  BY DEF TokenInv

LEMMA QueueKept ==
  ASSUME IInv, QueueInv, UNCHANGED <<fromClient, toClient, sent, await>>,
         TokenInv', OrderInv', RspEnded => RspEnded', ReqEnded => ReqEnded',
         InFlight' \subseteq InFlight, RspEnded' \/ Base' = Base,
         ReqEnded' \/ reqFrame'.reply = reqFrame.reply
  PROVE  QueueInv'
  <1>1. ClientInv' /\ Read' = Read
    BY ClientSame DEF QueueInv, ClientInv
  <1>2. ReceivedInv'
    BY <1>1 DEF QueueInv, ReceivedInv
  <1>3. PlaceInv'
    <2>1. CASE RspEnded' BY <2>1 DEF PlaceInv
    <2>2. CASE Base' = Base
      BY <2>2, <1>1, PlaceKept DEF QueueInv, IInv
    <2> QED BY <2>1, <2>2
  <1>4. ReadInv'
    BY <1>1 DEF QueueInv, ReadInv
  <1> QED BY <1>1, <1>2, <1>3, <1>4 DEF QueueInv, ClientInv

LEMMA QueueReqMoves ==
  ASSUME IInv, QueueInv,
         UNCHANGED <<fromClient, toClient, sent, await, mustToken, pipeVars, rsp, reqFrame>>,
         InHand' => InHand, ReqEnded => ReqEnded',
         ReqEnded' \/ (~ReqEnded /\ (AfterV0' <=> AfterV0))
  PROVE  QueueInv'
  <1>1. TokenInv' /\ OrderInv'
    BY TokenKept, OrderKept DEF QueueInv, pipeVars
  <1>2. Base' = Base BY DEF Base, Relays, Num, pipeVars
  <1>3. InFlight' \subseteq InFlight BY DEF InFlight, Demands, pipeVars
  <1>4. RspEnded => RspEnded' BY DEF RspEnded
  <1> QED BY <1>1, <1>2, <1>3, <1>4, QueueKept

LEMMA QueueRspMoves ==
  ASSUME IInv, QueueInv,
         UNCHANGED <<fromClient, toClient, sent, await, mustToken, pipeVars, reqHandler, req,
                     nextReq, reqFrame>>,
         \/ RspEnded'
         \/ ~RspEnded /\ (rsp' \in {"pop", "write"} <=> rsp \in {"pop", "write"})
  PROVE  QueueInv'
  <1>1. TokenInv' /\ OrderInv'
    BY TokenKept, OrderKept DEF QueueInv, pipeVars, AfterV0, IsHandshakeV0, ReqEnded
  <1>2. RspEnded' \/ Base' = Base BY DEF Base, Relays, Num, pipeVars
  <1>3. InFlight' \subseteq InFlight BY DEF InFlight, InHand, Demands, pipeVars, RspEnded
  <1>4. ReqEnded => ReqEnded' BY DEF ReqEnded
  <1> QED BY <1>1, <1>2, <1>3, <1>4, QueueKept

LEMMA QueueReadResponse ==
  ASSUME IInv, QueueInv, ReadResponse PROVE QueueInv'
  <1> DEFINE s == fromBroker
  <1>1. /\ rsp = "read" /\ rsp' \in {"pop", "write"} /\ s # <<>>
        /\ rspFrame' = Head(s) /\ s' = Tail(s)
        /\ UNCHANGED <<fromClient, toClient, sent, await, mustToken, toBroker, req, reqHandler,
                       reqFrame, nextReq>>
    BY DEF ReadResponse, peers, chans, reqVars
  <1>2. /\ s \in Seq(Frame) /\ PipeInv BY DEF IInv, TypeOK
  <1>3. /\ Len(s) \in Nat /\ Len(s) >= 1 /\ Len(s') = Len(s) - 1
        /\ rspFrame' = s[1] /\ 1 \in 1..Len(s)
        /\ \A i \in 1..Len(s') : i + 1 \in 1..Len(s) /\ s'[i] = s[i + 1]
    BY <1>1, <1>2, TailAt
  <1>4. s[1].reply = rspFrame.reply + 1
    BY <1>2, <1>3 DEF PipeInv, ReplyChain
  <1>5. Base' = Base
    <2>1. rspFrame.reply \in Nat /\ Len(toClient) \in Nat BY QueueTypes DEF IInv
    <2>2. Relays' = rspFrame'.reply - 1 /\ Relays = rspFrame.reply
      BY <1>1, <2>1 DEF Relays, Num
    <2> QED BY <1>1, <1>3, <1>4, <2>1, <2>2 DEF Base
  <1>6. LastAnswered' = LastAnswered
    <2>1. CASE s' = <<>>
      <3>1. Len(s) = 1 BY <1>3, <2>1
      <3> QED BY <1>1, <1>3, <2>1, <3>1 DEF LastAnswered
    <2>2. CASE s' # <<>>
      <3>1. Len(s') \in 1..Len(s') /\ Len(s') + 1 = Len(s)
        BY <1>1, <1>2, <1>3, <2>2
      <3> QED BY <1>1, <1>3, <2>2, <3>1 DEF LastAnswered
    <2> QED BY <2>1, <2>2
  <1>7. OrderInv'
    BY <1>1, <1>6 DEF QueueInv, OrderInv, Demands
  <1>8. TokenInv' /\ (ReqEnded => ReqEnded')
    BY <1>1, TokenKept DEF QueueInv, AfterV0, IsHandshakeV0, ReqEnded
  <1>9. InFlight' \subseteq InFlight
    <2> SUFFICES ASSUME NEW f \in InFlight' PROVE f \in InFlight
      OBVIOUS
    <2>1. \/ f = rspFrame'
          \/ \E i \in 1..Len(s') : f = s'[i]
          \/ \E i \in 1..Len(toBroker) : f = toBroker[i] /\ Demands(f)
          \/ f = reqFrame /\ InHand /\ Demands(reqFrame)
      BY <1>1 DEF InFlight, Demands, InHand
    <2> HIDE DEF s
    <2>2. \/ \E i \in 1..Len(s) : f = s[i]
          \/ \E i \in 1..Len(toBroker) : f = toBroker[i] /\ Demands(f)
          \/ f = reqFrame /\ InHand /\ Demands(reqFrame)
      BY <1>3, <2>1
    <2> QED BY <2>2 DEF InFlight, s
  <1>10. RspEnded => RspEnded' BY <1>1 DEF RspEnded
  <1> QED BY <1>1, <1>5, <1>7, <1>8, <1>9, <1>10, QueueKept

LEMMA QueueWriteRequest ==
  ASSUME IInv, QueueInv, WriteRequest PROVE QueueInv'
  <1>1. /\ req = "write" /\ req' \in {"putRsp", "handler", "returned"}
        /\ toBroker' = Append(toBroker, reqFrame)
        /\ UNCHANGED <<fromClient, toClient, sent, await, mustToken, fromBroker, rspFrame, rsp,
                       reqFrame>>
    BY DEF WriteRequest, PutNextRequestHandler, PcAfterWrite, peers, rspVars
  <1>2. nextReq = "none" BY <1>1 DEF IInv, ReqInv, ReqEnded
  <1>3. nextReq' = NextHandler(reqFrame) /\ req' \in {"putRsp", "handler"}
    BY <1>2 DEF WriteRequest, PutNextRequestHandler, PcAfterWrite
  <1>4. TokenInv'
    BY <1>1, <1>3, TokenKept DEF QueueInv, ReqEnded, AfterV0, NextHandler, IsHandshakeV0
  <1>5. /\ Len(toBroker) \in Nat /\ Len(toBroker') = Len(toBroker) + 1
        /\ toBroker'[Len(toBroker) + 1] = reqFrame
        /\ \A i \in 1..Len(toBroker) : toBroker'[i] = toBroker[i]
        /\ \A i \in 1..Len(toBroker') : i \in 1..Len(toBroker) \/ i = Len(toBroker) + 1
    BY <1>1, AppendAt DEF IInv, TypeOK
  <1>6. LastAnswered' = LastAnswered BY <1>1 DEF LastAnswered
  <1>7. OrderInv'
    <2>1. TypeOK /\ PipeInv BY DEF IInv
    <2>2. LastAnswered.reply <= LastForwarded.reply
      <3>1. Len(fromBroker) \in Nat /\ (fromBroker # <<>> => Len(fromBroker) \in 1..Len(fromBroker))
        BY <2>1, QueueTypes
      <3> QED BY <2>1, <3>1, PipeBounds DEF LastAnswered
    <2>3. /\ LastForwarded.reply \in Nat /\ LastAnswered.reply \in Nat
          /\ reqFrame.reply \in Nat
      BY <2>1, PipeTypes, FrameFields, QueueTypes
    <2>4. Demands(reqFrame) => reqFrame.reply = LastForwarded.reply + 1
      BY <1>1 DEF IInv, ReqInv, ReqEnded, InHand, Num
    <2>5. \A j \in 1..Len(toBroker) :
             toBroker[j].reply \in Nat /\ toBroker[j].reply <= LastForwarded.reply
      BY <2>1, PipeBounds
    <2> SUFFICES ASSUME NEW i \in 1..Len(toBroker'), Demands(toBroker'[i])
                 PROVE  /\ toBroker'[i].reply > LastAnswered.reply
                        /\ \A j \in 1..(i-1) : toBroker'[j].reply < toBroker'[i].reply
      BY <1>6 DEF OrderInv, Demands
    <2>6. CASE i \in 1..Len(toBroker)
      <3>1. toBroker'[i] = toBroker[i] /\ \A j \in 1..(i-1) : toBroker'[j] = toBroker[j]
        BY <1>5, <2>6
      <3> QED BY <2>6, <3>1 DEF QueueInv, OrderInv
    <2>7. CASE i = Len(toBroker) + 1
      <3>1. \A j \in 1..(i-1) : j \in 1..Len(toBroker) /\ toBroker'[j] = toBroker[j]
        BY <1>5, <2>7
      <3>2. toBroker'[i] = reqFrame /\ reqFrame.reply = LastForwarded.reply + 1
        BY <1>5, <2>7, <2>4
      <3> QED BY <2>2, <2>3, <2>5, <3>1, <3>2
    <2> QED BY <1>5, <2>6, <2>7
  <1>8. InFlight' \subseteq InFlight
    <2> SUFFICES ASSUME NEW f \in InFlight' PROVE f \in InFlight
      OBVIOUS
    <2>1. \/ f = rspFrame /\ rsp \in {"pop", "write"}
          \/ \E i \in 1..Len(fromBroker) : f = fromBroker[i]
          \/ \E i \in 1..Len(toBroker') : f = toBroker'[i] /\ Demands(f)
      BY <1>1 DEF InFlight, Demands, InHand
    <2>2. \/ f = rspFrame /\ rsp \in {"pop", "write"}
          \/ \E i \in 1..Len(fromBroker) : f = fromBroker[i]
          \/ \E i \in 1..Len(toBroker) : f = toBroker[i] /\ Demands(f)
          \/ f = reqFrame /\ Demands(reqFrame)
      BY <1>5, <2>1
    <2> QED BY <1>1, <2>2 DEF InFlight, InHand
  <1>9. Base' = Base BY <1>1 DEF Base, Relays
  <1>10. (RspEnded => RspEnded') /\ (ReqEnded => ReqEnded') BY <1>1 DEF RspEnded, ReqEnded
  <1> QED BY <1>1, <1>4, <1>7, <1>8, <1>9, <1>10, QueueKept

LEMMA QueueBrokerServe ==
  ASSUME IInv, QueueInv, BrokerServe PROVE QueueInv'
  <1> DEFINE f == toBroker[1]
  <1>1. /\ fromBroker \in Seq(Frame) /\ toBroker \in Seq(Frame)
        /\ brokerToken \in BOOLEAN /\ toBroker # <<>>
    BY DEF IInv, TypeOK, BrokerServe
  <1>2. /\ Len(toBroker) \in Nat /\ Len(toBroker) >= 1 /\ Head(toBroker) = f
        /\ 1 \in 1..Len(toBroker)
        /\ Len(Tail(toBroker)) = Len(toBroker) - 1
        /\ \A i \in 1..Len(Tail(toBroker)) :
              i + 1 \in 1..Len(toBroker) /\ Tail(toBroker)[i] = toBroker[i + 1]
    BY <1>1, TailAt
  <1>3. f \in Frame /\ f.token \in BOOLEAN /\ f.reply \in Nat
    BY <1>1, <1>2, Elements, FrameFields
  <1>4. f.token <=> brokerToken
    BY <1>2 DEF IInv, PipeInv, FrameChain
  <1>5. [f EXCEPT !.token = brokerToken] = f
    <2>1. f.token = brokerToken BY <1>1, <1>3, <1>4
    <2> QED BY <1>3, <2>1 DEF Frame
  <1>6. /\ fromBroker' = IF Demands(f) THEN Append(fromBroker, f) ELSE fromBroker
        /\ toBroker' = Tail(toBroker)
        /\ UNCHANGED <<fromClient, toClient, sent, await, mustToken, rspFrame, rsp, req,
                       reqHandler, reqFrame, nextReq>>
    BY <1>2, <1>4, <1>5 DEF BrokerServe, Demands, chans, reqVars, rspVars
  <1>7. TokenInv'
    BY <1>6, TokenKept DEF QueueInv, AfterV0, IsHandshakeV0, ReqEnded
  <1> HIDE DEF f
  <1>8. /\ Len(toBroker') = Len(toBroker) - 1
        /\ \A i \in 1..Len(toBroker') : i + 1 \in 1..Len(toBroker) /\ toBroker'[i] = toBroker[i + 1]
    BY <1>2, <1>6
  <1>9. OrderInv'
    <2>1. LastAnswered' = IF Demands(f) THEN f ELSE LastAnswered
      <3>1. CASE Demands(f)
        <4>1. fromBroker' # <<>> /\ fromBroker'[Len(fromBroker')] = f
          BY <1>1, <1>3, <1>6, <3>1, AppendAt
        <4> QED BY <3>1, <4>1 DEF LastAnswered
      <3>2. CASE ~Demands(f) BY <1>6, <3>2 DEF LastAnswered
      <3> QED BY <3>1, <3>2
    <2> SUFFICES ASSUME NEW i \in 1..Len(toBroker'), Demands(toBroker'[i])
                 PROVE  /\ toBroker'[i].reply > LastAnswered'.reply
                        /\ \A j \in 1..(i-1) : toBroker'[j].reply < toBroker'[i].reply
      BY DEF OrderInv, Demands
    <2>2. i + 1 \in 1..Len(toBroker) /\ toBroker'[i] = toBroker[i + 1]
      BY <1>8
    <2>3. /\ toBroker[i + 1].reply > LastAnswered.reply
          /\ \A j \in 1..((i+1)-1) : toBroker[j].reply < toBroker[i + 1].reply
      BY <2>2 DEF QueueInv, OrderInv
    <2>4. toBroker[1].reply < toBroker[i + 1].reply
      BY <2>3, <1>2, <1>8
    <2>5. \A j \in 1..(i-1) : j + 1 \in 1..((i+1)-1) /\ toBroker'[j] = toBroker[j + 1]
      BY <1>2, <1>8
    <2>6. toBroker'[i].reply > LastAnswered'.reply
      <3>1. toBroker[i+1].reply \in Nat /\ toBroker[1].reply \in Nat
        BY <1>1, <1>2, <2>2, Elements
      <3> QED BY <2>1, <2>2, <2>3, <2>4, <3>1 DEF f
    <2> QED BY <2>2, <2>3, <2>5, <2>6
  <1>10. InFlight' \subseteq InFlight
    <2> SUFFICES ASSUME NEW g \in InFlight' PROVE g \in InFlight
      OBVIOUS
    <2>1. \/ g = rspFrame /\ rsp \in {"pop", "write"}
          \/ \E i \in 1..Len(fromBroker') : g = fromBroker'[i]
          \/ \E i \in 1..Len(toBroker') : g = toBroker'[i] /\ Demands(g)
          \/ g = reqFrame /\ InHand /\ Demands(reqFrame)
      BY <1>6 DEF InFlight, Demands, InHand
    <2>2. \A i \in 1..Len(fromBroker') :
            \/ i \in 1..Len(fromBroker) /\ fromBroker'[i] = fromBroker[i]
            \/ Demands(f) /\ fromBroker'[i] = f
      BY <1>1, <1>3, <1>6, AppendAt
    <2>3. \/ g = rspFrame /\ rsp \in {"pop", "write"}
          \/ \E i \in 1..Len(fromBroker) : g = fromBroker[i]
          \/ \E i \in 1..Len(toBroker) : g = toBroker[i] /\ Demands(g)
          \/ g = reqFrame /\ InHand /\ Demands(reqFrame)
      BY <1>2, <1>8, <2>1, <2>2 DEF f
    <2> QED BY <2>3 DEF InFlight
  <1>11. Base' = Base BY <1>6 DEF Base, Relays
  <1>12. (RspEnded => RspEnded') /\ (ReqEnded => ReqEnded') BY <1>6 DEF RspEnded, ReqEnded
  <1> QED BY <1>6, <1>7, <1>9, <1>10, <1>11, <1>12, QueueKept

-----------------------------------------------------------------------------
(* Steps of the client, and the reply that reaches it. *)

LEMMA QueueClientSend ==
  ASSUME IInv, QueueInv, NEW kind \in Kinds, ClientSend(kind) PROVE QueueInv'
  <1> DEFINE r == [id |-> sent + 1, kind |-> kind]
  <1>1. /\ fromClient' = Append(fromClient, r) /\ sent' = sent + 1
        /\ await' = IF kind = "produce0" THEN await ELSE Append(await, r)
        /\ (kind = "token") = mustToken /\ mustToken' = (kind = "hs0")
        /\ ~Pipelining => /\ kind \in SaslKinds => await = <<>>
                          /\ \A i \in 1..Len(await) : await[i].kind \notin SaslKinds
        /\ UNCHANGED <<toClient, toBroker, fromBroker, rspFrame, rsp, req, reqHandler,
                       reqFrame, nextReq>>
    BY DEF ClientSend, MaySend, chans, reqVars, rspVars
  <1>2. TypeOK BY DEF IInv
  <1>3. r \in Request /\ r.id = sent + 1 /\ r.kind = kind
    BY <1>2, ConstAssumption DEF TypeOK, Request
  <1> HIDE DEF r
  <1>4. /\ Len(fromClient') = Len(fromClient) + 1
        /\ fromClient'[Len(fromClient) + 1] = r
        /\ \A i \in 1..Len(fromClient) : i \in 1..Len(fromClient') /\ fromClient'[i] = fromClient[i]
        /\ \A i \in 1..Len(fromClient') : i \in 1..Len(fromClient) \/ i = Len(fromClient) + 1
    <2>1. fromClient \in Seq(Request) /\ fromClient' = Append(fromClient, r)
      BY <1>1, <1>2, QueueTypes
    <2> QED BY <1>3, <2>1, AppendAt
  <1>5. /\ \A k \in 1..Len(await) : k \in 1..Len(await') /\ await'[k] = await[k]
        /\ \A k \in 1..Len(await') :
              \/ k \in 1..Len(await)
              \/ k = Len(await) + 1 /\ await'[k] = r /\ kind # "produce0"
        /\ kind # "produce0" => /\ Len(await) + 1 \in 1..Len(await')
                                /\ await'[Len(await) + 1] = r
        /\ Len(await') >= Len(await) /\ Len(await') \in Nat
    <2>1. CASE kind = "produce0" BY <1>1, <1>2, <2>1, QueueTypes
    <2>2. CASE kind # "produce0"
      <3>1. await \in Seq(Request) /\ await' = Append(await, r)
        BY <1>1, <1>2, <2>2, QueueTypes
      <3> HIDE <1>1
      <3> QED BY <1>3, <2>2, <3>1, AppendAt
    <2> QED BY <2>1, <2>2
  <1>6. Read' = Read /\ Read + Len(fromClient) = sent /\ Read <= sent
    <2>1. sent \in Nat /\ Len(fromClient) \in Nat BY <1>2, QueueTypes
    <2>2. sent' = sent + 1 BY <1>1
    <2> QED BY <1>4, <2>1, <2>2 DEF Read
  <1>7. IdInv'
    <2>1. \A i \in 1..Len(fromClient') : fromClient'[i].id = Read' + i
      <3>1. \A i \in 1..Len(fromClient) : fromClient[i].id = Read + i BY DEF QueueInv, IdInv
      <3>2. r.id = Read + (Len(fromClient) + 1) BY <1>2, <1>3, <1>6, QueueTypes
      <3> QED BY <1>4, <1>6, <3>1, <3>2
    <2>2. \A k \in 1..Len(await') : await'[k].id <= sent' /\ await'[k].kind # "produce0"
      <3>1. \A k \in 1..Len(await) : await[k].id <= sent /\ await[k].kind # "produce0"
        BY DEF QueueInv, IdInv
      <3>2. \A k \in 1..Len(await) : await[k].id <= sent + 1
        <4>1. sent \in Nat /\ \A k \in 1..Len(await) : await[k].id \in Nat
          BY <1>2, QueueTypes
        <4> QED BY <3>1, <4>1
      <3>3. r.id <= sent + 1 /\ r.kind = kind BY <1>2, <1>3, QueueTypes
      <3> QED BY <1>1, <1>5, <3>1, <3>2, <3>3
    <2>3. \A k, l \in 1..Len(await') : k < l => await'[k].id < await'[l].id
      <3> SUFFICES ASSUME NEW k \in 1..Len(await'), NEW l \in 1..Len(await'), k < l
                   PROVE  await'[k].id < await'[l].id
        OBVIOUS
      <3>1. k \in 1..Len(await)
        <4>1. Len(await) \in Nat /\ Len(await') \in Nat BY <1>2, <1>5, QueueTypes
        <4>2. l <= Len(await) + 1 /\ (k \in 1..Len(await) \/ k = Len(await) + 1)
          BY <1>5, <4>1
        <4> QED BY <4>1, <4>2
      <3>2. await'[k] = await[k] /\ await[k].id <= sent /\ await[k].id \in Nat
        BY <1>2, <1>5, <3>1, QueueTypes DEF QueueInv, IdInv
      <3>3. CASE l \in 1..Len(await) BY <1>5, <3>1, <3>3 DEF QueueInv, IdInv
      <3>4. CASE l = Len(await) + 1
        <4>1. await'[l] = r BY <1>2, <1>5, <3>4, QueueTypes
        <4>2. await'[l].id = sent + 1 BY <1>3, <4>1
        <4>3. sent \in Nat BY <1>2, QueueTypes
        <4>4. await'[k].id = await[k].id BY <3>2
        <4> QED BY <3>2, <4>2, <4>3, <4>4
      <3> QED BY <1>5, <3>3, <3>4
    <2> QED BY <2>1, <2>2, <2>3 DEF IdInv
  <1>8. UnreadInv'
    <2>1. ASSUME NEW i \in 1..Len(fromClient'), fromClient'[i].kind # "produce0"
          PROVE  \E k \in 1..Len(await') : await'[k] = fromClient'[i]
      <3>1. CASE i \in 1..Len(fromClient)
        <4>1. PICK k \in 1..Len(await) : await[k] = fromClient[i]
          BY <1>4, <2>1, <3>1 DEF QueueInv, UnreadInv
        <4> QED BY <1>4, <1>5, <3>1, <4>1
      <3>2. CASE i = Len(fromClient) + 1 BY <1>3, <1>4, <1>5, <2>1, <3>2
      <3> QED BY <1>4, <3>1, <3>2
    <2>2. ASSUME NEW k \in 1..Len(await'), await'[k].id > Read'
          PROVE  \E i \in 1..Len(fromClient') : await'[k] = fromClient'[i]
      <3>1. CASE k \in 1..Len(await)
        <4>1. PICK i \in 1..Len(fromClient) : await[k] = fromClient[i]
          BY <1>5, <1>6, <2>2, <3>1 DEF QueueInv, UnreadInv
        <4> QED BY <1>4, <1>5, <3>1, <4>1
      <3>2. CASE await'[k] = r
        <4>1. Len(fromClient) + 1 \in 1..Len(fromClient') BY <1>2, <1>4, QueueTypes
        <4> QED BY <1>4, <3>2, <4>1
      <3> QED BY <1>5, <3>1, <3>2
    <2> QED BY <2>1, <2>2 DEF UnreadInv
  <1>9. ReceivedInv'
    BY <1>1, <1>2, <1>5, <1>6, QueueTypes DEF QueueInv, ReceivedInv
  <1>10. StepwiseInv'
    <2> SUFFICES ASSUME ~Pipelining, NEW k \in 1..Len(await'), await'[k].kind \in SaslKinds
                 PROVE  Len(await') = 1 /\ await'[k].id = sent'
      BY DEF StepwiseInv
    <2>1. k \notin 1..Len(await) BY <1>1, <1>5
    <2>2. await'[k] = r /\ kind # "produce0" BY <1>5, <2>1
    <2>3. await = <<>> BY <1>1, <1>3, <2>2
    <2> QED BY <1>1, <1>2, <1>3, <2>2, <2>3, AppendAt, QueueTypes
  <1>11. TokenInv'
    <2> SUFFICES ASSUME ~ReqEnded PROVE TokenInv'
      BY <1>1 DEF TokenInv, ReqEnded
    <2>1. AfterV0' <=> AfterV0 BY <1>1 DEF AfterV0, IsHandshakeV0
    <2>2. fromClient' # <<>> /\ Len(fromClient') = Len(fromClient) + 1
      <3>1. Len(fromClient') >= 1 BY <1>2, <1>4, QueueTypes
      <3> QED BY <1>4, <3>1
    <2>3. mustToken' <=> fromClient'[Len(fromClient')].kind = "hs0"
      BY <1>1, <1>3, <1>4
    <2>4. (kind = "token") <=> (IF fromClient = <<>> THEN AfterV0
                                ELSE fromClient[Len(fromClient)].kind = "hs0")
      BY <1>1 DEF QueueInv, TokenInv
    <2>5. ASSUME NEW i \in 1..Len(fromClient')
          PROVE  fromClient'[i].kind = "token" <=>
                   (IF i = 1 THEN AfterV0' ELSE fromClient'[i-1].kind = "hs0")
      <3>1. CASE i \in 1..Len(fromClient)
        <4>1. i # 1 => i - 1 \in 1..Len(fromClient) BY <1>2, <3>1, QueueTypes
        <4> QED BY <1>4, <2>1, <3>1, <4>1 DEF QueueInv, TokenInv
      <3>2. CASE i = Len(fromClient) + 1
        <4>1. fromClient'[i].kind = kind BY <1>3, <1>4, <3>2
        <4>2. CASE fromClient = <<>>
          <5>1. i = 1 BY <3>2, <4>2
          <5> QED BY <2>1, <2>4, <4>1, <4>2, <5>1
        <4>3. CASE fromClient # <<>>
          <5>1. i - 1 = Len(fromClient) /\ Len(fromClient) \in 1..Len(fromClient) /\ i # 1
            BY <1>2, <3>2, <4>3, QueueTypes
          <5> QED BY <1>4, <2>4, <4>1, <4>3, <5>1
        <4> QED BY <4>2, <4>3
      <3> QED BY <1>4, <3>1, <3>2
    <2> QED BY <2>2, <2>3, <2>5 DEF TokenInv
  <1>12. OrderInv' BY <1>1, OrderKept DEF QueueInv
  <1>13. Base' = Base BY <1>1 DEF Base, Relays
  <1>14. PlaceInv'
    <2>1. InFlight' \subseteq InFlight BY <1>1 DEF InFlight, InHand, Demands
    <2>2. RspEnded => RspEnded' BY <1>1 DEF RspEnded
    <2> QED BY <1>2, <1>5, <1>6, <1>13, <2>1, <2>2, PlaceKept DEF QueueInv
  <1>15. ReadInv'
    <2> SUFFICES ASSUME ~RspEnded, ~ReqEnded
                 PROVE  /\ Base + reqFrame.reply <= Len(await')
                        /\ \A k \in 1..Len(await') :
                              await'[k].id <= Read <=> k <= Base + reqFrame.reply
      BY <1>1, <1>6, <1>13 DEF ReadInv, RspEnded, ReqEnded
    <2>1. /\ Base + reqFrame.reply <= Len(await)
          /\ \A k \in 1..Len(await) : await[k].id <= Read <=> k <= Base + reqFrame.reply
      BY DEF QueueInv, ReadInv
    <2>2. Base + reqFrame.reply \in Int BY <1>2, QueueTypes DEF Base
    <2> HIDE DEF QueueInv
    <2>3. ASSUME NEW k \in 1..Len(await')
          PROVE  await'[k].id <= Read <=> k <= Base + reqFrame.reply
      <3>1. CASE k \in 1..Len(await) BY <1>5, <2>1, <3>1
      <3>2. CASE k = Len(await) + 1 /\ await'[k] = r
        <4>1. sent \in Nat /\ Read \in Int /\ Len(await) \in Nat BY <1>2, QueueTypes
        <4>2. ~(await'[k].id <= Read) BY <1>3, <1>6, <3>2, <4>1
        <4>3. ~(k <= Base + reqFrame.reply) BY <2>1, <2>2, <3>2, <4>1
        <4> QED BY <4>2, <4>3
      <3> QED BY <1>5, <3>1, <3>2
    <2> QED BY <1>2, <1>5, <2>1, <2>2, <2>3, QueueTypes
  <1> QED BY <1>7, <1>8, <1>9, <1>10, <1>11, <1>12, <1>14, <1>15 DEF QueueInv

LEMMA QueueClientReceive ==
  ASSUME IInv, QueueInv, ClientReceive PROVE QueueInv'
  <1>1. /\ toClient # <<>> /\ toClient' = Tail(toClient)
        /\ await # <<>> /\ await' = Tail(await)
        /\ UNCHANGED <<fromClient, sent, mustToken, toBroker, fromBroker, rspFrame, rsp, req,
                       reqHandler, reqFrame, nextReq>>
    BY DEF ClientReceive, chans, reqVars, rspVars
  <1>2. TypeOK BY DEF IInv
  <1>3. /\ Len(await') = Len(await) - 1 /\ 1 \in 1..Len(await)
        /\ \A k \in 1..Len(await') : k + 1 \in 1..Len(await) /\ await'[k] = await[k + 1]
    <2>1. await \in Seq(Request) BY <1>2, QueueTypes
    <2> QED BY <1>1, <2>1, TailAt
  <1>4. /\ Len(toClient') = Len(toClient) - 1 /\ 1 \in 1..Len(toClient)
        /\ \A k \in 1..Len(toClient') : k + 1 \in 1..Len(toClient) /\ toClient'[k] = toClient[k + 1]
    <2>1. toClient \in Seq(Reply) BY <1>2, QueueTypes
    <2> QED BY <1>1, <2>1, TailAt
  <1>5. Len(await) \in Nat /\ Len(toClient) \in Nat /\ Read \in Int /\ Relays \in Int
    BY <1>2, QueueTypes
  <1>6. \A k \in 2..Len(await) : k - 1 \in 1..Len(await') /\ await'[k - 1] = await[k]
    <2> SUFFICES ASSUME NEW k \in 2..Len(await)
                 PROVE  k - 1 \in 1..Len(await') /\ await'[k - 1] = await[k]
      OBVIOUS
    <2>1. k - 1 \in 1..Len(await') BY <1>3, <1>5
    <2>2. await'[k - 1] = await[(k - 1) + 1] BY <1>3, <2>1
    <2> QED BY <2>1, <2>2
  <1>7. Read' = Read BY <1>1 DEF Read
  <1>8. await[1] = toClient[1] /\ await[1].id <= Read
    BY <1>4 DEF QueueInv, ReceivedInv
  <1>9. IdInv'
    <2>1. \A i \in 1..Len(fromClient') : fromClient'[i].id = Read' + i
      BY <1>1, <1>7 DEF QueueInv, IdInv
    <2>2. \A k \in 1..Len(await') : await'[k].id <= sent' /\ await'[k].kind # "produce0"
      BY <1>1, <1>3 DEF QueueInv, IdInv
    <2>3. \A k, l \in 1..Len(await') : k < l => await'[k].id < await'[l].id
      <3> SUFFICES ASSUME NEW k \in 1..Len(await'), NEW l \in 1..Len(await'), k < l
                   PROVE  await'[k].id < await'[l].id
        OBVIOUS
      <3>1. k + 1 < l + 1 OBVIOUS
      <3>2. await[k + 1].id < await[l + 1].id
        BY <1>3, <3>1 DEF QueueInv, IdInv
      <3> QED BY <1>3, <3>2
    <2> QED BY <2>1, <2>2, <2>3 DEF IdInv
  <1>10. UnreadInv'
    <2>1. ASSUME NEW i \in 1..Len(fromClient'), fromClient'[i].kind # "produce0"
          PROVE  \E k \in 1..Len(await') : await'[k] = fromClient'[i]
      <3>1. PICK k \in 1..Len(await) : await[k] = fromClient[i]
        BY <1>1, <2>1 DEF QueueInv, UnreadInv
      <3>2. fromClient[i].id = Read + i BY <1>1 DEF QueueInv, IdInv
      <3>3. i \in Nat /\ i > 0 BY <1>1, <1>2, QueueTypes
      <3>4. k # 1 BY <1>5, <1>8, <3>1, <3>2, <3>3
      <3>5. k \in 2..Len(await) BY <1>5, <3>4
      <3> QED BY <1>1, <1>6, <3>1, <3>5
    <2>2. ASSUME NEW k \in 1..Len(await'), await'[k].id > Read'
          PROVE  \E i \in 1..Len(fromClient') : await'[k] = fromClient'[i]
      <3>1. PICK i \in 1..Len(fromClient) : await[k + 1] = fromClient[i]
        BY <1>3, <1>7, <2>2 DEF QueueInv, UnreadInv
      <3> QED BY <1>1, <1>3, <3>1
    <2> QED BY <2>1, <2>2 DEF UnreadInv
  <1>11. ReceivedInv'
    <2> SUFFICES ASSUME NEW i \in 1..Len(toClient')
                 PROVE  i <= Len(await') /\ toClient'[i] = await'[i] /\ toClient'[i].id <= Read
      BY <1>7 DEF ReceivedInv
    <2>1. /\ i + 1 \in 1..Len(toClient) /\ i + 1 <= Len(await)
          /\ toClient[i + 1] = await[i + 1] /\ toClient[i + 1].id <= Read
      BY <1>4 DEF QueueInv, ReceivedInv
    <2>2. i \in 1..Len(await') BY <1>3, <1>4, <1>5, <2>1
    <2> QED BY <1>3, <1>4, <2>1, <2>2
  <1>12. StepwiseInv'
    <2> SUFFICES ASSUME ~Pipelining, NEW k \in 1..Len(await'), await'[k].kind \in SaslKinds
                 PROVE  FALSE
      BY DEF StepwiseInv
    <2>1. k + 1 \in 1..Len(await) /\ await[k + 1].kind \in SaslKinds BY <1>3
    <2>2. Len(await) = 1 BY <2>1 DEF QueueInv, StepwiseInv
    <2> QED BY <1>3, <2>2
  <1>13. TokenInv' /\ OrderInv'
    BY <1>1, TokenKept, OrderKept DEF QueueInv, AfterV0, IsHandshakeV0, ReqEnded
  <1>14. Relays' = Relays /\ Base' = Base - 1
    <2>1. Relays' = Relays BY <1>1 DEF Relays
    <2> QED BY <1>4, <1>5, <2>1 DEF Base
  <1>15. PlaceInv'
    <2> SUFFICES ASSUME ~RspEnded', NEW f \in InFlight'
                 PROVE  InPlace(f, await', Base', Read')
      BY DEF PlaceInv
    <2>1. f \in InFlight /\ ~RspEnded
      BY <1>1 DEF InFlight, InHand, Demands, RspEnded
    <2>2. f.reply \in Nat /\ f.reply > Relays BY <1>2, <2>1, InFlightTypes, InFlightAhead DEF QueueInv
    <2>3. InPlace(f, await, Base, Read) BY <2>1 DEF QueueInv, PlaceInv
    <2>4. Base + f.reply \in 2..Len(await)
      <3>1. Base + f.reply \in 1..Len(await) BY <2>3 DEF InPlace
      <3>2. Len(toClient) >= 1 BY <1>4, <1>5
      <3> QED BY <1>5, <2>2, <3>1, <3>2 DEF Base
    <2>5. Base \in Int BY <1>5 DEF Base
    <2>6. Base' + f.reply = (Base + f.reply) - 1 BY <1>14, <2>2, <2>5
    <2>7. Base' + f.reply \in 1..Len(await') /\ await'[Base' + f.reply] = await[Base + f.reply]
      BY <1>6, <2>4, <2>6
    <2> QED BY <1>7, <2>3, <2>7 DEF InPlace
  <1>16. ReadInv'
    <2> SUFFICES ASSUME ~RspEnded, ~ReqEnded
                 PROVE  /\ Base' + reqFrame.reply <= Len(await')
                        /\ \A k \in 1..Len(await') :
                              await'[k].id <= Read <=> k <= Base' + reqFrame.reply
      BY <1>1, <1>7 DEF ReadInv, RspEnded, ReqEnded
    <2>1. /\ Base + reqFrame.reply <= Len(await)
          /\ \A k \in 1..Len(await) : await[k].id <= Read <=> k <= Base + reqFrame.reply
      BY DEF QueueInv, ReadInv
    <2>2. Base \in Int /\ reqFrame.reply \in Nat BY <1>2, <1>5, QueueTypes DEF Base
    <2>3. ASSUME NEW k \in 1..Len(await')
          PROVE  await'[k].id <= Read <=> k <= Base' + reqFrame.reply
      <3>1. await[k + 1].id <= Read <=> k + 1 <= Base + reqFrame.reply
        BY <1>3, <2>1
      <3> QED BY <1>3, <1>14, <2>2, <3>1
    <2> QED BY <1>3, <1>5, <1>14, <2>1, <2>2, <2>3
  <1> QED BY <1>9, <1>10, <1>11, <1>12, <1>13, <1>15, <1>16 DEF QueueInv

(* The reply is the answer to the first request that has none yet.         *)
LEMMA ReplyInPlace ==
  ASSUME IInv, QueueInv, rsp = "write"
  PROVE  /\ Len(toClient) + 1 \in 1..Len(await)
         /\ Relayed = await[Len(toClient) + 1] /\ Relayed.id <= Read
  <1>1. Relayed = [id |-> rspFrame.id, kind |-> rspFrame.kind]
    <2>1. rspHandler.h \in {"default", "saslV0"}
      BY DEF IInv, TypeOK, RspJob, Handlers
    <2>2. (rspHandler.h = "saslV0" <=> rspFrame.token)
      BY DEF IInv, RspInv
    <2>3. rspHandler.h = "default" => rspOpen.kind = rspFrame.kind
      BY DEF IInv, OpenKindInv
    <2> QED BY <2>1, <2>2, <2>3 DEF Relayed
  <1>2. TypeOK /\ rspFrame \in InFlight /\ ~RspEnded BY DEF IInv, InFlight, RspEnded
  <1>3. InPlace(rspFrame, await, Base, Read) BY <1>2 DEF QueueInv, PlaceInv
  <1>4. Base + rspFrame.reply = Len(toClient) + 1
    <2>1. rspFrame.reply \in Nat /\ Len(toClient) \in Nat BY <1>2, QueueTypes
    <2> QED BY <2>1 DEF Base, Relays, Num
  <1>5. /\ Len(toClient) + 1 \in 1..Len(await) /\ rspFrame.id <= Read
        /\ await[Len(toClient) + 1].id = rspFrame.id /\ await[Len(toClient) + 1].kind = rspFrame.kind
    BY <1>3, <1>4 DEF InPlace
  <1>6. await[Len(toClient) + 1] \in Request BY <1>2, <1>5, QueueTypes
  <1> QED BY <1>1, <1>5, <1>6, RequestEq

LEMMA QueueWriteResponse ==
  ASSUME IInv, QueueInv, WriteResponse PROVE QueueInv'
  <1>1. /\ rsp = "write" /\ rsp' = "handler" /\ toClient' = Append(toClient, Relayed)
        /\ UNCHANGED <<fromClient, sent, await, mustToken, toBroker, fromBroker, rspFrame, req,
                       reqHandler, reqFrame, nextReq>>
    BY DEF WriteResponse, peers, chans, reqVars
  <1>2. TypeOK BY DEF IInv
  <1>3. ClientInv' /\ Read' = Read
    BY <1>1, ClientSame DEF QueueInv, ClientInv
  <1>4. /\ Len(toClient') = Len(toClient) + 1
        /\ toClient'[Len(toClient) + 1] = Relayed
        /\ \A i \in 1..Len(toClient) : toClient'[i] = toClient[i]
        /\ \A i \in 1..Len(toClient') : i \in 1..Len(toClient) \/ i = Len(toClient) + 1
    <2>1. toClient \in Seq(Reply) BY <1>2, QueueTypes
    <2>2. Relayed \in Reply
      BY <1>1, <1>2, ReplyInPlace, QueueTypes, RequestIsReply
    <2> QED BY <1>1, <2>1, <2>2, AppendAt
  <1>5. ReceivedInv'
    <2> SUFFICES ASSUME NEW i \in 1..Len(toClient')
                 PROVE  i <= Len(await) /\ toClient'[i] = await[i] /\ toClient'[i].id <= Read
      BY <1>1, <1>3 DEF ReceivedInv
    <2>1. CASE i \in 1..Len(toClient) BY <1>4, <2>1 DEF QueueInv, ReceivedInv
    <2>2. CASE i = Len(toClient) + 1
      BY <1>1, <1>2, <1>4, <2>2, ReplyInPlace, QueueTypes
    <2> QED BY <1>4, <2>1, <2>2
  <1>6. Base' = Base
    <2>1. rspFrame.reply \in Nat /\ Len(toClient) \in Nat BY <1>2, QueueTypes
    <2>2. Relays' = rspFrame.reply /\ Relays = rspFrame.reply - 1
      BY <1>1, <2>1 DEF Relays, Num
    <2>3. Len(toClient') = Len(toClient) + 1 BY <1>4
    <2> QED BY <2>1, <2>2, <2>3 DEF Base
  <1>7. TokenInv' /\ OrderInv'
    BY <1>1, TokenKept, OrderKept DEF QueueInv, AfterV0, IsHandshakeV0, ReqEnded
  <1>8. InFlight' \subseteq InFlight BY <1>1 DEF InFlight, InHand, Demands
  <1>9. ~RspEnded BY <1>1 DEF RspEnded
  <1>10. PlaceInv' BY <1>1, <1>2, <1>3, <1>6, <1>8, <1>9, PlaceKept DEF QueueInv
  <1>11. ReadInv' BY <1>1, <1>3, <1>6, <1>9 DEF QueueInv, ReadInv, ReqEnded
  <1> QED BY <1>3, <1>5, <1>7, <1>10, <1>11 DEF QueueInv, ClientInv

-----------------------------------------------------------------------------
(* Steps in which the requests loop takes a frame from the client. *)

LEMMA TokenRead ==
  ASSUME TypeOK, TokenInv, ~ReqEnded, fromClient # <<>>, fromClient' = Tail(fromClient),
         UNCHANGED mustToken, ReqEnded' \/ (AfterV0' <=> fromClient[1].kind = "hs0")
  PROVE  TokenInv'
  <1> SUFFICES ASSUME ~ReqEnded' PROVE TokenInv'
    BY DEF TokenInv
  <1>1. /\ Len(fromClient) \in Nat /\ Len(fromClient) >= 1
        /\ Len(fromClient') = Len(fromClient) - 1 /\ 1 \in 1..Len(fromClient)
        /\ \A i \in 1..Len(fromClient') :
              i + 1 \in 1..Len(fromClient) /\ fromClient'[i] = fromClient[i+1]
    <2>1. fromClient \in Seq(Request) BY QueueTypes
    <2> QED BY <2>1, TailAt
  <1>2. ASSUME NEW i \in 1..Len(fromClient')
        PROVE  fromClient'[i].kind = "token" <=>
                 (IF i = 1 THEN AfterV0' ELSE fromClient'[i-1].kind = "hs0")
    <2>1. i + 1 # 1 /\ (i + 1) - 1 = i BY <1>1
    <2>2. fromClient[i+1].kind = "token" <=> fromClient[i].kind = "hs0"
      BY <1>1, <2>1 DEF TokenInv
    <2>3. i # 1 => i - 1 \in 1..Len(fromClient') /\ (i - 1) + 1 = i
      BY <1>1
    <2>4. i # 1 => fromClient'[i-1] = fromClient[i]
      BY <1>1, <2>3
    <2> QED BY <1>1, <2>2, <2>4
  <1>3. mustToken' <=> (IF fromClient' = <<>> THEN AfterV0'
                        ELSE fromClient'[Len(fromClient')].kind = "hs0")
    <2>1. mustToken <=> fromClient[Len(fromClient)].kind = "hs0"
      BY DEF TokenInv
    <2>2. CASE fromClient' = <<>>
      <3>1. Len(fromClient) = 1 BY <1>1, <2>2
      <3> QED BY <2>1, <2>2, <3>1
    <2>3. CASE fromClient' # <<>>
      <3>1. Len(fromClient') # 0
        <4>1. fromClient' \in Seq(Request) BY QueueTypes
        <4> QED BY <2>3, <4>1
      <3>2. Len(fromClient') \in 1..Len(fromClient') /\ Len(fromClient') + 1 = Len(fromClient)
        BY <1>1, <3>1
      <3>3. fromClient'[Len(fromClient')] = fromClient[Len(fromClient)]
        BY <1>1, <3>2
      <3> QED BY <2>1, <2>3, <3>3
    <2> QED BY <2>2, <2>3
  <1> QED BY <1>2, <1>3 DEF TokenInv

(* The frame is not passed on and the loop ends.                           *)
LEMMA QueueReadEnds ==
  ASSUME IInv, QueueInv, fromClient # <<>>, fromClient' = Tail(fromClient), req' = "returned",
         UNCHANGED <<toClient, sent, await, toBroker, fromBroker, rspFrame, rsp>>
  PROVE  QueueInv'
  <1>1. TypeOK BY DEF IInv
  <1>2. ClientInv' /\ Read' = Read + 1
    BY <1>1, ClientRead DEF QueueInv, ClientInv
  <1>3. ReceivedInv'
    BY <1>1, <1>2, ReceivedKept DEF QueueInv
  <1>4. ReqEnded' /\ ~InHand' BY DEF ReqEnded, InHand
  <1>5. TokenInv' /\ ReadInv' BY <1>4 DEF TokenInv, ReadInv
  <1>6. OrderInv' BY OrderKept DEF QueueInv
  <1>7. InFlight' \subseteq InFlight BY <1>4 DEF InFlight, Demands
  <1>8. (RspEnded => RspEnded') /\ Base' = Base BY DEF RspEnded, Base, Relays
  <1>9. PlaceInv' BY <1>1, <1>2, <1>7, <1>8, PlaceKept DEF QueueInv
  <1> QED BY <1>2, <1>3, <1>5, <1>6, <1>9 DEF QueueInv, ClientInv

(* The frame is passed on: it takes the next place.                        *)
LEMMA NextPlace ==
  ASSUME IInv, QueueInv, ~RspEnded, ~ReqEnded, fromClient # <<>>,
         fromClient[1].kind # "produce0"
  PROVE  /\ Base + reqFrame.reply + 1 \in 1..Len(await)
         /\ await[Base + reqFrame.reply + 1] = fromClient[1]
         /\ fromClient[1].id = Read + 1
  <1> DEFINE p == Base + reqFrame.reply + 1
  <1>1. TypeOK BY DEF IInv
  <1>2. /\ Len(await) \in Nat /\ Read \in Int /\ p \in Int /\ Base + reqFrame.reply \in Int
        /\ 1 \in 1..Len(fromClient)
    BY <1>1, QueueTypes DEF Base
  <1>3. PICK k \in 1..Len(await) : await[k] = fromClient[1]
    BY <1>2 DEF QueueInv, UnreadInv
  <1>4. fromClient[1].id = Read + 1 BY <1>2 DEF QueueInv, IdInv
  <1>5. \A l \in 1..Len(await) : await[l].id <= Read <=> l <= Base + reqFrame.reply
    BY DEF QueueInv, ReadInv
  <1>6. k >= p BY <1>2, <1>3, <1>4, <1>5
  <1>7. p >= 1
    <2>1. Relays <= reqFrame.reply BY RelaysBounds
    <2>2. /\ Relays \in Int /\ reqFrame.reply \in Nat /\ Len(toClient) \in Nat
      BY <1>1, QueueTypes
    <2> QED BY <2>1, <2>2 DEF Base
  <1>8. p \in 1..Len(await) BY <1>2, <1>6, <1>7
  <1>9. await[p].id > Read /\ await[p].id \in Nat
    <2>1. ~(p <= Base + reqFrame.reply) BY <1>2
    <2>2. await[p].id \in Nat BY <1>1, <1>8, QueueTypes
    <2> HIDE DEF p
    <2> QED BY <1>2, <1>5, <1>8, <2>1, <2>2
  <1>10. p < k => await[p].id < await[k].id BY <1>8 DEF QueueInv, IdInv
  <1> HIDE DEF p
  <1>11. p = k BY <1>2, <1>3, <1>4, <1>6, <1>9, <1>10
  <1> QED BY <1>3, <1>4, <1>8, <1>11 DEF p

LEMMA QueueForward ==
  ASSUME IInv, QueueInv, req = "read", fromClient # <<>>, fromClient' = Tail(fromClient),
         UNCHANGED <<toClient, sent, await, mustToken, toBroker, fromBroker, rspFrame, rsp>>,
         req' \in {"push", "write"},
         reqFrame'.id = fromClient[1].id, reqFrame'.kind = fromClient[1].kind,
         reqFrame'.reply = reqFrame.reply + Num(fromClient[1].kind # "produce0"),
         Demands(reqFrame') <=> fromClient[1].kind # "produce0",
         AfterV0' <=> fromClient[1].kind = "hs0"
  PROVE  QueueInv'
  <1> DEFINE r == fromClient[1]
  <1>1. TypeOK /\ ~ReqEnded /\ ~InHand BY DEF IInv, ReqEnded, InHand
  <1>2. /\ ClientInv' /\ Read' = Read + 1 /\ r.id = Read + 1 /\ 1 \in 1..Len(fromClient)
        /\ \A k \in 1..Len(await) : await[k].id > Read /\ ~(await[k].id > Read') => await[k] = r
    BY <1>1, ClientRead DEF QueueInv, ClientInv
  <1>3. ReceivedInv'
    BY <1>1, <1>2, ReceivedKept DEF QueueInv
  <1>4. TokenInv' BY <1>1, TokenRead DEF QueueInv
  <1>5. OrderInv' BY OrderKept DEF QueueInv
  <1>6. Relays' = Relays /\ Base' = Base /\ Base \in Int
    BY <1>1, QueueTypes DEF Relays, Base
  <1>7. RspEnded' <=> RspEnded BY DEF RspEnded
  <1>8. InFlight' \subseteq InFlight \cup (IF r.kind # "produce0" THEN {reqFrame'} ELSE {})
    BY DEF InFlight, Demands
  <1>9. PlaceInv'
    <2> SUFFICES ASSUME ~RspEnded', NEW f \in InFlight'
                 PROVE  InPlace(f, await', Base', Read')
      BY DEF PlaceInv
    <2>1. CASE f \in InFlight
      <3>1. InPlace(f, await, Base, Read) /\ f.id \in Nat
        BY <1>1, <1>7, <2>1, InFlightTypes DEF QueueInv, PlaceInv
      <3>2. f.id <= Read'
        <4>1. f.id <= Read /\ f.id \in Nat BY <3>1 DEF InPlace
        <4>2. Read \in Int BY <1>1, QueueTypes
        <4> QED BY <1>2, <4>1, <4>2
      <3> QED BY <1>6, <3>1, <3>2 DEF InPlace
    <2>2. CASE f = reqFrame' /\ r.kind # "produce0"
      <3>1. /\ Base + reqFrame.reply + 1 \in 1..Len(await)
            /\ await[Base + reqFrame.reply + 1] = r
        BY <1>1, <1>7, <2>2, NextPlace
      <3>2. Base + reqFrame'.reply = Base + reqFrame.reply + 1
        BY <1>1, <1>6, <2>2, QueueTypes DEF Num
      <3>3. r.id <= Read' BY <1>1, <1>2, QueueTypes
      <3> HIDE DEF r
      <3> QED BY <1>6, <2>2, <3>1, <3>2, <3>3 DEF InPlace, r
    <2> QED BY <1>8, <2>1, <2>2
  <1>10. ReadInv'
    <2> SUFFICES ASSUME ~RspEnded
                 PROVE  /\ Base + reqFrame'.reply <= Len(await)
                        /\ \A k \in 1..Len(await) :
                              await[k].id <= Read + 1 <=> k <= Base + reqFrame'.reply
      BY <1>2, <1>6, <1>7 DEF ReadInv
    <2> DEFINE n == Base + reqFrame.reply
    <2>1. /\ n <= Len(await)
          /\ \A k \in 1..Len(await) : await[k].id <= Read <=> k <= n
      BY <1>1 DEF QueueInv, ReadInv
    <2>2. /\ n \in Int /\ Len(await) \in Nat /\ Read \in Int /\ reqFrame.reply \in Nat
          /\ \A k \in 1..Len(await) : await[k].id \in Nat
      <3>1. reqFrame.reply \in Nat BY <1>1, QueueTypes
      <3>2. Len(await) \in Nat /\ Read \in Int BY <1>1, QueueTypes
      <3>3. \A k \in 1..Len(await) : await[k].id \in Nat BY <1>1, QueueTypes
      <3> QED BY <1>6, <3>1, <3>2, <3>3
    <2>3. CASE r.kind = "produce0"
      <3>1. \A k \in 1..Len(await) : await[k] # r
        BY <2>3 DEF QueueInv, IdInv
      <3>2. Base + reqFrame'.reply = n BY <1>6, <2>2, <2>3 DEF Num
      <3>3. \A k \in 1..Len(await) : await[k].id <= Read + 1 <=> await[k].id <= Read
        BY <1>2, <2>2, <3>1
      <3> HIDE DEF n
      <3> QED BY <2>1, <3>2, <3>3
    <2>4. CASE r.kind # "produce0"
      <3>1. n + 1 \in 1..Len(await) /\ await[n + 1] = r
        BY <1>1, <2>4, NextPlace
      <3>2. Base + reqFrame'.reply = n + 1 BY <1>6, <2>2, <2>4 DEF Num
      <3>3. \A k \in 1..Len(await) : k > n + 1 => await[k].id > r.id
        BY <2>2, <3>1 DEF QueueInv, IdInv
      <3> HIDE DEF n, r
      <3>4. ASSUME NEW k \in 1..Len(await) PROVE await[k].id <= Read + 1 <=> k <= n + 1
        <4>1. CASE k <= n BY <2>1, <2>2, <4>1
        <4>2. CASE k = n + 1 BY <1>2, <2>2, <3>1, <4>2
        <4>3. CASE k > n + 1 BY <1>2, <2>2, <3>3, <4>3
        <4> QED BY <2>2, <4>1, <4>2, <4>3
      <3> QED BY <2>2, <3>1, <3>2, <3>4
    <2> QED BY <2>3, <2>4
  <1> QED BY <1>2, <1>3, <1>4, <1>5, <1>9, <1>10 DEF QueueInv, ClientInv

LEMMA QueueReadRequest ==
  ASSUME IInv, QueueInv, ReadRequest PROVE QueueInv'
  <1> DEFINE r == fromClient[1]
  <1>1. /\ req = "read" /\ fromClient # <<>> /\ fromClient' = Tail(fromClient)
        /\ UNCHANGED <<toClient, sent, await, mustToken, toBroker, fromBroker, rspFrame, rsp>>
    BY DEF ReadRequest, CanRead, peers, rspVars
  <1>2. CASE req' = "returned" BY <1>1, <1>2, QueueReadEnds
  <1>3. CASE req' # "returned"
    <2>1. fromClient \in Seq(Request) /\ Head(fromClient) = r /\ 1 \in 1..Len(fromClient)
      BY <1>1, TailAt DEF IInv, TypeOK
    <2>2. MustReply(r.kind) <=> r.kind # "produce0"
      BY <2>1 DEF IInv, Acks0Inv, MustReply
    <2>3. /\ req' = PcAfterRead(r.kind)
          /\ reqFrame' = [id |-> r.id, kind |-> r.kind, token |-> FALSE,
                          reply |-> reqFrame.reply + (IF MustReply(r.kind) THEN 1 ELSE 0),
                          slot |-> reqFrame.slot + (IF MustReply(r.kind) THEN 1 ELSE 0)]
      BY <1>3, <2>1 DEF ReadRequest
    <2> HIDE DEF r
    <2>4. /\ reqFrame'.id = r.id /\ reqFrame'.kind = r.kind /\ reqFrame'.token = FALSE
          /\ reqFrame'.reply = reqFrame.reply + Num(r.kind # "produce0")
      BY <2>2, <2>3 DEF Num
    <2>5. req' \in {"push", "write"} BY <2>3 DEF PcAfterRead
    <2>6. Demands(reqFrame') <=> r.kind # "produce0" BY <2>4 DEF Demands
    <2>7. AfterV0' <=> r.kind = "hs0" BY <2>4, <2>5 DEF AfterV0, IsHandshakeV0
    <2> QED BY <1>1, <2>4, <2>5, <2>6, <2>7, QueueForward DEF r
  <1> QED BY <1>2, <1>3

LEMMA QueueReadSaslToken ==
  ASSUME IInv, QueueInv, ReadSaslToken PROVE QueueInv'
  <1> DEFINE r == fromClient[1]
  <1>1. /\ req = "read" /\ reqHandler = "saslV0" /\ req' = "write"
        /\ fromClient # <<>> /\ fromClient' = Tail(fromClient)
        /\ UNCHANGED <<toClient, sent, await, mustToken, toBroker, fromBroker, rspFrame, rsp>>
    BY DEF ReadSaslToken, CanRead, peers, rspVars
  <1>2. fromClient \in Seq(Request) /\ Head(fromClient) = r /\ 1 \in 1..Len(fromClient)
    BY <1>1, TailAt DEF IInv, TypeOK
  <1>3. r.kind = "token"
    BY <1>1, <1>2 DEF QueueInv, TokenInv, ReqEnded, AfterV0
  <1>4. reqFrame' = [id |-> r.id, kind |-> r.kind, token |-> TRUE,
                     reply |-> reqFrame.reply + 1, slot |-> reqFrame.slot]
    BY <1>2 DEF ReadSaslToken
  <1> HIDE DEF r
  <1>5. /\ reqFrame'.id = r.id /\ reqFrame'.kind = r.kind /\ reqFrame'.token = TRUE
        /\ reqFrame'.reply = reqFrame.reply + Num(r.kind # "produce0")
    BY <1>3, <1>4 DEF Num
  <1>6. Demands(reqFrame') <=> r.kind # "produce0" BY <1>3, <1>5 DEF Demands
  <1>7. AfterV0' <=> r.kind = "hs0" BY <1>1, <1>3, <1>5 DEF AfterV0, IsHandshakeV0
  <1> QED BY <1>1, <1>5, <1>6, <1>7, QueueForward DEF r

(* A SASL frame that the requests loop is about to answer is all that a    *)
(* client that does not pipeline waits for: nothing is in flight.          *)
LEMMA NothingElseAsked ==
  ASSUME IInv, QueueInv, ~Pipelining, fromClient # <<>>, fromClient[1].kind \in SaslKinds
  PROVE  /\ Len(await) = 1 /\ await[1] = fromClient[1] /\ fromClient[1].id = Read + 1
         /\ toClient = <<>> /\ Len(fromClient) = 1
         /\ ~RspEnded => InFlight = {}
         /\ ~RspEnded /\ ~ReqEnded => Base + reqFrame.reply = 0
  <1>1. TypeOK BY DEF IInv
  <1>2. 1 \in 1..Len(fromClient) /\ Len(fromClient) \in Nat /\ sent \in Nat /\ Read \in Int
    BY <1>1, QueueTypes
  <1>3. fromClient[1].kind # "produce0" BY DEF SaslKinds, Handshakes
  <1>4. PICK k \in 1..Len(await) : await[k] = fromClient[1]
    BY <1>2, <1>3 DEF QueueInv, UnreadInv
  <1>5. Len(await) = 1 /\ await[k].id = sent
    BY <1>4 DEF QueueInv, StepwiseInv
  <1>6. k = 1 BY <1>5
  <1>7. fromClient[1].id = Read + 1 BY <1>2 DEF QueueInv, IdInv
  <1>8. Len(fromClient) = 1
    <2>1. sent = Read + 1 BY <1>4, <1>5, <1>7
    <2>2. Read = sent - Len(fromClient) BY DEF Read
    <2>3. Len(fromClient) = sent - Read BY <1>2, <2>2
    <2> QED BY <1>2, <2>1, <2>3
  <1>9. toClient = <<>>
    <2> SUFFICES ASSUME toClient # <<>> PROVE FALSE
      OBVIOUS
    <2>1. 1 \in 1..Len(toClient) BY <1>1, QueueTypes
    <2>2. toClient[1] = await[1] /\ toClient[1].id <= Read BY <2>1 DEF QueueInv, ReceivedInv
    <2> QED BY <1>2, <1>4, <1>6, <1>7, <2>2
  <1>10. ~RspEnded => InFlight = {}
    <2> SUFFICES ASSUME ~RspEnded, NEW f \in InFlight PROVE FALSE
      OBVIOUS
    <2>1. InPlace(f, await, Base, Read) BY DEF QueueInv, PlaceInv
    <2>2. Base + f.reply = 1 BY <1>5, <2>1 DEF InPlace
    <2>3. await[1].id = f.id /\ f.id <= Read BY <2>1, <2>2 DEF InPlace
    <2> QED BY <1>2, <1>4, <1>6, <1>7, <2>3
  <1>11. ~RspEnded /\ ~ReqEnded => Base + reqFrame.reply = 0
    <2> SUFFICES ASSUME ~RspEnded, ~ReqEnded PROVE Base + reqFrame.reply = 0
      OBVIOUS
    <2>1. /\ Base + reqFrame.reply + 1 \in 1..Len(await) BY <1>3, NextPlace
    <2>2. Base + reqFrame.reply \in Int
      <3>1. Relays \in Int /\ reqFrame.reply \in Nat /\ Len(toClient) \in Nat
        BY <1>1, QueueTypes
      <3> QED BY <3>1 DEF Base
    <2> QED BY <1>5, <2>1, <2>2
  <1> QED BY <1>4, <1>5, <1>6, <1>7, <1>8, <1>9, <1>10, <1>11

LEMMA QueueLocalReply ==
  ASSUME IInv, QueueInv, ~Pipelining, fromClient # <<>>, fromClient[1].kind \in SaslKinds,
         req \in {"read", "token"}, ~InHand',
         fromClient' = Tail(fromClient), toClient' = Append(toClient, fromClient[1]),
         UNCHANGED <<sent, await, mustToken, toBroker, fromBroker, rspFrame, rsp>>,
         ReqEnded' \/ reqFrame'.reply = reqFrame.reply,
         ReqEnded' \/ (AfterV0' <=> fromClient[1].kind = "hs0")
  PROVE  QueueInv'
  <1> DEFINE r == fromClient[1]
  <1>1. TypeOK /\ ~ReqEnded BY DEF IInv, ReqEnded
  <1>2. /\ ClientInv' /\ Read' = Read + 1 /\ 1 \in 1..Len(fromClient)
    BY <1>1, ClientRead DEF QueueInv, ClientInv
  <1>3. /\ Len(await) = 1 /\ await[1] = r /\ r.id = Read + 1 /\ toClient = <<>>
        /\ ~RspEnded => InFlight = {}
        /\ ~RspEnded => Base + reqFrame.reply = 0
    BY <1>1, NothingElseAsked
  <1>4. r \in Request /\ r.id \in Nat /\ Read \in Int /\ Relays \in Int /\ reqFrame.reply \in Nat
    BY <1>1, <1>2, QueueTypes
  <1> HIDE DEF r
  <1>5. Len(toClient') = 1 /\ toClient'[1] = r
    BY <1>3, <1>4 DEF r
  <1>6. ReceivedInv'
    <2> SUFFICES ASSUME NEW i \in 1..Len(toClient')
                 PROVE  i <= Len(await) /\ toClient'[i] = await[i] /\ toClient'[i].id <= Read'
      BY DEF ReceivedInv
    <2>1. i = 1 BY <1>5
    <2> QED BY <1>2, <1>3, <1>4, <1>5, <2>1
  <1>7. TokenInv' BY <1>1, TokenRead DEF QueueInv
  <1>8. OrderInv' BY OrderKept DEF QueueInv
  <1>9. RspEnded' <=> RspEnded BY DEF RspEnded
  <1>10. InFlight' \subseteq InFlight BY DEF InFlight, Demands
  <1>11. PlaceInv' BY <1>3, <1>9, <1>10 DEF PlaceInv
  <1>12. Base' = Base + 1
    <2>1. Relays' = Relays BY DEF Relays
    <2>2. Len(toClient) = 0 BY <1>3
    <2> QED BY <1>4, <1>5, <2>1, <2>2 DEF Base
  <1>13. ReadInv'
    <2> SUFFICES ASSUME ~RspEnded, ~ReqEnded'
                 PROVE  /\ Base' + reqFrame'.reply <= Len(await)
                        /\ \A k \in 1..Len(await) :
                              await[k].id <= Read' <=> k <= Base' + reqFrame'.reply
      BY <1>9 DEF ReadInv
    <2>1. Base \in Int BY <1>3, <1>4 DEF Base
    <2>2. Base' + reqFrame'.reply = 1 BY <1>3, <1>4, <1>12, <2>1
    <2>3. \A k \in 1..Len(await) : k = 1 /\ await[k].id <= Read'
      BY <1>2, <1>3, <1>4
    <2> QED BY <1>3, <2>2, <2>3
  <1> QED BY <1>2, <1>6, <1>7, <1>8, <1>11, <1>13 DEF QueueInv, ClientInv

LEMMA QueueLocalHandshake ==
  ASSUME IInv, QueueInv, LocalSaslEnabled => ~Pipelining, LocalHandshake PROVE QueueInv'
  <1> DEFINE r == fromClient[1]
  <1>1. /\ req = "read" /\ fromClient # <<>> /\ fromClient' = Tail(fromClient)
        /\ UNCHANGED <<sent, await, mustToken, toBroker, fromBroker, rspFrame, rsp>>
        /\ req' \in {"token", "returned"}
    BY DEF LocalHandshake, CanRead, peers, rspVars
  <1>2. fromClient \in Seq(Request) /\ Head(fromClient) = r /\ reqFrame \in Frame
    BY <1>1, TailAt DEF IInv, TypeOK
  <1>3. ~Pipelining /\ r.kind \in SaslKinds
    BY <1>2 DEF LocalHandshake, HandledLocally, SaslKinds
  <1>4. reqFrame' = [reqFrame EXCEPT !.id = r.id, !.kind = r.kind]
    BY <1>2 DEF LocalHandshake
  <1>5. reqFrame'.reply = reqFrame.reply /\ reqFrame'.kind = r.kind
    BY <1>2, <1>4 DEF Frame
  <1>6. ReqEnded' \/ (AfterV0' <=> r.kind = "hs0")
    BY <1>1, <1>5 DEF ReqEnded, AfterV0
  <1>7. ~InHand' BY <1>1 DEF InHand
  <1>8. CASE toClient' = toClient /\ req' = "returned"
    BY <1>1, <1>8, QueueReadEnds
  <1>9. CASE toClient' = Append(toClient, r)
    BY <1>1, <1>3, <1>5, <1>6, <1>7, <1>9, QueueLocalReply
  <1> QED BY <1>2, <1>8, <1>9 DEF LocalHandshake

LEMMA QueueLocalToken ==
  ASSUME IInv, QueueInv, LocalInv, LocalSaslEnabled => ~Pipelining, LocalToken PROVE QueueInv'
  <1> DEFINE r == fromClient[1]
  <1>1. /\ req = "token" /\ fromClient # <<>> /\ fromClient' = Tail(fromClient)
        /\ UNCHANGED <<sent, await, mustToken, toBroker, fromBroker, rspFrame, rsp, reqFrame>>
    BY DEF LocalToken, CanRead, peers, rspVars
  <1>2. fromClient \in Seq(Request) /\ Head(fromClient) = r /\ 1 \in 1..Len(fromClient)
    BY <1>1, TailAt DEF IInv, TypeOK
  <1>3. ~Pipelining BY <1>1 DEF LocalInv
  <1>4. nextReq = "none" BY <1>1 DEF IInv, ReqInv, ReqEnded
  <1>5. reqFrame.kind = "hs0" => r.kind = "token"
    BY <1>1, <1>2 DEF QueueInv, TokenInv, ReqEnded, AfterV0
  <1>6. \/ /\ r.kind \in {"token", "saslauth"} /\ toClient' = Append(toClient, r)
           /\ \/ req' = "handler" /\ nextReq' = "default"
              \/ req' = "returned"
        \/ toClient' = toClient /\ req' = "returned"
    BY <1>2, <1>4, <1>5 DEF LocalToken, PutNextRequestHandler
  <1>7. CASE toClient' = toClient /\ req' = "returned"
    BY <1>1, <1>7, QueueReadEnds
  <1>8. CASE /\ r.kind \in {"token", "saslauth"} /\ toClient' = Append(toClient, r)
             /\ \/ req' = "handler" /\ nextReq' = "default"
                \/ req' = "returned"
    <2>1. r.kind \in SaslKinds BY <1>8 DEF SaslKinds
    <2>2. ~InHand' /\ (ReqEnded' \/ (AfterV0' <=> r.kind = "hs0"))
      BY <1>8 DEF InHand, ReqEnded, AfterV0
    <2> QED BY <1>1, <1>3, <1>8, <2>1, <2>2, QueueLocalReply
  <1> QED BY <1>6, <1>7, <1>8

-----------------------------------------------------------------------------
(* The invariant is inductive. *)

LEMMA QueueInit == Init => QueueInv
  <1> SUFFICES ASSUME Init PROVE QueueInv
    OBVIOUS
  <1>1. /\ fromClient = <<>> /\ toClient = <<>> /\ toBroker = <<>> /\ fromBroker = <<>>
        /\ await = <<>> /\ sent = 0 /\ mustToken = FALSE /\ nextReq = "default"
        /\ req \in {"gateway", "handler"} /\ rsp = "handler"
        /\ reqFrame.reply = 0 /\ rspFrame.reply = 0
    BY DEF Init, NoFrame
  <1>2. Len(fromClient) = 0 /\ Len(toClient) = 0 /\ Len(toBroker) = 0 /\ Len(await) = 0
        /\ Len(fromBroker) = 0
    BY <1>1
  <1>3. IdInv /\ UnreadInv /\ ReceivedInv /\ StepwiseInv /\ OrderInv
    BY <1>2 DEF IdInv, UnreadInv, ReceivedInv, StepwiseInv, OrderInv
  <1>4. TokenInv BY <1>1, <1>2 DEF TokenInv, AfterV0
  <1>5. InFlight = {} BY <1>1, <1>2 DEF InFlight, InHand
  <1>6. PlaceInv BY <1>5 DEF PlaceInv
  <1>7. Base + reqFrame.reply = 0
    <2>1. Num(rsp \in {"pop", "write"}) = 0 BY <1>1 DEF Num
    <2>2. Relays = 0 BY <1>1, <2>1 DEF Relays
    <2> QED BY <1>1, <1>2, <2>2 DEF Base
  <1>8. ReadInv BY <1>2, <1>7 DEF ReadInv
  <1> QED BY <1>3, <1>4, <1>6, <1>8 DEF QueueInv

LEMMA QueueEnvironment ==
  ASSUME IInv, QueueInv, Environment PROVE QueueInv'
  <1>1. ASSUME UNCHANGED <<sockets, peers, chans, reqVars, rspVars>> PROVE QueueInv'
    BY <1>1, QueueReqMoves DEF sockets, peers, chans, reqVars, rspVars, pipeVars, InHand,
       ReqEnded, AfterV0, IsHandshakeV0
  <1>2. CASE ClientClose \/ BrokerClose \/ ConnSetClose
    BY <1>1, <1>2 DEF ClientClose, BrokerClose, ConnSetClose
  <1> QED BY <1>2, QueueClientSend, QueueClientReceive, QueueBrokerServe DEF Environment

LEMMA QueueRequestsLoop ==
  ASSUME IInv, QueueInv, LocalInv, LocalSaslEnabled => ~Pipelining, RequestsLoop
  PROVE  QueueInv'
  <1> USE DEF sockets, peers, chans, rspVars, pipeVars, InHand, ReqEnded
  <1>1. CASE GatewayAuth BY <1>1, QueueReqMoves DEF GatewayAuth, AfterV0
  <1>2. CASE GetNextRequestHandler
    BY <1>2, QueueReqMoves DEF GetNextRequestHandler, AfterV0
  <1>3. CASE ReadAndReject BY <1>3, QueueReadEnds DEF ReadAndReject, CanRead
  <1>4. CASE ReadRequestFails BY <1>4, QueueReqMoves DEF ReadRequestFails
  <1>5. CASE SendRequestKeyVersion
    BY <1>5, QueueReqMoves DEF SendRequestKeyVersion, AfterV0, IsHandshakeV0
  <1>6. CASE WriteRequestFails BY <1>6, QueueReqMoves DEF WriteRequestFails
  <1>7. CASE PutNextResponseHandler
    <2>1. nextReq = NextHandler(reqFrame) BY <1>7 DEF PutNextResponseHandler, IInv, ReqInv
    <2> QED BY <1>7, <2>1, QueueReqMoves DEF PutNextResponseHandler, AfterV0, NextHandler,
               IsHandshakeV0
  <1>8. CASE RequestsLoopReturns BY <1>8, QueueReqMoves DEF RequestsLoopReturns
  <1>9. CASE RequestsLoopCloses BY <1>9, QueueReqMoves DEF RequestsLoopCloses
  <1> QED BY <1>1, <1>2, <1>3, <1>4, <1>5, <1>6, <1>7, <1>8, <1>9, QueueReadRequest,
             QueueReadSaslToken, QueueLocalHandshake, QueueLocalToken, QueueWriteRequest
          DEF RequestsLoop

LEMMA QueueResponsesLoop ==
  ASSUME IInv, QueueInv, ResponsesLoop PROVE QueueInv'
  <1> USE DEF sockets, peers, chans, reqVars, pipeVars, RspEnded
  <1>1. CASE GetNextResponseHandler BY <1>1, QueueRspMoves DEF GetNextResponseHandler
  <1>2. CASE GetNextResponseHandlerTimeout
    BY <1>2, QueueRspMoves DEF GetNextResponseHandlerTimeout
  <1>3. CASE ReadResponseFails BY <1>3, QueueRspMoves DEF ReadResponseFails
  <1>4. CASE ReceiveRequestKeyVersion BY <1>4, QueueRspMoves DEF ReceiveRequestKeyVersion
  <1>5. CASE WriteResponseFails BY <1>5, QueueRspMoves DEF WriteResponseFails
  <1>6. CASE ResponsesLoopReturns BY <1>6, QueueRspMoves DEF ResponsesLoopReturns
  <1>7. CASE ResponsesLoopCloses BY <1>7, QueueRspMoves DEF ResponsesLoopCloses
  <1> QED BY <1>1, <1>2, <1>3, <1>4, <1>5, <1>6, <1>7, QueueReadResponse, QueueWriteResponse
          DEF ResponsesLoop

LEMMA LocalNext ==
  ASSUME LocalInv, [Next]_vars PROVE LocalInv'
  <1> SUFFICES ASSUME req' = "token", req # "token" PROVE LocalSaslEnabled
    BY DEF LocalInv
  <1>1. ~UNCHANGED vars /\ ~Environment /\ ~ResponsesLoop
    BY DEF vars, reqVars, Environment, ClientSend, ClientReceive, ClientClose, BrokerServe,
       BrokerClose, ConnSetClose, ResponsesLoop, GetNextResponseHandler,
       GetNextResponseHandlerTimeout, ReadResponse, ReadResponseFails,
       ReceiveRequestKeyVersion, WriteResponse, WriteResponseFails, ResponsesLoopReturns,
       ResponsesLoopCloses
  <1>2. RequestsLoop BY <1>1 DEF Next
  <1>3. LocalHandshake
    BY <1>2 DEF RequestsLoop, GatewayAuth, GetNextRequestHandler, ReadAndReject, ReadRequest,
       ReadSaslToken, ReadRequestFails, LocalToken, SendRequestKeyVersion, WriteRequest,
       WriteRequestFails, PutNextResponseHandler, RequestsLoopReturns, RequestsLoopCloses,
       PutNextRequestHandler, PcAfterRead, PcAfterWrite
  <1> QED BY <1>3 DEF LocalHandshake, HandledLocally

LEMMA QueueNext ==
  ASSUME IInv, QueueInv, LocalInv, LocalSaslEnabled => ~Pipelining, [Next]_vars
  PROVE  QueueInv'
  <1>1. CASE UNCHANGED vars
    BY <1>1, QueueReqMoves DEF vars, sockets, peers, chans, reqVars, rspVars, pipeVars, InHand,
       ReqEnded, AfterV0, IsHandshakeV0
  <1> QED BY <1>1, QueueEnvironment, QueueRequestsLoop, QueueResponsesLoop DEF Next

LEMMA QueueAlways ==
  ASSUME LocalSaslEnabled => ~Pipelining
  PROVE  Spec => [](IInv /\ QueueInv /\ LocalInv)
  <1>1. Init => QueueInv /\ LocalInv
    BY QueueInit DEF Init, LocalInv
  <1>2. IInv /\ QueueInv /\ LocalInv /\ [Next]_vars => QueueInv' /\ LocalInv'
    BY QueueNext, LocalNext
  <1> QED BY <1>1, <1>2, InvAlways, PTL DEF Spec

(* What the client reads are the answers to its requests, in the order it  *)
(* asked, none missing, doubled or garbled, for every length of the        *)
(* queues, whatever the broker and the loops do.  With local SASL this     *)
(* needs a client that waits for the reply to a SASL frame: the proxy      *)
(* answers the handshake at once, overtaking the replies of the broker.    *)
THEOREM RepliesStayInOrder ==
  ASSUME LocalSaslEnabled => ~Pipelining
  PROVE  Spec => []RepliesInOrder
  <1>1. QueueInv => RepliesInOrder
    BY DEF QueueInv, ReceivedInv, RepliesInOrder
  <1> QED BY <1>1, QueueAlways, PTL

-----------------------------------------------------------------------------
(* The connection implements ReplyQueue. *)

Pending == SubSeq(await, Len(toClient) + 1, Len(await))

LEMMA PendingIs ==
  ASSUME NEW S, NEW s \in Seq(S), NEW n \in Nat, n <= Len(s)
  PROVE  LET t == SubSeq(s, n + 1, Len(s))
         IN  t \in Seq(S) /\ Len(t) = Len(s) - n /\ \A i \in 1..Len(t) : t[i] = s[n + i]
  <1> DEFINE t == SubSeq(s, n + 1, Len(s))
  <1>1. \A i \in (n+1)..Len(s) : s[i] \in S OBVIOUS
  <1>2. /\ t \in Seq(S)
        /\ Len(t) = IF n + 1 <= Len(s) THEN Len(s) - (n + 1) + 1 ELSE 0
        /\ \A i \in 1..(Len(s) - (n + 1) + 1) : t[i] = s[(n + 1) + i - 1]
    BY <1>1, SubSeqProperties
  <1> HIDE DEF t
  <1>3. Len(t) = Len(s) - n BY <1>2
  <1>4. \A i \in 1..Len(t) : (n + 1) + i - 1 = n + i /\ i \in 1..(Len(s) - (n + 1) + 1)
    BY <1>3
  <1>5. \A i \in 1..Len(t) : t[i] = s[n + i] BY <1>2, <1>4
  <1> QED BY <1>2, <1>3, <1>5 DEF t

LEMMA PendingAppend ==
  ASSUME NEW S, NEW s \in Seq(S), NEW n \in Nat, n <= Len(s), NEW e \in S
  PROVE  SubSeq(Append(s, e), n + 1, Len(Append(s, e)))
           = Append(SubSeq(s, n + 1, Len(s)), e)
  <1> DEFINE a == Append(s, e)
             u == SubSeq(a, n + 1, Len(a))
             t == SubSeq(s, n + 1, Len(s))
             v == Append(t, e)
  <1>1. /\ a \in Seq(S) /\ Len(a) = Len(s) + 1 /\ a[Len(s) + 1] = e
        /\ \A i \in 1..Len(s) : a[i] = s[i]
    OBVIOUS
  <1>2. n <= Len(a) BY <1>1
  <1>3. u \in Seq(S) /\ Len(u) = Len(a) - n /\ \A i \in 1..Len(u) : u[i] = a[n + i]
    BY <1>1, <1>2, PendingIs
  <1>4. t \in Seq(S) /\ Len(t) = Len(s) - n /\ \A i \in 1..Len(t) : t[i] = s[n + i]
    BY PendingIs
  <1> HIDE DEF a, u, t
  <1>5. /\ v \in Seq(S) /\ Len(v) = Len(t) + 1 /\ v[Len(t) + 1] = e
        /\ \A i \in 1..Len(t) : v[i] = t[i]
    BY <1>4
  <1> HIDE DEF v
  <1>6. Len(u) = Len(v) /\ Len(s) \in Nat BY <1>1, <1>3, <1>4, <1>5
  <1>7. ASSUME NEW i \in 1..Len(u) PROVE u[i] = v[i]
    <2>1. CASE i \in 1..Len(t)
      <3>1. n + i \in 1..Len(s) BY <1>4, <1>6, <2>1
      <3> QED BY <1>1, <1>3, <1>4, <1>5, <2>1, <3>1
    <2>2. CASE i = Len(t) + 1
      <3>1. n + i = Len(s) + 1 BY <1>4, <1>6, <2>2
      <3> QED BY <1>1, <1>3, <1>5, <2>2, <3>1
    <2> QED BY <1>4, <1>5, <1>6, <2>1, <2>2
  <1>8. u = v BY <1>3, <1>5, <1>6, <1>7, SeqEqual
  <1> QED BY <1>8 DEF a, u, t, v

LEMMA PendingHead ==
  ASSUME NEW S, NEW s \in Seq(S), NEW n \in Nat, n + 1 <= Len(s)
  PROVE  LET t == SubSeq(s, n + 1, Len(s))
         IN  /\ t # <<>> /\ Head(t) = s[n + 1]
             /\ Tail(t) = SubSeq(s, (n + 1) + 1, Len(s))
  <1>1. n + 1 \in 1..Len(s) /\ Len(s) \in (n + 1)..Len(s) OBVIOUS
  <1> DEFINE t == SubSeq(s, n + 1, Len(s))
  <1>2. Head(t) = s[n + 1] /\ Tail(t) = SubSeq(s, (n + 1) + 1, Len(s))
    BY <1>1, HeadTailOfSubSeq
  <1>3. Len(t) = Len(s) - n /\ t \in Seq(S) BY PendingIs
  <1> HIDE DEF t
  <1>4. t # <<>> BY <1>3
  <1> QED BY <1>2, <1>4 DEF t

LEMMA PendingTail ==
  ASSUME NEW S, NEW s \in Seq(S), NEW n \in Nat, n >= 1, n <= Len(s)
  PROVE  SubSeq(Tail(s), (n - 1) + 1, Len(Tail(s))) = SubSeq(s, n + 1, Len(s))
  <1> DEFINE a == Tail(s)
             u == SubSeq(a, (n - 1) + 1, Len(a))
             t == SubSeq(s, n + 1, Len(s))
  <1>1. s # <<>> OBVIOUS
  <1>2. /\ a \in Seq(S) /\ Len(a) = Len(s) - 1 /\ \A i \in 1..Len(a) : a[i] = s[i + 1]
    BY <1>1, HeadTailProperties
  <1>3. n - 1 \in Nat /\ n - 1 <= Len(a) BY <1>2
  <1>4. u \in Seq(S) /\ Len(u) = Len(a) - (n - 1) /\ \A i \in 1..Len(u) : u[i] = a[(n - 1) + i]
    BY <1>2, <1>3, PendingIs
  <1>5. t \in Seq(S) /\ Len(t) = Len(s) - n /\ \A i \in 1..Len(t) : t[i] = s[n + i]
    BY PendingIs
  <1> HIDE DEF a, u, t
  <1>6. Len(u) = Len(t) /\ Len(s) \in Nat BY <1>2, <1>4, <1>5
  <1>7. ASSUME NEW i \in 1..Len(u) PROVE u[i] = t[i]
    <2>1. (n - 1) + i \in 1..Len(a) /\ ((n - 1) + i) + 1 = n + i
      BY <1>2, <1>4, <1>6
    <2>2. u[i] = s[((n - 1) + i) + 1] BY <1>2, <1>4, <2>1
    <2> QED BY <1>5, <1>6, <2>1, <2>2
  <1>8. u = t BY <1>4, <1>5, <1>6, <1>7, SeqEqual
  <1> QED BY <1>8 DEF a, u, t

LEMMA RefinesStutter ==
  ASSUME UNCHANGED <<await, toClient, localOpen>> PROVE UNCHANGED Promise!vars
  BY DEF Promise!vars

LEMMA RefinesClose ==
  ASSUME UNCHANGED <<await, toClient>>, localOpen' = FALSE PROVE Promise!Next
  BY DEF Promise!Next, Promise!Close

(* A reply to the first request that has none yet.                         *)
LEMMA RefinesAnswer ==
  ASSUME TypeOK, localOpen, UNCHANGED <<await, localOpen>>,
         Len(toClient) + 1 \in 1..Len(await),
         toClient' = Append(toClient, await[Len(toClient) + 1])
  PROVE  Promise!Next
  <1>1. await \in Seq(Request) /\ toClient \in Seq(Reply) /\ Len(toClient) \in Nat
    BY QueueTypes
  <1>2. Len(toClient) + 1 <= Len(await) /\ await[Len(toClient) + 1] \in Reply
    BY <1>1, QueueTypes, RequestIsReply
  <1>3. Len(toClient') = Len(toClient) + 1 BY <1>1, <1>2, AppendType
  <1>4. /\ Pending # <<>> /\ Head(Pending) = await[Len(toClient) + 1]
        /\ Tail(Pending) = SubSeq(await, (Len(toClient) + 1) + 1, Len(await))
    BY <1>1, <1>2, PendingHead DEF Pending
  <1>5. Promise!Answer
    BY <1>3, <1>4 DEF Promise!Answer, Pending
  <1> QED BY <1>5 DEF Promise!Next

LEMMA RefinesClientSend ==
  ASSUME IInv, QueueInv, NEW kind \in Kinds, ClientSend(kind) PROVE [Promise!Next]_(Promise!vars)
  <1> DEFINE r == [id |-> sent + 1, kind |-> kind]
  <1>1. /\ await' = IF kind = "produce0" THEN await ELSE Append(await, r)
        /\ sent < MaxFrames /\ UNCHANGED <<toClient, localOpen>>
    BY DEF ClientSend, ends
  <1>2. CASE kind = "produce0" BY <1>1, <1>2, RefinesStutter
  <1>3. CASE kind # "produce0"
    <2>1. TypeOK BY DEF IInv
    <2>2. /\ await \in Seq(Request) /\ Len(toClient) \in Nat /\ Len(await) \in Nat
          /\ sent \in Nat
      BY <2>1, QueueTypes
    <2>3. r \in Request /\ r \in [id : 1..MaxFrames, kind : Kinds]
      BY <1>1, <2>2, ConstAssumption DEF Request
    <2>4. Len(toClient) <= Len(await)
      <3>1. Len(toClient) \in 1..Len(toClient) \/ Len(toClient) = 0 BY <2>2
      <3> QED BY <2>2, <3>1 DEF QueueInv, ReceivedInv
    <2>5. Pending' = Append(Pending, r)
      <3> HIDE DEF r
      <3>1. await' = Append(await, r) /\ toClient' = toClient BY <1>1, <1>3
      <3>2. SubSeq(Append(await, r), Len(toClient) + 1, Len(Append(await, r)))
              = Append(SubSeq(await, Len(toClient) + 1, Len(await)), r)
        BY <2>2, <2>3, <2>4, PendingAppend
      <3> QED BY <3>1, <3>2 DEF Pending
    <2> HIDE DEF r
    <2>6. Promise!Ask BY <1>1, <2>3, <2>5 DEF Promise!Ask, Pending
    <2> QED BY <2>6 DEF Promise!Next
  <1> QED BY <1>2, <1>3

LEMMA RefinesClientReceive ==
  ASSUME IInv, QueueInv, ClientReceive PROVE Promise!Next
  <1>1. /\ toClient # <<>> /\ toClient' = Tail(toClient) /\ await' = Tail(await)
        /\ UNCHANGED localOpen
    BY DEF ClientReceive, ends
  <1>2. TypeOK BY DEF IInv
  <1>3. await \in Seq(Request) /\ toClient \in Seq(Reply) /\ Len(await) \in Nat
    BY <1>2, QueueTypes
  <1>4. /\ Len(toClient) \in Nat /\ Len(toClient) >= 1 /\ Len(toClient') = Len(toClient) - 1
        /\ Len(toClient) \in 1..Len(toClient)
    BY <1>1, <1>3, TailAt
  <1>5. Len(toClient) <= Len(await) BY <1>4 DEF QueueInv, ReceivedInv
  <1>6. Pending' = Pending
    BY <1>1, <1>3, <1>4, <1>5, PendingTail DEF Pending
  <1>7. Promise!Receive BY <1>1, <1>6 DEF Promise!Receive, Pending
  <1> QED BY <1>7 DEF Promise!Next

LEMMA RefinesLocalReply ==
  ASSUME IInv, QueueInv, ~Pipelining, fromClient # <<>>, fromClient[1].kind \in SaslKinds,
         localOpen, UNCHANGED <<await, localOpen>>, toClient' = Append(toClient, fromClient[1])
  PROVE  Promise!Next
  <1>1. Len(await) = 1 /\ await[1] = fromClient[1] /\ toClient = <<>>
    BY NothingElseAsked
  <1>2. TypeOK /\ Len(toClient) = 0 BY <1>1 DEF IInv
  <1>3. Len(toClient) + 1 = 1 /\ Len(toClient) + 1 \in 1..Len(await) BY <1>1, <1>2
  <1> QED BY <1>1, <1>2, <1>3, RefinesAnswer

LEMMA RefinesRequestsLoop ==
  ASSUME IInv, QueueInv, LocalInv, LocalSaslEnabled => ~Pipelining, RequestsLoop
  PROVE  [Promise!Next]_(Promise!vars)
  <1> USE DEF sockets, ends, peers
  <1>1. CASE LocalHandshake
    <2> DEFINE r == fromClient[1]
    <2>1. fromClient # <<>> /\ localOpen /\ UNCHANGED <<await, localOpen>>
      BY <1>1 DEF LocalHandshake, CanRead
    <2>2. Head(fromClient) = r
      BY <2>1, TailAt DEF IInv, TypeOK
    <2>3. ~Pipelining /\ r.kind \in SaslKinds
      BY <1>1, <2>2 DEF LocalHandshake, HandledLocally, SaslKinds
    <2>4. toClient' = toClient \/ toClient' = Append(toClient, r)
      BY <1>1, <2>2 DEF LocalHandshake
    <2> QED BY <2>1, <2>3, <2>4, RefinesStutter, RefinesLocalReply
  <1>2. CASE LocalToken
    <2> DEFINE r == fromClient[1]
    <2>1. /\ req = "token" /\ fromClient # <<>> /\ localOpen /\ UNCHANGED <<await, localOpen>>
      BY <1>2 DEF LocalToken, CanRead
    <2>2. Head(fromClient) = r /\ 1 \in 1..Len(fromClient)
      BY <2>1, TailAt DEF IInv, TypeOK
    <2>3. ~Pipelining BY <2>1 DEF LocalInv
    <2>4. reqFrame.kind = "hs0" => r.kind = "token"
      BY <2>1, <2>2 DEF QueueInv, TokenInv, ReqEnded, AfterV0
    <2>5. \/ toClient' = toClient
          \/ toClient' = Append(toClient, r) /\ r.kind \in {"token", "saslauth"}
      BY <1>2, <2>2, <2>4 DEF LocalToken
    <2>6. r.kind \in {"token", "saslauth"} => r.kind \in SaslKinds BY DEF SaslKinds
    <2> QED BY <2>1, <2>3, <2>5, <2>6, RefinesStutter, RefinesLocalReply
  <1>3. CASE RequestsLoopCloses BY <1>3, RefinesClose DEF RequestsLoopCloses
  <1>4. CASE GatewayAuth BY <1>4, RefinesStutter DEF GatewayAuth
  <1>5. CASE GetNextRequestHandler BY <1>5, RefinesStutter DEF GetNextRequestHandler
  <1>6. CASE ReadAndReject BY <1>6, RefinesStutter DEF ReadAndReject
  <1>7. CASE ReadRequest BY <1>7, RefinesStutter DEF ReadRequest
  <1>8. CASE ReadSaslToken BY <1>8, RefinesStutter DEF ReadSaslToken
  <1>9. CASE ReadRequestFails BY <1>9, RefinesStutter DEF ReadRequestFails
  <1>10. CASE SendRequestKeyVersion BY <1>10, RefinesStutter DEF SendRequestKeyVersion
  <1>11. CASE WriteRequest BY <1>11, RefinesStutter DEF WriteRequest
  <1>12. CASE WriteRequestFails BY <1>12, RefinesStutter DEF WriteRequestFails
  <1>13. CASE PutNextResponseHandler BY <1>13, RefinesStutter DEF PutNextResponseHandler
  <1>14. CASE RequestsLoopReturns BY <1>14, RefinesStutter DEF RequestsLoopReturns
  <1> QED BY <1>1, <1>2, <1>3, <1>4, <1>5, <1>6, <1>7, <1>8, <1>9, <1>10, <1>11, <1>12,
             <1>13, <1>14 DEF RequestsLoop

LEMMA RefinesResponsesLoop ==
  ASSUME IInv, QueueInv, ResponsesLoop PROVE [Promise!Next]_(Promise!vars)
  <1> USE DEF sockets, ends, peers
  <1>1. CASE WriteResponse
    <2>1. /\ rsp = "write" /\ localOpen /\ toClient' = Append(toClient, Relayed)
          /\ UNCHANGED <<await, localOpen>>
      BY <1>1 DEF WriteResponse
    <2>2. TypeOK BY DEF IInv
    <2> QED BY <2>1, <2>2, ReplyInPlace, RefinesAnswer
  <1>2. CASE ResponsesLoopCloses BY <1>2, RefinesClose DEF ResponsesLoopCloses
  <1>3. CASE GetNextResponseHandler BY <1>3, RefinesStutter DEF GetNextResponseHandler
  <1>4. CASE GetNextResponseHandlerTimeout
    BY <1>4, RefinesStutter DEF GetNextResponseHandlerTimeout
  <1>5. CASE ReadResponse BY <1>5, RefinesStutter DEF ReadResponse
  <1>6. CASE ReadResponseFails BY <1>6, RefinesStutter DEF ReadResponseFails
  <1>7. CASE ReceiveRequestKeyVersion BY <1>7, RefinesStutter DEF ReceiveRequestKeyVersion
  <1>8. CASE WriteResponseFails BY <1>8, RefinesStutter DEF WriteResponseFails
  <1>9. CASE ResponsesLoopReturns BY <1>9, RefinesStutter DEF ResponsesLoopReturns
  <1> QED BY <1>1, <1>2, <1>3, <1>4, <1>5, <1>6, <1>7, <1>8, <1>9 DEF ResponsesLoop

LEMMA RefinesNext ==
  ASSUME IInv, QueueInv, LocalInv, LocalSaslEnabled => ~Pipelining, [Next]_vars
  PROVE  [Promise!Next]_(Promise!vars)
  <1> USE DEF sockets, ends, peers
  <1>1. CASE UNCHANGED vars BY <1>1, RefinesStutter DEF vars
  <1>2. CASE Environment
    <2>1. CASE ClientClose BY <2>1, RefinesStutter DEF ClientClose
    <2>2. CASE BrokerClose BY <2>2, RefinesStutter DEF BrokerClose
    <2>3. CASE BrokerServe BY <2>3, RefinesStutter DEF BrokerServe
    <2>4. CASE ConnSetClose BY <2>4, RefinesClose DEF ConnSetClose
    <2> QED BY <1>2, <2>1, <2>2, <2>3, <2>4, RefinesClientSend, RefinesClientReceive
            DEF Environment
  <1> QED BY <1>1, <1>2, RefinesRequestsLoop, RefinesResponsesLoop DEF Next

(* A proxied connection is a queue of replies: under the mapping of        *)
(* Promise every step of the loops and their peers is a step of ReplyQueue *)
(* or leaves it alone.  The hypothesis is that of RepliesStayInOrder.      *)
THEOREM ConnectionIsReplyQueue ==
  ASSUME LocalSaslEnabled => ~Pipelining
  PROVE  Spec => ImplementsReplyQueue
  <1>1. Init => Promise!Init
    <2> SUFFICES ASSUME Init PROVE Promise!Init
      OBVIOUS
    <2>1. await = <<>> /\ toClient = <<>> /\ localOpen = TRUE BY DEF Init
    <2>2. Len(await) = 0 /\ Len(toClient) = 0 BY <2>1
    <2>3. SubSeq(await, Len(toClient) + 1, Len(await)) = <<>> BY <2>2, SubSeqEmpty
    <2> QED BY <2>1, <2>3 DEF Promise!Init
  <1>2. IInv /\ QueueInv /\ LocalInv /\ [Next]_vars => [Promise!Next]_(Promise!vars)
    BY RefinesNext
  <1> QED BY <1>1, <1>2, QueueAlways, PTL DEF Spec, ImplementsReplyQueue, Promise!Spec

-----------------------------------------------------------------------------
(* The channel of response handlers has room. *)

LEMMA UnansweredKept ==
  ASSUME UnansweredInv, UNCHANGED <<fromClient, toClient, sent, await>>,
         ReqEnded' \/ (~ReqEnded /\ reqFrame'.reply = reqFrame.reply),
         rspHandler'.reply = rspHandler.reply
  PROVE  UnansweredInv'
  BY DEF UnansweredInv, Read

LEMMA UnansweredClient ==
  ASSUME IInv, QueueInv, UnansweredInv, ClientReceive \/ \E kind \in Kinds : ClientSend(kind)
  PROVE  UnansweredInv'
  <1>1. UNCHANGED <<req, reqFrame, rspHandler>>
    BY DEF ClientReceive, ClientSend, reqVars, rspVars
  <1>2. TypeOK BY DEF IInv
  <1> SUFFICES ASSUME ~ReqEnded, reqFrame.reply > rspHandler.reply
               PROVE  \E k \in 1..Len(await') : k > Len(toClient') /\ await'[k].id <= Read'
    BY <1>1 DEF UnansweredInv, ReqEnded
  <1>3. PICK k \in 1..Len(await) : k > Len(toClient) /\ await[k].id <= Read
    BY DEF UnansweredInv
  <1>4. /\ await \in Seq(Request) /\ Len(await) \in Nat /\ Len(toClient) \in Nat
        /\ fromClient \in Seq(Request) /\ toClient \in Seq(Reply) /\ sent \in Nat
    BY <1>2, QueueTypes
  <1>5. ASSUME NEW kind \in Kinds, ClientSend(kind)
        PROVE  \E l \in 1..Len(await') : l > Len(toClient') /\ await'[l].id <= Read'
    <2> DEFINE r == [id |-> sent + 1, kind |-> kind]
    <2>1. /\ fromClient' = Append(fromClient, r) /\ sent' = sent + 1 /\ toClient' = toClient
          /\ await' = await \/ await' = Append(await, r)
      BY <1>5 DEF ClientSend
    <2>2. r \in Request BY <1>4, ConstAssumption DEF Request
    <2> HIDE DEF r
    <2>3. Len(fromClient') = Len(fromClient) + 1 /\ Len(fromClient) \in Nat
      BY <1>4, <2>1, <2>2, AppendAt
    <2>4. Read' = Read BY <1>4, <2>1, <2>3 DEF Read
    <2>5. k \in 1..Len(await') /\ await'[k] = await[k]
      BY <1>4, <2>1, <2>2, AppendAt
    <2> QED BY <1>3, <2>1, <2>4, <2>5
  <1>6. ASSUME ClientReceive
        PROVE  \E l \in 1..Len(await') : l > Len(toClient') /\ await'[l].id <= Read'
    <2>1. /\ toClient # <<>> /\ toClient' = Tail(toClient)
          /\ await # <<>> /\ await' = Tail(await) /\ UNCHANGED <<fromClient, sent>>
      BY <1>6 DEF ClientReceive
    <2>2. Len(toClient') = Len(toClient) - 1 /\ Len(toClient) >= 1
      BY <1>4, <2>1, TailAt
    <2>3. /\ Len(await') = Len(await) - 1
          /\ \A i \in 1..Len(await') : await'[i] = await[i + 1]
      BY <1>4, <2>1, TailAt
    <2>4. k - 1 \in 1..Len(await') /\ k - 1 > Len(toClient') /\ (k - 1) + 1 = k
      BY <1>3, <1>4, <2>2, <2>3
    <2>5. await'[k - 1] = await[k] /\ Read' = Read BY <2>1, <2>3, <2>4 DEF Read
    <2> QED BY <1>3, <2>4, <2>5
  <1> QED BY <1>5, <1>6

(* A frame has been read.                                                  *)
LEMMA UnansweredRead ==
  ASSUME IInv, QueueInv, UnansweredInv, ~ReqEnded, fromClient # <<>>,
         fromClient' = Tail(fromClient), UNCHANGED <<toClient, sent, await, rspHandler>>,
         reqFrame'.reply = reqFrame.reply \/ fromClient[1].kind # "produce0"
  PROVE  UnansweredInv'
  <1> DEFINE r == fromClient[1]
  <1>1. TypeOK BY DEF IInv
  <1>2. Read' = Read + 1 /\ r.id = Read + 1 /\ 1 \in 1..Len(fromClient)
    BY <1>1, ClientRead DEF QueueInv, ClientInv
  <1>3. Read \in Int /\ Len(toClient) \in Nat BY <1>1, QueueTypes
  <1> SUFFICES ASSUME reqFrame'.reply > rspHandler.reply
               PROVE  \E k \in 1..Len(await) : k > Len(toClient) /\ await[k].id <= Read'
    BY DEF UnansweredInv
  <1>4. CASE reqFrame'.reply = reqFrame.reply
    <2>1. PICK k \in 1..Len(await) : k > Len(toClient) /\ await[k].id <= Read
      BY <1>4 DEF UnansweredInv
    <2>2. await[k].id \in Nat BY <1>1, QueueTypes
    <2> QED BY <1>2, <1>3, <2>1, <2>2
  <1>5. CASE r.kind # "produce0"
    <2>1. PICK k \in 1..Len(await) : await[k] = r
      BY <1>2, <1>5 DEF QueueInv, UnreadInv
    <2>2. ~(k \in 1..Len(toClient))
      <3> SUFFICES ASSUME k \in 1..Len(toClient) PROVE FALSE
        OBVIOUS
      <3>1. toClient[k] = await[k] /\ toClient[k].id <= Read BY DEF QueueInv, ReceivedInv
      <3> QED BY <1>2, <1>3, <2>1, <3>1
    <2>3. k > Len(toClient) BY <1>1, <1>3, <2>2, QueueTypes
    <2> QED BY <1>2, <1>3, <2>1, <2>3
  <1> QED BY <1>4, <1>5

(* The proxy answers by itself: no forwarded request waits for a handler.  *)
LEMMA NoHandlerOwed ==
  ASSUME IInv, QueueInv, UnansweredInv, ~Pipelining, ~ReqEnded, fromClient # <<>>,
         fromClient[1].kind \in SaslKinds
  PROVE  reqFrame.reply <= rspHandler.reply
  <1>1. TypeOK BY DEF IInv
  <1>2. /\ Len(await) = 1 /\ await[1] = fromClient[1] /\ fromClient[1].id = Read + 1
    BY NothingElseAsked
  <1>3. Read \in Int BY <1>1, QueueTypes
  <1>4. ~(\E k \in 1..Len(await) : k > Len(toClient) /\ await[k].id <= Read)
    BY <1>2, <1>3
  <1>5. ~(reqFrame.reply > rspHandler.reply) BY <1>4 DEF UnansweredInv
  <1> QED BY <1>1, <1>5, QueueTypes

LEMMA UnansweredRequestsLoop ==
  ASSUME IInv, QueueInv, LocalInv, UnansweredInv, LocalSaslEnabled => ~Pipelining, RequestsLoop
  PROVE  UnansweredInv'
  <1> USE DEF sockets, peers, rspVars, ReqEnded
  <1>0. ASSUME req' = "returned" PROVE UnansweredInv' BY <1>0 DEF UnansweredInv
  <1>1. CASE GatewayAuth BY <1>1, UnansweredKept DEF GatewayAuth
  <1>2. CASE GetNextRequestHandler BY <1>2, UnansweredKept DEF GetNextRequestHandler
  <1>3. CASE ReadAndReject BY <1>0, <1>3 DEF ReadAndReject
  <1>4. CASE ReadRequest
    <2>1. CASE req' = "returned" BY <1>0, <2>1
    <2>2. CASE req' # "returned"
      <3> DEFINE r == fromClient[1]
      <3>1. /\ req = "read" /\ fromClient # <<>> /\ fromClient' = Tail(fromClient)
            /\ UNCHANGED <<toClient, sent, await, rspHandler>>
        BY <1>4 DEF ReadRequest, CanRead
      <3>2. fromClient \in Seq(Request) /\ Head(fromClient) = r /\ 1 \in 1..Len(fromClient)
            /\ reqFrame.reply \in Nat
        BY <3>1, TailAt, QueueTypes DEF IInv, TypeOK
      <3>3. reqFrame'.reply = reqFrame.reply + (IF MustReply(r.kind) THEN 1 ELSE 0)
        BY <1>4, <2>2, <3>2 DEF ReadRequest
      <3>4. MustReply(r.kind) => r.kind # "produce0"
        BY <3>2 DEF IInv, Acks0Inv, MustReply
      <3>5. reqFrame'.reply = reqFrame.reply \/ r.kind # "produce0"
        BY <3>2, <3>3, <3>4
      <3> QED BY <3>1, <3>5, UnansweredRead
    <2> QED BY <2>1, <2>2
  <1>5. CASE ReadSaslToken
    <2>1. /\ req = "read" /\ fromClient # <<>> /\ fromClient' = Tail(fromClient)
          /\ reqHandler = "saslV0" /\ UNCHANGED <<toClient, sent, await, rspHandler>>
      BY <1>5 DEF ReadSaslToken, CanRead
    <2>2. 1 \in 1..Len(fromClient) BY <2>1, TailAt DEF IInv, TypeOK
    <2>3. fromClient[1].kind = "token" BY <2>1, <2>2 DEF QueueInv, TokenInv, AfterV0
    <2> QED BY <2>1, <2>3, UnansweredRead
  <1>6. CASE ReadRequestFails BY <1>0, <1>6 DEF ReadRequestFails
  <1>7. CASE LocalHandshake
    <2>1. CASE req' = "returned" BY <1>0, <2>1
    <2>2. CASE req' # "returned"
      <3> DEFINE r == fromClient[1]
      <3>1. req = "read" /\ fromClient # <<>> /\ UNCHANGED rspHandler
        BY <1>7 DEF LocalHandshake, CanRead
      <3>2. Head(fromClient) = r /\ reqFrame \in Frame BY <3>1, TailAt DEF IInv, TypeOK
      <3>3. ~Pipelining /\ r.kind \in SaslKinds
        BY <1>7, <3>2 DEF LocalHandshake, HandledLocally, SaslKinds
      <3>4. reqFrame'.reply = reqFrame.reply
        <4>1. reqFrame' = [reqFrame EXCEPT !.id = r.id, !.kind = r.kind]
          BY <1>7, <3>2 DEF LocalHandshake
        <4> QED BY <3>2, <4>1 DEF Frame
      <3>5. reqFrame.reply <= rspHandler.reply BY <3>1, <3>3, NoHandlerOwed
      <3>6. reqFrame.reply \in Nat /\ rspHandler.reply \in Nat BY QueueTypes DEF IInv
      <3> QED BY <3>1, <3>4, <3>5, <3>6 DEF UnansweredInv
    <2> QED BY <2>1, <2>2
  <1>8. CASE LocalToken
    <2>1. CASE req' = "returned" BY <1>0, <2>1
    <2>2. CASE req' # "returned"
      <3> DEFINE r == fromClient[1]
      <3>1. req = "token" /\ fromClient # <<>> /\ UNCHANGED <<rspHandler, reqFrame>>
        BY <1>8 DEF LocalToken, CanRead
      <3>2. Head(fromClient) = r /\ 1 \in 1..Len(fromClient) BY <3>1, TailAt DEF IInv, TypeOK
      <3>3. ~Pipelining BY <3>1 DEF LocalInv
      <3>4. reqFrame.kind = "hs0" => r.kind = "token"
        BY <3>1, <3>2 DEF QueueInv, TokenInv, AfterV0
      <3>5. r.kind \in SaslKinds
        BY <1>8, <2>2, <3>2, <3>4 DEF LocalToken, SaslKinds
      <3>6. reqFrame.reply <= rspHandler.reply BY <3>1, <3>3, <3>5, NoHandlerOwed
      <3>7. reqFrame.reply \in Nat /\ rspHandler.reply \in Nat BY QueueTypes DEF IInv
      <3> QED BY <3>1, <3>6, <3>7 DEF UnansweredInv
    <2> QED BY <2>1, <2>2
  <1>9. CASE SendRequestKeyVersion BY <1>9, UnansweredKept DEF SendRequestKeyVersion
  <1>10. CASE WriteRequest BY <1>10, UnansweredKept DEF WriteRequest
  <1>11. CASE WriteRequestFails BY <1>0, <1>11 DEF WriteRequestFails
  <1>12. CASE PutNextResponseHandler BY <1>12, UnansweredKept DEF PutNextResponseHandler
  <1>13. CASE RequestsLoopReturns BY <1>13, UnansweredKept DEF RequestsLoopReturns
  <1>14. CASE RequestsLoopCloses BY <1>14, UnansweredKept DEF RequestsLoopCloses
  <1> QED BY <1>1, <1>2, <1>3, <1>4, <1>5, <1>6, <1>7, <1>8, <1>9, <1>10, <1>11, <1>12,
             <1>13, <1>14 DEF RequestsLoop

(* The handler taken is the next one.                                      *)
LEMMA HandlerTaken ==
  ASSUME IInv, GetNextResponseHandler
  PROVE  rspHandler'.reply = rspHandler.reply + 1
  <1>1. nextRsp # <<>> /\ rspHandler' = Head(nextRsp) /\ nextRsp \in Seq(RspJob)
    BY DEF GetNextResponseHandler, IInv, TypeOK
  <1>2. Head(nextRsp) = nextRsp[1] /\ 1 \in 1..Len(nextRsp) BY <1>1, TailAt
  <1> QED BY <1>1, <1>2 DEF IInv, HandlerInv

LEMMA UnansweredResponsesLoop ==
  ASSUME IInv, QueueInv, UnansweredInv, ResponsesLoop PROVE UnansweredInv'
  <1> USE DEF sockets, peers, reqVars, ReqEnded
  <1>1. CASE GetNextResponseHandler
    <2>1. rspHandler'.reply = rspHandler.reply + 1 BY <1>1, HandlerTaken
    <2>2. reqFrame.reply \in Nat /\ rspHandler.reply \in Nat BY QueueTypes DEF IInv
    <2>3. UNCHANGED <<fromClient, toClient, sent, await, req, reqFrame>>
      BY <1>1 DEF GetNextResponseHandler
    <2>4. Read' = Read BY <2>3 DEF Read
    <2> QED BY <2>1, <2>2, <2>3, <2>4 DEF UnansweredInv
  <1>2. CASE GetNextResponseHandlerTimeout
    BY <1>2, UnansweredKept DEF GetNextResponseHandlerTimeout
  <1>3. CASE ReadResponse BY <1>3, UnansweredKept DEF ReadResponse
  <1>4. CASE ReadResponseFails BY <1>4, UnansweredKept DEF ReadResponseFails
  <1>5. CASE ReceiveRequestKeyVersion BY <1>5, UnansweredKept DEF ReceiveRequestKeyVersion
  <1>6. CASE WriteResponse
    <2>1. /\ rsp = "write" /\ toClient' = Append(toClient, Relayed)
          /\ UNCHANGED <<fromClient, sent, await, req, reqFrame, rspHandler>>
      BY <1>6 DEF WriteResponse
    <2>2. TypeOK BY DEF IInv
    <2>3. /\ toClient \in Seq(Reply) /\ Len(toClient) \in Nat /\ Len(await) \in Nat
          /\ reqFrame.reply \in Nat /\ rspHandler.reply \in Nat /\ rspFrame.reply \in Nat
      BY <2>2, QueueTypes
    <2>4. Len(toClient') = Len(toClient) + 1
      <3>1. Relayed \in Reply BY <2>1, <2>2, ReplyInPlace, QueueTypes, RequestIsReply
      <3> QED BY <2>1, <2>3, <3>1, AppendAt
    <2> SUFFICES ASSUME ~ReqEnded, reqFrame.reply > rspHandler.reply
                 PROVE  \E k \in 1..Len(await) : k > Len(toClient) + 1 /\ await[k].id <= Read
      <3>1. Read' = Read BY <2>1 DEF Read
      <3> QED BY <2>1, <2>4, <3>1 DEF UnansweredInv
    <2>5. ~RspEnded BY <2>1 DEF RspEnded
    <2>6. rspHandler.reply = rspFrame.reply BY <2>1 DEF IInv, RspInv
    <2>7. Base = Len(toClient) - (rspFrame.reply - 1)
      BY <2>1, <2>3 DEF Base, Relays, Num
    <2>8. /\ Base + reqFrame.reply <= Len(await)
          /\ \A k \in 1..Len(await) : await[k].id <= Read <=> k <= Base + reqFrame.reply
      BY <2>5 DEF QueueInv, ReadInv
    <2>9. Base + reqFrame.reply \in 1..Len(await) /\ Base + reqFrame.reply > Len(toClient) + 1
      BY <2>3, <2>6, <2>7, <2>8
    <2>10. await[Base + reqFrame.reply].id <= Read
      <3> DEFINE n == Base + reqFrame.reply
      <3>1. n <= n /\ n \in 1..Len(await) BY <2>9
      <3>2. \A k \in 1..Len(await) : await[k].id <= Read <=> k <= n BY <2>8
      <3> HIDE DEF n
      <3>3. await[n].id <= Read BY <3>1, <3>2
      <3> QED BY <3>3 DEF n
    <2> QED BY <2>9, <2>10
  <1>7. CASE WriteResponseFails BY <1>7, UnansweredKept DEF WriteResponseFails
  <1>8. CASE ResponsesLoopReturns BY <1>8, UnansweredKept DEF ResponsesLoopReturns
  <1>9. CASE ResponsesLoopCloses BY <1>9, UnansweredKept DEF ResponsesLoopCloses
  <1> QED BY <1>1, <1>2, <1>3, <1>4, <1>5, <1>6, <1>7, <1>8, <1>9 DEF ResponsesLoop

LEMMA UnansweredNext ==
  ASSUME IInv, QueueInv, LocalInv, UnansweredInv, LocalSaslEnabled => ~Pipelining, [Next]_vars
  PROVE  UnansweredInv'
  <1> USE DEF sockets, peers, reqVars, rspVars, ReqEnded
  <1>1. CASE UNCHANGED vars BY <1>1, UnansweredKept DEF vars
  <1>2. CASE ClientClose \/ BrokerClose \/ ConnSetClose \/ BrokerServe
    BY <1>2, UnansweredKept DEF ClientClose, BrokerClose, ConnSetClose, BrokerServe
  <1> QED BY <1>1, <1>2, UnansweredClient, UnansweredRequestsLoop, UnansweredResponsesLoop
          DEF Next, Environment

(* Neither the numbers nor, after a token, the client's queue change.      *)
LEMMA FitKept ==
  ASSUME FitInv, UNCHANGED <<fromClient, toClient, await>>,
         ReqEnded' \/ (~ReqEnded /\ reqFrame'.reply = reqFrame.reply
                                 /\ reqFrame'.slot = reqFrame.slot),
         UNCHANGED <<rspHandler, rspOpen>>, RspEnded' \/ rsp' = rsp
  PROVE  FitInv'
  BY DEF FitInv, Lag, TokenIsLast, RspEnded

(* The client does something, or something of it is read: the last thing   *)
(* it has sent is no token that is being answered.                         *)
LEMMA FitBusy ==
  ASSUME FitInv, fromClient # <<>> \/ toClient # <<>>, UNCHANGED rspVars,
         ReqEnded' \/ (~ReqEnded /\ reqFrame'.reply - reqFrame'.slot
                                      = reqFrame.reply - reqFrame.slot),
         TypeOK, TypeOK'
  PROVE  FitInv'
  <1> SUFFICES ASSUME ~ReqEnded' PROVE FitInv'
    BY DEF FitInv
  <1>1. /\ Lag <= 0
        /\ rsp = "pop" \/ (rsp = "read" /\ rspHandler.h = "default") => Lag <= -1
    BY DEF FitInv, TokenIsLast
  <1>2. /\ reqFrame.reply \in Nat /\ reqFrame.slot \in Nat
        /\ rspHandler.reply \in Nat /\ rspOpen.slot \in Nat
    BY QueueTypes
  <1>3. reqFrame'.reply \in Nat /\ reqFrame'.slot \in Nat
    <2>1. reqFrame' \in Frame BY DEF TypeOK
    <2> QED BY <2>1, FrameFields
  <1>4. rspHandler' = rspHandler /\ rspOpen' = rspOpen /\ rsp' = rsp BY DEF rspVars
  <1>5. Lag' = Lag
    BY SMTT(30), <1>2, <1>3, <1>4 DEF Lag
  <1> QED BY <1>1, <1>4, <1>5 DEF FitInv

LEMMA FitClient ==
  ASSUME IInv, TypeOK', QueueInv, FitInv, ~Pipelining,
         ClientReceive \/ \E kind \in Kinds : ClientSend(kind)
  PROVE  FitInv'
  <1>1. UNCHANGED <<rspVars, reqVars>> /\ TypeOK
    BY DEF ClientReceive, ClientSend, IInv
  <1>2. UNCHANGED <<req, reqFrame>> BY <1>1 DEF reqVars
  <1>3. CASE ClientReceive
    BY <1>1, <1>2, <1>3, FitBusy DEF ClientReceive, ReqEnded, FitInv
  <1>4. ASSUME NEW kind \in Kinds, ClientSend(kind) PROVE FitInv'
    <2>1. ~TokenIsLast
      <3>1. \A i \in 1..Len(await) : await[i].kind \notin SaslKinds
        BY <1>4 DEF ClientSend, MaySend
      <3> QED BY <3>1 DEF TokenIsLast, SaslKinds
    <2>2. UNCHANGED <<rsp, rspHandler, rspOpen>> BY <1>1 DEF rspVars
    <2>3. Lag' = Lag BY <1>2, <2>2 DEF Lag
    <2> QED BY <1>2, <2>1, <2>2, <2>3 DEF FitInv, ReqEnded
  <1> QED BY <1>3, <1>4

LEMMA FitRequestsLoop ==
  ASSUME IInv, TypeOK', QueueInv, LocalInv, UnansweredInv, FitInv, ~Pipelining, RequestsLoop
  PROVE  FitInv'
  <1> USE DEF sockets, peers, rspVars, ReqEnded
  <1>0. ASSUME req' = "returned" PROVE FitInv' BY <1>0 DEF FitInv
  <1>00. TypeOK BY DEF IInv
  <1>1. CASE GatewayAuth BY <1>1, FitKept DEF GatewayAuth
  <1>2. CASE GetNextRequestHandler BY <1>2, FitKept DEF GetNextRequestHandler
  <1>3. CASE ReadAndReject BY <1>0, <1>3 DEF ReadAndReject
  <1>4. CASE ReadRequest
    <2>1. CASE req' = "returned" BY <1>0, <2>1
    <2>2. CASE req' # "returned"
      <3> DEFINE d == IF MustReply(Head(fromClient).kind) THEN 1 ELSE 0
      <3>1. reqFrame'.reply = reqFrame.reply + d /\ reqFrame'.slot = reqFrame.slot + d
        BY <1>4, <2>2 DEF ReadRequest
      <3>2. d \in Nat OBVIOUS
      <3>3. reqFrame.reply \in Nat /\ reqFrame.slot \in Nat BY <1>00, QueueTypes
      <3> HIDE DEF d
      <3>4. reqFrame'.reply - reqFrame'.slot = reqFrame.reply - reqFrame.slot
        BY <3>1, <3>2, <3>3
      <3>5. req = "read" /\ fromClient # <<>> /\ UNCHANGED rspVars
        BY <1>4 DEF ReadRequest, CanRead
      <3> HIDE DEF rspVars
      <3> QED BY <1>00, <3>4, <3>5, FitBusy
    <2> QED BY <2>1, <2>2
  <1>5. CASE ReadSaslToken
    <2>1. /\ req = "read" /\ reqHandler = "saslV0" /\ fromClient # <<>>
          /\ fromClient' = Tail(fromClient) /\ reqFrame'.reply = reqFrame.reply + 1
          /\ UNCHANGED <<toClient, await, rspHandler>>
      BY <1>5 DEF ReadSaslToken, CanRead
    <2>2. 1 \in 1..Len(fromClient) /\ fromClient \in Seq(Request)
      BY <2>1, TailAt DEF IInv, TypeOK
    <2>3. fromClient[1].kind = "token" BY <2>1, <2>2 DEF QueueInv, TokenInv, AfterV0
    <2>4. fromClient[1].kind \in SaslKinds BY <2>3 DEF SaslKinds
    <2>5. /\ Len(await) = 1 /\ await[1] = fromClient[1] /\ toClient = <<>>
          /\ Len(fromClient) = 1
      BY <2>1, <2>4, NothingElseAsked
    <2>6. reqFrame.reply <= rspHandler.reply BY <2>1, <2>4, NoHandlerOwed
    <2>7. reqFrame.reply \in Nat /\ rspHandler.reply \in Nat BY <1>00, QueueTypes
    <2>8. fromClient' = <<>> BY <2>1, <2>2, <2>5
    <2>9. TokenIsLast' BY <2>1, <2>3, <2>5, <2>6, <2>7, <2>8 DEF TokenIsLast
    <2> QED BY <2>9 DEF FitInv
  <1>6. CASE ReadRequestFails BY <1>0, <1>6 DEF ReadRequestFails
  <1>7. CASE LocalHandshake
    <2>1. CASE req' = "returned" BY <1>0, <2>1
    <2>2. CASE req' # "returned"
      <3>1. req = "read" /\ fromClient # <<>> /\ UNCHANGED rspVars
        BY <1>7 DEF LocalHandshake, CanRead
      <3>2. reqFrame'.reply = reqFrame.reply /\ reqFrame'.slot = reqFrame.slot
        <4> DEFINE r == Head(fromClient)
        <4>1. reqFrame' = [reqFrame EXCEPT !.id = r.id, !.kind = r.kind]
          BY <1>7 DEF LocalHandshake
        <4>2. reqFrame \in Frame BY <1>00 DEF TypeOK
        <4> QED BY <4>1, <4>2 DEF Frame
      <3> HIDE DEF rspVars
      <3> QED BY <1>00, <3>1, <3>2, FitBusy
    <2> QED BY <2>1, <2>2
  <1>8. CASE LocalToken
    <2>1. req = "token" /\ fromClient # <<>> /\ UNCHANGED <<rspVars, reqFrame>>
      BY <1>8 DEF LocalToken, CanRead
    <2> HIDE DEF rspVars
    <2> QED BY <1>00, <2>1, FitBusy
  <1>9. CASE SendRequestKeyVersion BY <1>9, FitKept DEF SendRequestKeyVersion
  <1>10. CASE WriteRequest BY <1>10, FitKept DEF WriteRequest
  <1>11. CASE WriteRequestFails BY <1>0, <1>11 DEF WriteRequestFails
  <1>12. CASE PutNextResponseHandler BY <1>12, FitKept DEF PutNextResponseHandler
  <1>13. CASE RequestsLoopReturns BY <1>13, FitKept DEF RequestsLoopReturns
  <1>14. CASE RequestsLoopCloses BY <1>14, FitKept DEF RequestsLoopCloses
  <1> QED BY <1>1, <1>2, <1>3, <1>4, <1>5, <1>6, <1>7, <1>8, <1>9, <1>10, <1>11, <1>12,
             <1>13, <1>14 DEF RequestsLoop

LEMMA FitWriteResponse ==
  ASSUME IInv, QueueInv, FitInv, WriteResponse PROVE FitInv'
  <1>1. /\ rsp = "write" /\ rsp' = "handler"
        /\ UNCHANGED <<req, reqFrame, rspHandler, rspOpen, fromClient, await>>
    BY DEF WriteResponse, peers, reqVars
  <1>2. TypeOK /\ ~RspEnded BY <1>1 DEF IInv, RspEnded
  <1>3. Lag' = Lag BY <1>1 DEF Lag
  <1>4. CASE ReqEnded BY <1>1, <1>4 DEF FitInv, ReqEnded
  <1>5. CASE ~ReqEnded /\ Lag <= 0 BY <1>1, <1>3, <1>5 DEF FitInv
  <1>6. CASE ~ReqEnded /\ TokenIsLast
    <2>1. /\ reqFrame.reply \in Nat /\ reqFrame.slot \in Nat /\ rspFrame.reply \in Nat
          /\ rspHandler.reply \in Nat /\ rspOpen.slot \in Nat
      BY <1>2, QueueTypes
    <2>2. Base + reqFrame.reply <= 1 BY <1>2, <1>6 DEF QueueInv, ReadInv, TokenIsLast
    <2>3. Base = 0 - (rspFrame.reply - 1)
      <3>1. Len(toClient) = 0 BY <1>6 DEF TokenIsLast
      <3>2. Relays = rspFrame.reply - 1 BY <1>1, <2>1 DEF Relays, Num
      <3> QED BY <3>1, <3>2 DEF Base
    <2>4. rspHandler.reply = rspFrame.reply BY <1>1 DEF IInv, RspInv
    <2>5. reqFrame.slot >= rspOpen.slot
      <3>1. rspOpen.slot + Len(openRequests) = reqFrame.slot - Num(req = "push")
        BY <1>6 DEF IInv, OpenInv
      <3>2. Len(openRequests) \in Nat BY <1>2 DEF TypeOK
      <3>3. Num(req = "push") \in {0, 1} BY DEF Num
      <3> QED BY <2>1, <3>1, <3>2, <3>3
    <2>6. Lag <= 0 BY <2>1, <2>2, <2>3, <2>4, <2>5 DEF Lag
    <2> QED BY <1>1, <1>3, <2>6 DEF FitInv
  <1> QED BY <1>4, <1>5, <1>6 DEF FitInv

LEMMA FitResponsesLoop ==
  ASSUME IInv, QueueInv, FitInv, ResponsesLoop PROVE FitInv'
  <1> USE DEF sockets, peers, reqVars, RspEnded
  <1>0. /\ reqFrame.reply \in Nat /\ reqFrame.slot \in Nat
        /\ rspHandler.reply \in Nat /\ rspOpen.slot \in Nat
    BY QueueTypes DEF IInv
  <1>1. CASE GetNextResponseHandler
    <2>1. rspHandler'.reply = rspHandler.reply + 1 BY <1>1, HandlerTaken
    <2>2. /\ rsp' = "read" /\ UNCHANGED <<fromClient, toClient, await, req, reqFrame, rspOpen>>
      BY <1>1 DEF GetNextResponseHandler
    <2>3. Lag' = Lag - 1 /\ Lag \in Int
      <3>1. /\ Lag' = (reqFrame.reply - rspHandler'.reply) - (reqFrame.slot - rspOpen.slot)
            /\ Lag = (reqFrame.reply - rspHandler.reply) - (reqFrame.slot - rspOpen.slot)
        BY <2>2 DEF Lag
      <3> QED BY <1>0, <2>1, <3>1
    <2>4. TokenIsLast => TokenIsLast' BY <1>0, <2>1, <2>2 DEF TokenIsLast
    <2> QED BY <2>2, <2>3, <2>4 DEF FitInv, ReqEnded
  <1>2. CASE GetNextResponseHandlerTimeout
    BY <1>2, FitKept DEF GetNextResponseHandlerTimeout, ReqEnded
  <1>3. CASE ReadResponse
    <2>1. /\ rsp = "read" /\ rsp' = IF rspHandler.h = "default" THEN "pop" ELSE "write"
          /\ UNCHANGED <<fromClient, toClient, await, req, reqFrame, rspOpen, rspHandler>>
      BY <1>3 DEF ReadResponse
    <2>2. Lag' = Lag /\ (TokenIsLast => TokenIsLast') BY <2>1 DEF Lag, TokenIsLast
    <2> QED BY <2>1, <2>2 DEF FitInv, ReqEnded
  <1>4. CASE ReadResponseFails BY <1>4, FitKept DEF ReadResponseFails, ReqEnded
  <1>5. CASE ReceiveRequestKeyVersion
    <2>1. CASE openRequests # <<>>
      <3>1. /\ rsp = "pop" /\ rsp' = "write" /\ rspOpen' = Head(openRequests)
            /\ UNCHANGED <<fromClient, toClient, await, req, reqFrame, rspHandler>>
        BY <1>5, <2>1 DEF ReceiveRequestKeyVersion
      <3>2. rspOpen'.slot = rspOpen.slot + 1
        <4>1. openRequests \in Seq(Entry) BY DEF IInv, TypeOK
        <4>2. Head(openRequests) = openRequests[1] /\ 1 \in 1..Len(openRequests)
          BY <2>1, <4>1, TailAt
        <4> QED BY <3>1, <4>2 DEF IInv, OpenInv
      <3>3. Lag' = Lag + 1 /\ Lag \in Int BY <1>0, <3>1, <3>2 DEF Lag
      <3>4. TokenIsLast => TokenIsLast' BY <3>1 DEF TokenIsLast
      <3> QED BY <3>1, <3>3, <3>4 DEF FitInv, ReqEnded
    <2>2. CASE openRequests = <<>>
      BY <1>5, <2>2, FitKept DEF ReceiveRequestKeyVersion, ReqEnded
    <2> QED BY <2>1, <2>2
  <1>6. CASE WriteResponseFails BY <1>6, FitKept DEF WriteResponseFails, ReqEnded
  <1>7. CASE ResponsesLoopReturns BY <1>7, FitKept DEF ResponsesLoopReturns, ReqEnded
  <1>8. CASE ResponsesLoopCloses BY <1>8, FitKept DEF ResponsesLoopCloses, ReqEnded
  <1> QED BY <1>1, <1>2, <1>3, <1>4, <1>5, <1>6, <1>7, <1>8, FitWriteResponse
          DEF ResponsesLoop

LEMMA FitNext ==
  ASSUME IInv, TypeOK', QueueInv, LocalInv, UnansweredInv, FitInv, ~Pipelining, [Next]_vars
  PROVE  FitInv'
  <1> USE DEF sockets, peers, reqVars, rspVars, ReqEnded
  <1>1. CASE UNCHANGED vars BY <1>1, FitKept DEF vars
  <1>2. CASE ClientClose \/ BrokerClose \/ ConnSetClose \/ BrokerServe
    BY <1>2, FitKept DEF ClientClose, BrokerClose, ConnSetClose, BrokerServe
  <1> QED BY <1>1, <1>2, FitClient, FitRequestsLoop, FitResponsesLoop DEF Next, Environment

(* For a client that authenticates step by step a handler channel with one *)
(* place more than openRequests is enough: whatever MaxOpenRequests is,    *)
(* putNextHandlers finds room and its timeout never ends a connection.     *)
THEOREM ResponseHandlersFit ==
  ASSUME ~Pipelining
  PROVE  Spec => []ResponseHandlerFits
  <1>1. Init => UnansweredInv /\ FitInv
    <2> SUFFICES ASSUME Init PROVE UnansweredInv /\ FitInv
      OBVIOUS
    <2>1. /\ reqFrame.reply = 0 /\ reqFrame.slot = 0 /\ rspHandler.reply = 0
          /\ rspOpen.slot = 0 /\ rsp = "handler"
      BY DEF Init, NoFrame
    <2>2. Lag = 0 BY <2>1 DEF Lag
    <2> QED BY <2>1, <2>2 DEF UnansweredInv, FitInv
  <1>2. IInv /\ QueueInv /\ LocalInv /\ UnansweredInv /\ FitInv /\ IInv' /\ [Next]_vars
          => UnansweredInv' /\ FitInv'
    BY UnansweredNext, FitNext DEF IInv
  <1>3. IInv /\ FitInv => ResponseHandlerFits
    <2> SUFFICES ASSUME IInv, FitInv, req = "putRsp" PROVE Len(nextRsp) < ResponseHandlerCap
      BY DEF ResponseHandlerFits
    <2>1. TypeOK /\ ~ReqEnded BY DEF IInv, ReqEnded
    <2>2. /\ reqFrame.reply \in Nat /\ reqFrame.slot \in Nat
          /\ rspHandler.reply \in Nat /\ rspOpen.slot \in Nat
      BY <2>1, QueueTypes
    <2>3. /\ Len(nextRsp) \in Nat /\ Len(openRequests) \in Nat
          /\ Len(openRequests) <= MaxOpenRequests
      BY <2>1 DEF TypeOK
    <2>4. MaxOpenRequests \in Nat /\ MaxOpenRequests >= 1
      BY ConstAssumption DEF MaxOpenRequests
    <2>5. Unput BY <2>1 DEF IInv, ReqInv, Unput
    <2>6. rspHandler.reply + Len(nextRsp) = reqFrame.reply
      <3>1. rspHandler.reply + Len(nextRsp) = reqFrame.reply + Num(~Unput)
        BY <2>1 DEF IInv, HandlerInv
      <3>2. Num(~Unput) = 0 BY <2>5 DEF Num
      <3> QED BY <2>2, <3>1, <3>2
    <2>7. rspOpen.slot + Len(openRequests) = reqFrame.slot
      <3>1. rspOpen.slot + Len(openRequests) = reqFrame.slot - Num(req = "push")
        BY <2>1 DEF IInv, OpenInv
      <3>2. Num(req = "push") = 0 BY DEF Num
      <3> QED BY <2>2, <3>1, <3>2
    <2>8. CASE Lag <= 0
      BY <2>2, <2>3, <2>4, <2>6, <2>7, <2>8 DEF Lag, ResponseHandlerCap
    <2>9. CASE TokenIsLast
      <3>1. reqFrame.reply <= rspHandler.reply + 1 BY <2>9 DEF TokenIsLast
      <3> QED BY <2>2, <2>3, <2>4, <2>6, <3>1 DEF ResponseHandlerCap
    <2> QED BY <2>1, <2>8, <2>9 DEF FitInv
  <1>4. Spec => [](IInv /\ QueueInv /\ LocalInv) BY QueueAlways
  <1> QED BY <1>1, <1>2, <1>3, <1>4, PTL DEF Spec
=============================================================================
