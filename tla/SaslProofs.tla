----------------------------- MODULE SaslProofs ------------------------------
(***************************************************************************)
(* Proofs about Sasl, for every set of connections and of mechanisms.      *)
(*                                                                         *)
(* Connections share the configuration, which does not change, and SCRAM's *)
(* counter, whose value decides nothing; so the invariant is one about     *)
(* each connection on its own.  It says whose turn it is: what is on the   *)
(* wire between the client's place in the exchange and what the server     *)
(* expects, and that a server gets past a step of the exchange only as the *)
(* mechanism and the credentials allow.                                    *)
(***************************************************************************)
EXTENDS Sasl, SequenceTheorems, TLAPS

Unfit == creds # "good" \/ mech \notin authenticators \/ version = 3
Known == mech \in authenticators

(* The exchange of a client cl with mechanism m, frame by frame, and what  *)
(* the server expects as the s-th frame, and after it has granted it.      *)
Rounds(m) == IF m = "SCRAM" THEN 3 ELSE 2

Frame(m, cl, s) ==
  CASE m = "GSSAPI" -> "raw"
    [] m = "PLAIN" /\ cl = "proxy" -> IF s = 1 THEN "hs0" ELSE "raw"
    [] OTHER -> IF s = 1 THEN "hs1" ELSE "auth"

Expects(m, cl, s) ==
  CASE s = 1 -> "start"
    [] s = 3 \/ (s = 2 /\ m = "GSSAPI") -> "again"
    [] s = 2 /\ m = "PLAIN" /\ cl = "proxy" -> "v0"
    [] OTHER -> "v1"

After(m, cl, s) == IF s = Rounds(m) THEN "done" ELSE Expects(m, cl, s + 1)

(* The answer to a frame of the exchange.                                  *)
Answer(m, v, kind, corr, err) ==
  [kind |-> kind, corr |-> IF kind = "raw" THEN 0 ELSE corr,
   err |-> kind # "raw" /\ err, payload |-> kind = "raw" /\ m = "GSSAPI",
   flexible |-> kind = "auth" /\ v = 2]

Question(kind, corr) == [kind |-> kind, corr |-> corr]
Token    == Question("raw", 0)
Request  == Question("req", 0)
Response == Reply("req", 0, FALSE)

-----------------------------------------------------------------------------
(* Whose turn it is on connection c.  GSSAPI's second token has no answer. *)
Quiet(c) == toServer[c] = <<>> /\ toClient[c] = <<>>

(* The server is where the next frame finds it; only the local one gives   *)
(* up waiting for it.                                                      *)
Listens(v, expected, srvr) == v = expected \/ (v = "closed" /\ srvr = "local")

Asked(c) ==
  /\ toServer[c] = <<Question(Frame(mech, client, step[c]), seen[c])>> /\ toClient[c] = <<>>
  /\ Listens(srv[c], Expects(mech, client, step[c]), server)
  /\ mech = "GSSAPI" => step[c] = 1

Granted(c) ==
  /\ toServer[c] = <<>>
  /\ toClient[c] = <<Answer(mech, version, Frame(mech, client, step[c]), seen[c], FALSE)>>
  /\ Listens(srv[c], After(mech, client, step[c]), server)
  /\ srv[c] = "closed" => step[c] # Rounds(mech)
  /\ Known /\ (mech = "GSSAPI" => step[c] = 1)

Refused(c) ==
  /\ toServer[c] = <<>>
  /\ toClient[c] = <<Answer(mech, version, Frame(mech, client, step[c]), seen[c], TRUE)>>
  /\ srv[c] = "closed" /\ Unfit /\ Frame(mech, client, step[c]) # "raw"

(* GSSAPI's last token is still on its way.                                *)
TokenUnderWay(c) == mech = "GSSAPI" /\ srv[c] = "again" /\ toClient[c] = <<>>

Idle(c) == srv[c] = "done" /\ Quiet(c)

TurnInv(c) ==
  /\ pc[c] = "start" => Quiet(c) /\ srv[c] = "start" /\ step[c] = 1
  /\ pc[c] = "send" => Quiet(c) /\ Listens(srv[c], Expects(mech, client, step[c]), server)
  /\ pc[c] \in {"count", "wait"} =>
       Asked(c) \/ Granted(c) \/ Refused(c) \/ (Quiet(c) /\ ~Open(c))
  /\ pc[c] = "ok" =>
       /\ step[c] = Rounds(mech)
       /\ \/ Idle(c) \/ (TokenUnderWay(c) /\ toServer[c] = <<Token>>)
          \/ mech = "GSSAPI" /\ fault[c] # "none" /\ Quiet(c)
  /\ pc[c] = "used" =>
       /\ step[c] = Rounds(mech) /\ fault[c] = "none"
       /\ \/ srv[c] = "done" /\ toServer[c] = <<Request>> /\ toClient[c] = <<>>
          \/ TokenUnderWay(c) /\ toServer[c] = <<Token, Request>>
          \/ srv[c] = "done" /\ toServer[c] = <<>> /\ toClient[c] = <<Response>>
  /\ pc[c] = "served" => Idle(c) /\ step[c] = Rounds(mech)
  /\ pc[c] = "failed" => Quiet(c) \/ Asked(c) \/ Granted(c) \/ Refused(c)
  /\ pc[c] # "misled"

(* What the server's state says of the credentials.                        *)
ServerInv(c) ==
  /\ srv[c] \notin {"start", "closed"} => Known
  /\ srv[c] = "again" => server = "broker"
  /\ srv[c] = "done" => creds # "wrong"
  /\ accepted[c] <=> srv[c] = "done"
  /\ srv[c] = "closed" => Unfit \/ server = "local"
  /\ step[c] >= 2 => Known
  /\ mech = "GSSAPI" /\ pc[c] \notin {"start", "failed"} => creds # "wrong"

ReasonInv(c) ==
  /\ why[c] \notin {"correlation", "garbled"}
  /\ why[c] \in {"refused", "mechanism"} => Unfit
  /\ why[c] = "eof" => Unfit \/ fault[c] # "none" \/ server = "local"

ConnTypes(c) ==
  /\ pc[c] \in Pcs /\ why[c] \in Reasons /\ step[c] \in 1..Rounds(mech)
  /\ seen[c] \in Nat /\ deadline[c] \in BOOLEAN /\ accepted[c] \in BOOLEAN
  /\ srv[c] \in {"start", "v0", "v1", "again", "done", "closed"}
  /\ pc[c] = "count" => mech = "SCRAM"
  /\ mech # "SCRAM" => seen[c] = 0

ConnInv(c) == ConnTypes(c) /\ TurnInv(c) /\ ServerInv(c) /\ ReasonInv(c)

(* The configuration of the two sides.                                     *)
ConfigInv ==
  /\ mech \in Mechanisms /\ server \in {"local", "broker"} /\ client \in {"proxy", "kafka"}
  /\ client = "kafka" => server = "local" /\ mech \in {"PLAIN", "OAUTHBEARER"}
  /\ version \in 0..3 /\ (client = "proxy" => version = 0)
  /\ creds \in {"good", "wrong", "torn"}
  /\ server = "local" /\ Known => mech \in {"PLAIN", "OAUTHBEARER"}

SharedInv ==
  /\ correlationID \in Nat
  /\ pc = [c \in Conns |-> pc[c]] /\ step = [c \in Conns |-> step[c]]
  /\ seen = [c \in Conns |-> seen[c]] /\ deadline = [c \in Conns |-> deadline[c]]
  /\ why = [c \in Conns |-> why[c]] /\ srv = [c \in Conns |-> srv[c]]
  /\ accepted = [c \in Conns |-> accepted[c]] /\ fault = [c \in Conns |-> fault[c]]
  /\ toServer = [c \in Conns |-> toServer[c]] /\ toClient = [c \in Conns |-> toClient[c]]

IInv == ConfigInv /\ SharedInv /\ \A c \in Conns : ConnInv(c)

-----------------------------------------------------------------------------
(* A step of connection c leaves the others and the configuration alone.   *)
Same(d) ==
  /\ pc'[d] = pc[d] /\ step'[d] = step[d] /\ seen'[d] = seen[d]
  /\ deadline'[d] = deadline[d] /\ why'[d] = why[d] /\ srv'[d] = srv[d]
  /\ accepted'[d] = accepted[d] /\ fault'[d] = fault[d]
  /\ toServer'[d] = toServer[d] /\ toClient'[d] = toClient[d]

Touches(c) ==
  SharedInv' /\ UNCHANGED config /\ \A d \in Conns : d # c => Same(d)

(* The exchange, in the terms of the invariant.                            *)
LEMMA ExchangeShape ==
  ASSUME ConfigInv
  PROVE  /\ Len(Exchange) = Rounds(mech)
         /\ \A s \in 1..Rounds(mech) : Exchange[s] = Frame(mech, client, s)
  <1>1. mech \in AllMechanisms BY SaslAssumption DEF ConfigInv
  <1>2. CASE mech = "SCRAM"
    <2>1. Exchange = <<"hs1", "auth", "auth">>
      BY <1>2 DEF Exchange, ScramExchange, ConfigInv
    <2>2. \A s \in 1..3 : s = 1 \/ s = 2 \/ s = 3 OBVIOUS
    <2> QED BY <1>2, <2>1, <2>2 DEF Rounds, Frame
  <1>3. CASE mech # "SCRAM"
    <2>1. \A s \in 1..2 : s = 1 \/ s = 2 OBVIOUS
    <2>2. CASE mech = "GSSAPI"
      <3>1. Exchange = <<"raw", "raw">>
        BY <2>2 DEF Exchange, GssapiExchange, ConfigInv
      <3> QED BY <2>1, <2>2, <3>1 DEF Rounds, Frame
    <2>3. CASE mech = "PLAIN" /\ client = "proxy"
      <3>1. Exchange = <<"hs0", "raw">> BY <2>3 DEF Exchange, PlainExchange
      <3> QED BY <2>1, <2>3, <3>1 DEF Rounds, Frame
    <2>4. CASE mech # "GSSAPI" /\ ~(mech = "PLAIN" /\ client = "proxy")
      <3>1. Exchange = <<"hs1", "auth">>
        <4>1. CASE client = "kafka" BY <4>1 DEF Exchange
        <4>2. CASE mech = "OAUTHBEARER" /\ client # "kafka"
          BY <4>2 DEF Exchange, OAuthBearerExchange
        <4>3. CASE mech = "AWS_MSK_IAM" /\ client # "kafka"
          BY <4>3 DEF Exchange, IamExchange
        <4> QED BY <1>1, <1>3, <2>4, <4>1, <4>2, <4>3 DEF ConfigInv, AllMechanisms
      <3> QED BY <1>3, <2>1, <2>4, <3>1 DEF Rounds, Frame
    <2> QED BY <2>2, <2>3, <2>4
  <1> QED BY <1>2, <1>3

(* Wires with no more than two frames.                                     *)
LEMMA Wires ==
  ASSUME NEW x, NEW y
  PROVE  /\ Append(<<>>, x) = <<x>> /\ Append(<<y>>, x) = <<y, x>>
         /\ Head(<<x>>) = x /\ Tail(<<x>>) = <<>>
         /\ Head(<<y, x>>) = y /\ Tail(<<y, x>>) = <<x>>
         /\ <<>> \o <<x>> = <<x>>
         /\ <<x>> # <<>> /\ <<y, x>> # <<>>
         /\ Len(<<x>>) = 1 /\ Len(<<y, x>>) = 2
  <1>1. Append(<<>>, x) = <<x>> OBVIOUS
  <1>2. Append(<<y>>, x) = <<y, x>>
    <2>1. <<y>> \in Seq({x, y}) /\ <<y, x>> \in Seq({x, y}) /\ x \in {x, y} OBVIOUS
    <2>2. Append(<<y>>, x) \in Seq({x, y}) BY <2>1
    <2>3. Len(Append(<<y>>, x)) = 2 /\ Len(<<y, x>>) = 2 BY <2>1
    <2>4. \A i \in 1..2 : Append(<<y>>, x)[i] = <<y, x>>[i] BY <2>1
    <2> QED BY <2>1, <2>2, <2>3, <2>4, SeqEqual
  <1>3. Head(<<x>>) = x /\ Tail(<<x>>) = <<>> OBVIOUS
  <1>4. Head(<<y, x>>) = y /\ Tail(<<y, x>>) = <<x>> OBVIOUS
  <1>5. <<>> \o <<x>> = <<x>> OBVIOUS
  <1>6. <<x>> # <<>> /\ <<y, x>> # <<>> OBVIOUS
  <1>7. Len(<<x>>) = 1 /\ Len(<<y, x>>) = 2 OBVIOUS
  <1> QED BY <1>1, <1>2, <1>3, <1>4, <1>5, <1>6, <1>7

LEMMA OthersKept ==
  ASSUME NEW d \in Conns, ConnInv(d), Same(d), UNCHANGED config
  PROVE  ConnInv(d)'
  <1> USE DEF Same, config
  <1>1. ConnTypes(d)' BY DEF ConnInv, ConnTypes
  <1>2. Quiet(d)' <=> Quiet(d) BY DEF Quiet
  <1>3. Asked(d)' <=> Asked(d) BY DEF Asked
  <1>4. Granted(d)' <=> Granted(d) BY DEF Granted, Known
  <1>5. Refused(d)' <=> Refused(d) BY DEF Refused, Unfit
  <1>6. Open(d)' <=> Open(d) BY DEF Open
  <1>7. TokenUnderWay(d)' <=> TokenUnderWay(d) BY DEF TokenUnderWay
  <1>8. Idle(d)' <=> Idle(d) BY <1>2 DEF Idle
  <1>9. TurnInv(d)'
    BY <1>2, <1>3, <1>4, <1>5, <1>6, <1>7, <1>8 DEF ConnInv, TurnInv
  <1>10. ServerInv(d)' BY DEF ConnInv, ServerInv, Known, Unfit
  <1>11. ReasonInv(d)' BY DEF ConnInv, ReasonInv, Unfit
  <1> QED BY <1>1, <1>9, <1>10, <1>11 DEF ConnInv

LEMMA ConfigKept == ASSUME ConfigInv, UNCHANGED config PROVE ConfigInv'
  BY DEF ConfigInv, config, Known

(* It is enough to look at the connection that takes the step.             *)
LEMMA StepKeeps ==
  ASSUME IInv, NEW c \in Conns, Touches(c), ConnInv(c)' PROVE IInv'
  <1>1. ConfigInv' BY ConfigKept DEF IInv, Touches
  <1>2. ASSUME NEW d \in Conns PROVE ConnInv(d)'
    <2>1. CASE d = c BY <2>1
    <2>2. CASE d # c BY <2>2, OthersKept DEF IInv, Touches
    <2> QED BY <2>1, <2>2
  <1> QED BY <1>1, <1>2 DEF IInv, Touches

-----------------------------------------------------------------------------
(* Steps of the client.                                                    *)

(* The client gives up for a reason it may have.                           *)
LEMMA FailKeeps ==
  ASSUME IInv, NEW c \in Conns, NEW reason \in Reasons \ {"correlation", "garbled"},
         pc[c] \in {"start", "send", "count", "wait"}, Fail(c, reason),
         reason \in {"refused", "mechanism"} => Unfit,
         reason = "eof" => Unfit \/ fault[c] # "none" \/ server = "local",
         UNCHANGED <<config, correlationID, svars, fault, wires>>
  PROVE  IInv'
  <1> USE DEF config, svars, wires
  <1>1. /\ pc'[c] = "failed" /\ why'[c] = reason /\ step'[c] = step[c] /\ seen'[c] = seen[c]
        /\ deadline'[c] = deadline[c] /\ srv'[c] = srv[c] /\ accepted'[c] = accepted[c]
        /\ fault'[c] = fault[c] /\ toServer'[c] = toServer[c] /\ toClient'[c] = toClient[c]
    BY DEF Fail, IInv, SharedInv
  <1>2. Touches(c) BY DEF Fail, IInv, SharedInv, Touches, Same
  <1>3. ConnInv(c) BY DEF IInv
  <1>4. ConnTypes(c)' BY <1>1, <1>3 DEF ConnInv, ConnTypes, Pcs, Reasons
  <1>5. TurnInv(c)'
    <2>1. Quiet(c) \/ Asked(c) \/ Granted(c) \/ Refused(c) BY <1>3 DEF ConnInv, TurnInv
    <2>2. Quiet(c)' <=> Quiet(c) BY <1>1 DEF Quiet
    <2>3. Asked(c)' <=> Asked(c) BY <1>1 DEF Asked
    <2>4. Granted(c)' <=> Granted(c) BY <1>1 DEF Granted, Known
    <2>5. Refused(c)' <=> Refused(c) BY <1>1 DEF Refused, Unfit
    <2> QED BY <1>1, <2>1, <2>2, <2>3, <2>4, <2>5 DEF TurnInv
  <1>6. ServerInv(c)' BY <1>1, <1>3 DEF ConnInv, ServerInv, Known, Unfit
  <1>7. ReasonInv(c)' BY <1>1, <1>3 DEF ConnInv, ReasonInv, Unfit
  <1> QED BY <1>2, <1>4, <1>5, <1>6, <1>7, StepKeeps DEF ConnInv

(* A connection that is not open was closed by the server, or broke.       *)
LEMMA NotOpen ==
  ASSUME IInv, NEW c \in Conns, pc[c] # "failed", ~Open(c)
  PROVE  Unfit \/ fault[c] # "none" \/ server = "local"
  BY DEF IInv, ConnInv, ServerInv, Open

LEMMA GetCredentialsKeeps ==
  ASSUME IInv, NEW c \in Conns, GetCredentials(c) PROVE IInv'
  <1>1. CASE Fail(c, "credentials")
    <2>1. "credentials" \in Reasons \ {"correlation", "garbled"} BY DEF Reasons
    <2> QED BY <1>1, <2>1, FailKeeps DEF GetCredentials
  <1>2. CASE /\ pc' = [pc EXCEPT ![c] = "send"] /\ (mech = "GSSAPI" => creds # "wrong")
             /\ UNCHANGED <<step, seen, deadline, why>>
    <2> USE DEF config, svars, wires
    <2>1. /\ pc[c] = "start"
          /\ UNCHANGED <<config, correlationID, step, seen, deadline, why, svars, fault, wires>>
      BY <1>2 DEF GetCredentials
    <2>2. pc'[c] = "send" /\ Touches(c)
      BY <1>2, <2>1 DEF IInv, SharedInv, Touches, Same
    <2>3. ConnInv(c) BY DEF IInv
    <2>4. ConnTypes(c)' BY <2>1, <2>2, <2>3 DEF ConnInv, ConnTypes, Pcs
    <2>5. TurnInv(c)' BY <2>1, <2>2, <2>3 DEF ConnInv, TurnInv, Quiet, Expects, Listens
    <2>6. ServerInv(c)' BY <1>2, <2>1, <2>2, <2>3 DEF ConnInv, ServerInv, Known, Unfit
    <2>7. ReasonInv(c)' BY <2>1, <2>2, <2>3 DEF ConnInv, ReasonInv, Unfit
    <2> QED BY <2>2, <2>4, <2>5, <2>6, <2>7, StepKeeps DEF ConnInv
  <1> QED BY <1>1, <1>2 DEF GetCredentials, GetOAuthBearerToken, GetServiceTicket

LEMMA FailingKeeps ==
  ASSUME IInv, NEW c \in Conns, SignFails(c) \/ SendFails(c) \/ ReceiveFails(c) PROVE IInv'
  <1> USE DEF Reasons
  <1>1. CASE SignFails(c) BY <1>1, FailKeeps DEF SignFails
  <1>2. CASE SendFails(c) BY <1>2, FailKeeps, NotOpen DEF SendFails
  <1>3. CASE ReceiveFails(c)
    <2>1. CASE Fail(c, "timeout") BY <1>3, <2>1, FailKeeps DEF ReceiveFails
    <2>2. CASE (srv[c] = "closed" \/ fault[c] = "dropped") /\ Fail(c, "eof")
      <3>1. ~Open(c) BY <2>2 DEF Open
      <3> QED BY <1>3, <2>2, <3>1, FailKeeps, NotOpen DEF ReceiveFails
    <2> QED BY <1>3, <2>1, <2>2 DEF ReceiveFails
  <1> QED BY <1>1, <1>2, <1>3

(* The frame that is due goes out, unless the connection is gone.          *)
LEMMA SendKeeps ==
  ASSUME IInv, NEW c \in Conns, Send(c) PROVE IInv'
  <1> USE DEF config, svars
  <1> DEFINE kind == Frame(mech, client, step[c])
             corr == IF mech = "SCRAM" /\ kind = "auth" THEN correlationID ELSE 0
  <1>1. /\ ConfigInv /\ SharedInv /\ ConnInv(c) /\ pc[c] = "send"
        /\ step[c] \in 1..Rounds(mech) /\ Exchange[step[c]] = kind
    BY ExchangeShape DEF Send, IInv, ConnInv, ConnTypes
  <1>2. /\ UNCHANGED <<config, correlationID, step, why, svars, fault, toClient>>
        /\ seen' = [seen EXCEPT ![c] = corr]
        /\ pc' = [pc EXCEPT ![c] = IF mech = "SCRAM" THEN "count"
                                   ELSE IF mech = "GSSAPI" /\ step[c] = 2 THEN "ok" ELSE "wait"]
        /\ deadline' = [deadline EXCEPT ![c] = SetsReadDeadline /\ pc'[c] = "wait"]
        /\ toServer' = IF Open(c) THEN [toServer EXCEPT ![c] = Append(@, Question(kind, corr))]
                       ELSE toServer
    BY <1>1 DEF Send, Question
  <1>3. /\ toServer[c] = <<>> /\ toClient[c] = <<>>
        /\ Listens(srv[c], Expects(mech, client, step[c]), server)
    BY <1>1 DEF ConnInv, TurnInv, Quiet
  <1>4. corr \in Nat /\ (mech # "SCRAM" => corr = 0) BY DEF IInv, SharedInv
  <1>5. Touches(c)
    BY <1>1, <1>2 DEF SharedInv, Touches, Same
  <1>6. /\ seen'[c] = corr /\ step'[c] = step[c] /\ deadline'[c] \in BOOLEAN
        /\ pc'[c] = IF mech = "SCRAM" THEN "count"
                    ELSE IF mech = "GSSAPI" /\ step[c] = 2 THEN "ok" ELSE "wait"
        /\ toServer'[c] = IF Open(c) THEN <<Question(kind, corr)>> ELSE <<>>
        /\ toClient'[c] = <<>>
    BY <1>1, <1>2, <1>3, Wires DEF SharedInv
  <1> HIDE DEF corr, kind
  <1>7. ConnTypes(c)'
    BY <1>1, <1>2, <1>4, <1>6 DEF ConnInv, ConnTypes, Pcs
  <1>8. ServerInv(c)' BY <1>1, <1>2, <1>6 DEF ConnInv, ServerInv, Known, Unfit
  <1>9. ReasonInv(c)' BY <1>1, <1>2, <1>6 DEF ConnInv, ReasonInv, Unfit
  <1>10. Open(c)' <=> Open(c) BY <1>1, <1>2, <1>6 DEF Open
  <1>11. TurnInv(c)'
    <2>1. CASE mech = "GSSAPI" /\ step[c] = 2
      <3>1. pc'[c] = "ok" /\ kind = "raw" /\ step'[c] = Rounds(mech') /\ corr = 0
        BY <1>2, <1>4, <1>6, <2>1 DEF Rounds, Frame, kind
      <3>2. Expects(mech, client, step[c]) = "again" BY <2>1 DEF Expects
      <3>3. CASE Open(c)
        <4>1. srv'[c] = "again" BY <1>2, <1>3, <3>2, <3>3 DEF Open, Listens
        <4>2. toServer'[c] = <<Token>> BY <1>6, <3>1, <3>3 DEF Token
        <4> QED BY <1>2, <1>6, <2>1, <3>1, <4>1, <4>2 DEF TurnInv, TokenUnderWay
      <3>4. CASE ~Open(c)
        <4>1. Quiet(c)' BY <1>6, <3>4 DEF Quiet
        <4>2. fault'[c] # "none"
          BY <1>1, <1>2, <1>3, <2>1, <3>2, <3>4
             DEF Open, Listens, ConnInv, ServerInv, ConfigInv, Known
        <4> QED BY <1>2, <2>1, <3>1, <4>1, <4>2 DEF TurnInv
      <3> QED BY <3>3, <3>4
    <2>2. CASE ~(mech = "GSSAPI" /\ step[c] = 2)
      <3>1. pc'[c] \in {"count", "wait"} BY <1>6, <2>2
      <3>2. CASE Open(c)
        <4>1. Asked(c)'
          BY <1>1, <1>2, <1>3, <1>6, <2>2, <3>2 DEF Asked, kind, Rounds
        <4> QED BY <3>1, <4>1 DEF TurnInv
      <3>3. CASE ~Open(c)
        <4>1. Quiet(c)' /\ ~Open(c)' BY <1>6, <1>10, <3>3 DEF Quiet
        <4> QED BY <3>1, <4>1 DEF TurnInv
      <3> QED BY <3>2, <3>3
    <2> QED BY <2>1, <2>2
  <1> QED BY <1>5, <1>7, <1>8, <1>9, <1>11, StepKeeps DEF ConnInv

LEMMA CountKeeps ==
  ASSUME IInv, NEW c \in Conns, Count(c) PROVE IInv'
  <1> USE DEF config, svars, wires
  <1>1. /\ ConnInv(c) /\ SharedInv /\ pc[c] = "count" /\ pc' = [pc EXCEPT ![c] = "wait"]
        /\ UNCHANGED <<config, step, seen, deadline, why, svars, fault, wires>>
    BY DEF Count, IInv
  <1>2. correlationID' \in Nat
    BY <1>1 DEF Count, SharedInv, ConnInv, ConnTypes
  <1>3. pc'[c] = "wait" /\ Touches(c) BY <1>1, <1>2 DEF SharedInv, Touches, Same
  <1>4. ConnTypes(c)' BY <1>1, <1>3 DEF ConnInv, ConnTypes, Pcs
  <1>5. TurnInv(c)'
    <2>1. Asked(c) \/ Granted(c) \/ Refused(c) \/ (Quiet(c) /\ ~Open(c))
      BY <1>1 DEF ConnInv, TurnInv
    <2>2. Quiet(c)' <=> Quiet(c) BY <1>1 DEF Quiet
    <2>3. Asked(c)' <=> Asked(c) BY <1>1 DEF Asked
    <2>4. Granted(c)' <=> Granted(c) BY <1>1 DEF Granted, Known
    <2>5. Refused(c)' <=> Refused(c) BY <1>1 DEF Refused, Unfit
    <2>6. Open(c)' <=> Open(c) BY <1>1, <1>3 DEF Open
    <2> QED BY <1>3, <2>1, <2>2, <2>3, <2>4, <2>5, <2>6 DEF TurnInv
  <1>6. ServerInv(c)' BY <1>1, <1>3 DEF ConnInv, ServerInv, Known, Unfit
  <1>7. ReasonInv(c)' BY <1>1, <1>3 DEF ConnInv, ReasonInv, Unfit
  <1> QED BY <1>3, <1>4, <1>5, <1>6, <1>7, StepKeeps DEF ConnInv

(* The client reads an answer right: its kind, its layout, its number and  *)
(* its verdict; and leaves nothing of it on the wire.                      *)
LEMMA AnswerRead ==
  ASSUME ConfigInv, NEW c \in Conns, ConnTypes(c), NEW err \in BOOLEAN,
         Frame(mech, client, step[c]) = "raw" => ~err
  PROVE  LET f == Answer(mech, version, Frame(mech, client, step[c]), seen[c], err) IN
         /\ ~err => Verdict(c, f) = ""
         /\ err => Verdict(c, f) \in {"mechanism", "refused"}
         /\ Unread(f) = <<>>
  <1> DEFINE kind == Frame(mech, client, step[c])
             f == Answer(mech, version, kind, seen[c], err)
  <1>1. Exchange[step[c]] = kind /\ kind \in {"raw", "auth", "hs0", "hs1"}
    BY ExchangeShape DEF ConnTypes, Frame
  <1>2. /\ f.kind = kind /\ (f.corr = IF kind = "raw" THEN 0 ELSE seen[c])
        /\ f.err <=> (kind # "raw" /\ err)
        /\ f.payload <=> (kind = "raw" /\ mech = "GSSAPI")
        /\ f.flexible = (kind = "auth" /\ version = 2)
    BY DEF Answer
  <1> HIDE DEF f, kind
  <1>3. Unread(f) = <<>> BY <1>2 DEF Unread
  <1>4. CASE kind = "raw"
    <2>1. TokenVerdict(f) = "" BY <1>2, <1>4 DEF TokenVerdict
    <2>2. ~err BY <1>4 DEF kind
    <2> QED BY <1>1, <1>3, <1>4, <2>1, <2>2 DEF Verdict, f, kind
  <1>5. CASE kind = "auth"
    <2>1. Correlates(c, f) BY <1>2, <1>5 DEF Correlates
    <2>2. f.flexible = (version = 2) BY <1>2, <1>5
    <2>3. AuthenticateVerdict(c, f) = IF err THEN "refused" ELSE ""
      BY <1>2, <1>5, <2>1, <2>2 DEF AuthenticateVerdict
    <2> QED BY <1>1, <1>3, <1>5, <2>3 DEF Verdict, f, kind
  <1>6. CASE kind \in {"hs0", "hs1"}
    <2>1. HandshakeVerdict(kind, f) = IF err THEN "mechanism" ELSE ""
      BY <1>2, <1>6 DEF HandshakeVerdict
    <2> QED BY <1>1, <1>3, <1>6, <2>1 DEF Verdict, f, kind
  <1> QED BY <1>1, <1>4, <1>5, <1>6

LEMMA ReceiveKeeps ==
  ASSUME IInv, NEW c \in Conns, Receive(c) PROVE IInv'
  <1> USE DEF config, svars
  <1> DEFINE f == Head(toClient[c])
             answer(err) == Answer(mech, version, Frame(mech, client, step[c]), seen[c], err)
  <1>1. /\ ConfigInv /\ SharedInv /\ ConnInv(c) /\ pc[c] = "wait" /\ toClient[c] # <<>>
        /\ UNCHANGED <<config, correlationID, svars, fault, toServer>>
        /\ toClient' = [toClient EXCEPT ![c] = Unread(f) \o Tail(@)]
    BY DEF Receive, IInv
  <1>2. step[c] \in 1..Rounds(mech) /\ LastStep = Rounds(mech) /\ Rounds(mech) \in {2, 3}
    BY <1>1, ExchangeShape DEF ConnInv, ConnTypes, LastStep, Rounds
  <1>3. Granted(c) \/ Refused(c)
    BY <1>1 DEF ConnInv, TurnInv, Asked, Quiet
  <1>4. CASE Granted(c)
    <2>1. toClient[c] = <<answer(FALSE)>> /\ toServer[c] = <<>> BY <1>4 DEF Granted
    <2>2. f = answer(FALSE) /\ Tail(toClient[c]) = <<>> BY <2>1, Wires
    <2>3. Verdict(c, f) = "" /\ Unread(f) = <<>> BY <1>1, <2>2, AnswerRead DEF ConnInv
    <2>4. toClient'[c] = <<>> /\ toServer'[c] = <<>>
      <3>1. <<>> \o <<>> = <<>> OBVIOUS
      <3>2. Unread(f) \o Tail(toClient[c]) = <<>> BY <2>2, <2>3, <3>1
      <3>3. toClient'[c] = Unread(f) \o Tail(toClient[c]) BY <1>1 DEF SharedInv
      <3> QED BY <1>1, <2>1, <3>2, <3>3
    <2>5. /\ pc' = [pc EXCEPT ![c] = IF step[c] = LastStep THEN "ok" ELSE "send"]
          /\ step' = [step EXCEPT ![c] = IF step[c] = LastStep THEN @ ELSE @ + 1]
          /\ deadline' = [deadline EXCEPT ![c] = @ /\ step[c] # LastStep]
          /\ UNCHANGED <<seen, why>>
      BY <2>3 DEF Receive
    <2> HIDE DEF f
    <2>6. Touches(c) BY <1>1, <2>5 DEF SharedInv, Touches, Same
    <2>7. /\ pc'[c] = IF step[c] = Rounds(mech) THEN "ok" ELSE "send"
          /\ step'[c] = IF step[c] = Rounds(mech) THEN step[c] ELSE step[c] + 1
          /\ deadline'[c] \in BOOLEAN
      BY <1>1, <1>2, <2>5 DEF SharedInv
    <2>8. step'[c] \in 1..Rounds(mech) BY <1>2, <2>7
    <2>9. ConnTypes(c)' BY <1>1, <2>5, <2>7, <2>8 DEF ConnInv, ConnTypes, Pcs
    <2>10. Known BY <1>4 DEF Granted
    <2>11. ServerInv(c)' BY <1>1, <2>7, <2>10 DEF ConnInv, ServerInv, Known, Unfit
    <2>12. ReasonInv(c)' BY <1>1, <2>5 DEF ConnInv, ReasonInv, Unfit
    <2>13. TurnInv(c)'
      <3>1. Quiet(c)' BY <2>4 DEF Quiet
      <3>2. CASE step[c] = Rounds(mech)
        <4>1. srv[c] = "done" BY <1>4, <3>2 DEF Granted, Listens, After
        <4>2. Idle(c)' BY <1>1, <3>1, <4>1 DEF Idle
        <4> QED BY <1>1, <2>7, <3>2, <4>2 DEF TurnInv
      <3>3. CASE step[c] # Rounds(mech)
        <4>1. Listens(srv[c], Expects(mech, client, step'[c]), server)
          BY <1>4, <2>7, <3>3 DEF Granted, After
        <4> QED BY <1>1, <2>7, <3>1, <3>3, <4>1 DEF TurnInv
      <3> QED BY <3>2, <3>3
    <2> QED BY <2>6, <2>9, <2>11, <2>12, <2>13, StepKeeps DEF ConnInv
  <1>5. CASE Refused(c)
    <2>1. toClient[c] = <<answer(TRUE)>> /\ toServer[c] = <<>> BY <1>5 DEF Refused
    <2>2. f = answer(TRUE) /\ Tail(toClient[c]) = <<>> BY <2>1, Wires
    <2>3. Verdict(c, f) \in {"mechanism", "refused"} /\ Unread(f) = <<>>
      BY <1>1, <1>5, <2>2, AnswerRead DEF ConnInv, Refused
    <2>4. toClient'[c] = <<>> /\ toServer'[c] = <<>>
      <3>1. <<>> \o <<>> = <<>> OBVIOUS
      <3>2. Unread(f) \o Tail(toClient[c]) = <<>> BY <2>2, <2>3, <3>1
      <3>3. toClient'[c] = Unread(f) \o Tail(toClient[c]) BY <1>1 DEF SharedInv
      <3> QED BY <1>1, <2>1, <3>2, <3>3
    <2>5. Fail(c, Verdict(c, f)) BY <2>3 DEF Receive
    <2> HIDE DEF f
    <2>6. Touches(c) BY <1>1, <2>5 DEF Fail, SharedInv, Touches, Same
    <2>7. /\ pc'[c] = "failed" /\ why'[c] \in {"mechanism", "refused"}
          /\ step'[c] = step[c] /\ seen'[c] = seen[c] /\ deadline'[c] = deadline[c]
      BY <1>1, <2>3, <2>5 DEF Fail, SharedInv
    <2>8. ConnTypes(c)' BY <1>1, <2>7 DEF ConnInv, ConnTypes, Pcs, Reasons
    <2>9. ServerInv(c)' BY <1>1, <2>7 DEF ConnInv, ServerInv, Known, Unfit
    <2>10. ReasonInv(c)' BY <1>1, <1>5, <2>7 DEF Refused, ReasonInv, Unfit
    <2>11. TurnInv(c)' BY <2>4, <2>7 DEF TurnInv, Quiet
    <2> QED BY <2>6, <2>8, <2>9, <2>10, <2>11, StepKeeps DEF ConnInv
  <1> QED BY <1>3, <1>4, <1>5

LEMMA UseKeeps ==
  ASSUME IInv, NEW c \in Conns, Use(c) PROVE IInv'
  <1> USE DEF config, svars
  <1>1. /\ SharedInv /\ ConnInv(c) /\ pc[c] = "ok" /\ Open(c)
        /\ toServer' = [toServer EXCEPT ![c] = Append(@, Request)]
        /\ pc' = [pc EXCEPT ![c] = "used"]
        /\ UNCHANGED <<config, correlationID, step, seen, deadline, why, svars, fault, toClient>>
    BY DEF Use, IInv, Request, Question
  <1>2. /\ pc'[c] = "used" /\ toServer'[c] = Append(toServer[c], Request) /\ Touches(c)
    BY <1>1 DEF SharedInv, Touches, Same
  <1>3. ConnTypes(c)' BY <1>1, <1>2 DEF ConnInv, ConnTypes, Pcs
  <1>4. ServerInv(c)' BY <1>1, <1>2 DEF ConnInv, ServerInv, Known, Unfit
  <1>5. ReasonInv(c)' BY <1>1, <1>2 DEF ConnInv, ReasonInv, Unfit
  <1>6. TurnInv(c)'
    <2>1. step'[c] = Rounds(mech') /\ fault'[c] = "none"
      BY <1>1 DEF ConnInv, TurnInv, Open
    <2>2. CASE Idle(c)
      <3>1. toServer'[c] = <<Request>> BY <1>2, <2>2, Wires DEF Idle, Quiet
      <3> QED BY <1>1, <1>2, <2>1, <2>2, <3>1 DEF TurnInv, Idle, Quiet
    <2>3. CASE TokenUnderWay(c) /\ toServer[c] = <<Token>>
      <3>1. toServer'[c] = <<Token, Request>> BY <1>2, <2>3, Wires
      <3>2. TokenUnderWay(c)' BY <1>1, <2>3 DEF TokenUnderWay
      <3> QED BY <1>2, <2>1, <3>1, <3>2 DEF TurnInv
    <2> QED BY <1>1, <2>2, <2>3 DEF ConnInv, TurnInv, Open
  <1> QED BY <1>2, <1>3, <1>4, <1>5, <1>6, StepKeeps DEF ConnInv

LEMMA UseReceivesKeeps ==
  ASSUME IInv, NEW c \in Conns, UseReceives(c) PROVE IInv'
  <1> USE DEF config, svars
  <1>1. /\ SharedInv /\ ConnInv(c) /\ pc[c] = "used" /\ toClient[c] # <<>>
        /\ pc' = [pc EXCEPT ![c] = IF Head(toClient[c]).kind = "req" THEN "served" ELSE "misled"]
        /\ toClient' = [toClient EXCEPT ![c] = Tail(@)]
        /\ UNCHANGED <<config, correlationID, step, seen, deadline, why, svars, fault, toServer>>
    BY DEF UseReceives, IInv
  <1>2. /\ toServer[c] = <<>> /\ toClient[c] = <<Response>> /\ srv[c] = "done"
        /\ step[c] = Rounds(mech)
    BY <1>1 DEF ConnInv, TurnInv, TokenUnderWay
  <1>3. Head(toClient[c]).kind = "req" /\ Tail(toClient[c]) = <<>>
    BY <1>2, Wires DEF Response, Reply
  <1>4. pc'[c] = "served" /\ toClient'[c] = <<>> /\ Touches(c)
    BY <1>1, <1>3 DEF SharedInv, Touches, Same
  <1>5. ConnTypes(c)' BY <1>1, <1>4 DEF ConnInv, ConnTypes, Pcs
  <1>6. ServerInv(c)' BY <1>1, <1>4 DEF ConnInv, ServerInv, Known, Unfit
  <1>7. ReasonInv(c)' BY <1>1, <1>4 DEF ConnInv, ReasonInv, Unfit
  <1>8. TurnInv(c)' BY <1>1, <1>2, <1>4 DEF TurnInv, Idle, Quiet
  <1> QED BY <1>4, <1>5, <1>6, <1>7, <1>8, StepKeeps DEF ConnInv

LEMMA BreaksKeeps ==
  ASSUME IInv, NEW c \in Conns, Breaks(c) PROVE IInv'
  <1> USE DEF config, cvars, svars, wires
  <1>1. /\ SharedInv /\ ConnInv(c) /\ pc[c] \in {"send", "count", "wait"}
        /\ UNCHANGED <<config, correlationID, cvars, svars, wires>>
        /\ fault' \in {[fault EXCEPT ![c] = "dropped"], [fault EXCEPT ![c] = "silent"]}
    BY DEF Breaks, IInv
  <1>2. fault'[c] # "none" /\ Touches(c) BY <1>1 DEF SharedInv, Touches, Same
  <1>3. ConnTypes(c)' BY <1>1 DEF ConnInv, ConnTypes
  <1>4. ServerInv(c)' BY <1>1 DEF ConnInv, ServerInv, Known, Unfit
  <1>5. ReasonInv(c)' BY <1>1, <1>2 DEF ConnInv, ReasonInv, Unfit
  <1>6. TurnInv(c)'
    <2>1. Quiet(c)' <=> Quiet(c) BY <1>1 DEF Quiet
    <2>2. Asked(c)' <=> Asked(c) BY <1>1 DEF Asked
    <2>3. Granted(c)' <=> Granted(c) BY <1>1 DEF Granted, Known
    <2>4. Refused(c)' <=> Refused(c) BY <1>1 DEF Refused, Unfit
    <2>5. ~Open(c)' BY <1>2 DEF Open
    <2> QED BY <1>1, <2>1, <2>2, <2>3, <2>4, <2>5 DEF ConnInv, TurnInv
  <1> QED BY <1>2, <1>3, <1>4, <1>5, <1>6, StepKeeps DEF ConnInv

-----------------------------------------------------------------------------
(* Steps of the server.                                                    *)
LEMMA AnswersSlice ==
  ASSUME IInv, NEW c \in Conns, NEW reply, NEW next, Answers(c, reply, next)
  PROVE  /\ Touches(c) /\ toServer'[c] = Tail(toServer[c])
         /\ toClient'[c] = toClient[c] \o reply /\ srv'[c] = next
         /\ accepted'[c] = (accepted[c] \/ next = "done")
         /\ UNCHANGED <<config, correlationID, pc, step, seen, deadline, why, fault>>
  BY DEF Answers, IInv, SharedInv, Touches, Same, config, cvars

(* The frame that is due is answered: granted, refused, or the connection  *)
(* is closed on it.                                                        *)
LEMMA AnswersKeep ==
  ASSUME IInv, NEW c \in Conns, pc[c] \in {"count", "wait", "failed"}, Asked(c),
         srv[c] # "closed", NEW reply, NEW next, Answers(c, reply, next),
         LET kind == Frame(mech, client, step[c]) IN
         \/ /\ reply = <<Answer(mech, version, kind, seen[c], FALSE)>>
            /\ next = After(mech, client, step[c]) /\ Known
            /\ next = "done" => creds # "wrong"
            /\ next = "again" => server = "broker"
         \/ /\ reply = <<Answer(mech, version, kind, seen[c], TRUE)>>
            /\ next = "closed" /\ Unfit /\ kind # "raw"
         \/ reply = <<>> /\ next = "closed" /\ (Unfit \/ server = "local")
  PROVE  IInv'
  <1> USE DEF config
  <1>1. /\ Touches(c) /\ toServer'[c] = Tail(toServer[c])
        /\ toClient'[c] = toClient[c] \o reply /\ srv'[c] = next
        /\ accepted'[c] = (accepted[c] \/ next = "done")
        /\ UNCHANGED <<config, correlationID, pc, step, seen, deadline, why, fault>>
    BY AnswersSlice
  <1>2. ConnInv(c) /\ step[c] \in 1..Rounds(mech) /\ Rounds(mech) \in {2, 3}
    BY DEF IInv, ConnInv, ConnTypes, Rounds
  <1>3. After(mech, client, step[c]) \in {"v0", "v1", "again", "done"}
    BY <1>2 DEF After, Expects
  <1>4. srv[c] # "done" /\ ~accepted[c]
    BY <1>2 DEF Asked, Listens, Expects, ConnInv, ServerInv
  <1>5. toServer'[c] = <<>> BY <1>1, Wires DEF Asked
  <1>6. toClient'[c] = reply
    <2>1. toClient[c] = <<>> BY DEF Asked
    <2>2. <<>> \o <<>> = <<>> OBVIOUS
    <2> QED BY <1>1, <2>1, <2>2, Wires
  <1>7. next \in {"v0", "v1", "again", "done", "closed"} BY <1>3
  <1>8. ConnTypes(c)' BY <1>1, <1>2, <1>7 DEF ConnInv, ConnTypes
  <1>9. accepted'[c] <=> next = "done" BY <1>1, <1>4
  <1>10. ServerInv(c)'
    <2>1. next # "closed" => Known BY <1>3
    <2>2. next = "again" => server = "broker" OBVIOUS
    <2>3. next = "done" => creds # "wrong" OBVIOUS
    <2>4. next = "closed" => Unfit \/ server = "local" BY <1>3
    <2> QED BY <1>1, <1>2, <1>9, <2>1, <2>2, <2>3, <2>4
            DEF ConnInv, ServerInv, Known, Unfit
  <1>11. ReasonInv(c)' BY <1>1, <1>2 DEF ConnInv, ReasonInv, Unfit
  <1>12. TurnInv(c)'
    <2>1. CASE /\ reply = <<Answer(mech, version, Frame(mech, client, step[c]), seen[c], FALSE)>>
               /\ next = After(mech, client, step[c]) /\ Known
      <3>1. Granted(c)'
        BY <1>1, <1>3, <1>5, <1>6, <2>1 DEF Granted, Listens, Known, Asked
      <3> QED BY <1>1, <3>1 DEF TurnInv
    <2>2. CASE /\ reply = <<Answer(mech, version, Frame(mech, client, step[c]), seen[c], TRUE)>>
               /\ next = "closed" /\ Unfit /\ Frame(mech, client, step[c]) # "raw"
      <3>1. Refused(c)' BY <1>1, <1>5, <1>6, <2>2 DEF Refused, Unfit
      <3> QED BY <1>1, <3>1 DEF TurnInv
    <2>3. CASE reply = <<>> /\ next = "closed"
      <3>1. Quiet(c)' /\ ~Open(c)' BY <1>1, <1>5, <1>6, <2>3 DEF Quiet, Open
      <3> QED BY <1>1, <3>1 DEF TurnInv
    <2> QED BY <2>1, <2>2, <2>3
  <1> QED BY <1>1, <1>8, <1>10, <1>11, <1>12, StepKeeps DEF ConnInv

(* A frame a server is about to take is the one that is due, the token     *)
(* GSSAPI sends last, or the first request.                                *)
LEMMA WhatIsServed ==
  ASSUME IInv, NEW c \in Conns, toServer[c] # <<>>
  PROVE  \/ Asked(c) /\ pc[c] \in {"count", "wait", "failed"}
         \/ TokenUnderWay(c) /\ pc[c] = "ok" /\ toServer[c] = <<Token>>
         \/ TokenUnderWay(c) /\ pc[c] = "used" /\ toServer[c] = <<Token, Request>>
         \/ /\ srv[c] = "done" /\ pc[c] = "used" /\ toServer[c] = <<Request>>
            /\ toClient[c] = <<>>
  <1>1. ConnInv(c) BY DEF IInv
  <1>2. pc[c] \in Pcs BY <1>1 DEF ConnInv, ConnTypes
  <1> QED BY <1>1, <1>2 DEF ConnInv, TurnInv, Quiet, Granted, Refused, Idle, Pcs

LEMMA LocalTimesOutKeeps ==
  ASSUME IInv, NEW c \in Conns, LocalTimesOut(c) PROVE IInv'
  <1> USE DEF config, cvars, wires
  <1>1. /\ SharedInv /\ ConnInv(c) /\ server = "local" /\ srv[c] \in {"v0", "v1"}
        /\ srv' = [srv EXCEPT ![c] = "closed"]
        /\ UNCHANGED <<config, correlationID, cvars, accepted, fault, wires>>
    BY DEF LocalTimesOut, IInv
  <1>2. srv'[c] = "closed" /\ Touches(c) BY <1>1 DEF SharedInv, Touches, Same
  <1>3. ConnTypes(c)' BY <1>1, <1>2 DEF ConnInv, ConnTypes
  <1>4. ServerInv(c)' BY <1>1, <1>2 DEF ConnInv, ServerInv, Known, Unfit
  <1>5. ReasonInv(c)' BY <1>1 DEF ConnInv, ReasonInv, Unfit
  <1>6. TurnInv(c)'
    <2>1. Quiet(c)' <=> Quiet(c) BY <1>1 DEF Quiet
    <2>2. Asked(c) => Asked(c)' BY <1>1, <1>2 DEF Asked, Listens
    <2>3. Granted(c) => Granted(c)'
      BY <1>1, <1>2 DEF Granted, Listens, After, Known
    <2>4. ~Refused(c) BY <1>1 DEF Refused
    <2>5. ~Open(c)' BY <1>2 DEF Open
    <2>6. ~TokenUnderWay(c) /\ ~Idle(c) BY <1>1 DEF TokenUnderWay, Idle
    <2> QED BY <1>1, <1>2, <2>1, <2>2, <2>3, <2>4, <2>5, <2>6 DEF ConnInv, TurnInv, Listens
  <1> QED BY <1>2, <1>3, <1>4, <1>5, <1>6, StepKeeps DEF ConnInv

(* The servers' answers are those the invariant speaks of.                 *)
LEMMA AnswerForms ==
  ASSUME NEW corr, NEW err \in BOOLEAN, NEW hs \in {"hs0", "hs1"}
  PROVE  /\ HandshakeReply(hs, corr, err) = Answer(mech, version, hs, corr, err)
         /\ AuthenticateReply(corr, err) = Answer(mech, version, "auth", corr, err)
         /\ mech = "GSSAPI" => TokenReply(TRUE) = Answer(mech, version, "raw", corr, FALSE)
         /\ mech # "GSSAPI" => TokenReply(FALSE) = Answer(mech, version, "raw", corr, FALSE)
  <1>1. HandshakeReply(hs, corr, err) = Answer(mech, version, hs, corr, err)
    BY DEF HandshakeReply, Reply, Answer
  <1>2. AuthenticateReply(corr, err)
          = [kind |-> "auth", corr |-> corr, err |-> err, payload |-> FALSE, flexible |-> version = 2]
    <2> DEFINE flexible == version = 2
    <2>1. AuthenticateReply(corr, err) = [Reply("auth", corr, err) EXCEPT !.flexible = flexible]
      BY DEF AuthenticateReply
    <2> HIDE DEF flexible
    <2>2. \A e, p, f :
            [[kind |-> "auth", corr |-> corr, err |-> e, payload |-> p, flexible |-> f]
               EXCEPT !.flexible = flexible]
              = [kind |-> "auth", corr |-> corr, err |-> e, payload |-> p, flexible |-> flexible]
      OBVIOUS
    <2>3. AuthenticateReply(corr, err)
            = [kind |-> "auth", corr |-> corr, err |-> err, payload |-> FALSE, flexible |-> flexible]
      BY <2>1, <2>2 DEF Reply
    <2> QED BY <2>3 DEF flexible
  <1>3. Answer(mech, version, "auth", corr, err)
          = [kind |-> "auth", corr |-> corr, err |-> err, payload |-> FALSE, flexible |-> version = 2]
    BY DEF Answer
  <1>4. ASSUME NEW p \in BOOLEAN
        PROVE  TokenReply(p)
                 = [kind |-> "raw", corr |-> 0, err |-> FALSE, payload |-> p, flexible |-> FALSE]
    <2>1. \A e, q, f :
            [[kind |-> "raw", corr |-> 0, err |-> e, payload |-> q, flexible |-> f] EXCEPT !.payload = p]
              = [kind |-> "raw", corr |-> 0, err |-> e, payload |-> p, flexible |-> f]
      OBVIOUS
    <2> QED BY <2>1 DEF TokenReply, Reply
  <1>5. ASSUME mech = "GSSAPI"
        PROVE  Answer(mech, version, "raw", corr, FALSE)
                 = [kind |-> "raw", corr |-> 0, err |-> FALSE, payload |-> TRUE, flexible |-> FALSE]
    BY <1>5 DEF Answer
  <1>6. ASSUME mech # "GSSAPI"
        PROVE  Answer(mech, version, "raw", corr, FALSE)
                 = [kind |-> "raw", corr |-> 0, err |-> FALSE, payload |-> FALSE, flexible |-> FALSE]
    BY <1>6 DEF Answer
  <1> QED BY <1>1, <1>2, <1>3, <1>4, <1>5, <1>6

(* A frame that is due, and the place in the exchange it is due at.        *)
LEMMA DueFrame ==
  ASSUME IInv, NEW c \in Conns, Asked(c), srv[c] # "closed"
  PROVE  /\ step[c] \in 1..Rounds(mech)
         /\ Head(toServer[c]).kind = Frame(mech, client, step[c])
         /\ Head(toServer[c]).corr = seen[c]
         /\ srv[c] = Expects(mech, client, step[c])
         /\ step[c] >= 2 => Known
         /\ mech = "GSSAPI" => step[c] = 1
  <1>1. Head(toServer[c]) = Question(Frame(mech, client, step[c]), seen[c])
    BY Wires DEF Asked
  <1> QED BY <1>1 DEF Question, Asked, Listens, IInv, ConnInv, ConnTypes, ServerInv

LEMMA ReceiveHandshakeKeeps ==
  ASSUME IInv, NEW c \in Conns, ReceiveHandshake(c) PROVE IInv'
  <1> DEFINE f == Head(toServer[c])
  <1>1. /\ server = "local" /\ srv[c] = "start" /\ toServer[c] # <<>>
    BY DEF ReceiveHandshake, Serving
  <1>2. Asked(c) /\ pc[c] \in {"count", "wait", "failed"}
    BY <1>1, WhatIsServed DEF TokenUnderWay
  <1>3. /\ f.kind = Frame(mech, client, step[c]) /\ f.corr = seen[c] /\ step[c] = 1
    BY <1>1, <1>2, DueFrame DEF Expects, Rounds
  <1> HIDE DEF f
  <1>4. CASE f.kind \in {"hs0", "hs1"} /\ Known
    <2>1. Answers(c, <<HandshakeReply(f.kind, f.corr, FALSE)>>,
                  IF f.kind = "hs0" THEN "v0" ELSE "v1")
      BY <1>4 DEF ReceiveHandshake, Known, f
    <2>2. HandshakeReply(f.kind, f.corr, FALSE)
            = Answer(mech, version, Frame(mech, client, step[c]), seen[c], FALSE)
      BY <1>3, <1>4, AnswerForms
    <2>3. (IF f.kind = "hs0" THEN "v0" ELSE "v1") = After(mech, client, step[c])
      BY <1>3, <1>4 DEF Frame, After, Expects, Rounds
    <2> QED BY <1>1, <1>2, <1>4, <2>1, <2>2, <2>3, AnswersKeep
  <1>5. CASE f.kind \in {"hs0", "hs1"} /\ ~Known
    <2>1. Answers(c, <<HandshakeReply(f.kind, f.corr, TRUE)>>, "closed")
      BY <1>5 DEF ReceiveHandshake, Known, f
    <2>2. HandshakeReply(f.kind, f.corr, TRUE)
            = Answer(mech, version, Frame(mech, client, step[c]), seen[c], TRUE)
      BY <1>3, <1>5, AnswerForms
    <2>3. Unfit /\ Frame(mech, client, step[c]) # "raw" BY <1>3, <1>5 DEF Known, Unfit
    <2> QED BY <1>1, <1>2, <2>1, <2>2, <2>3, AnswersKeep
  <1>6. CASE f.kind \notin {"hs0", "hs1"}
    <2>1. Answers(c, <<>>, "closed") BY <1>6 DEF ReceiveHandshake, f
    <2> QED BY <1>1, <1>2, <2>1, AnswersKeep
  <1> QED BY <1>4, <1>5, <1>6

LEMMA ReceiveAuthKeeps ==
  ASSUME IInv, NEW c \in Conns, ReceiveAuthV0(c) \/ ReceiveAuthV1(c) PROVE IInv'
  <1> DEFINE f == Head(toServer[c])
  <1>1. server = "local" /\ srv[c] \in {"v0", "v1"} /\ toServer[c] # <<>>
    BY DEF ReceiveAuthV0, ReceiveAuthV1, Serving
  <1>2. Asked(c) /\ pc[c] \in {"count", "wait", "failed"}
    BY <1>1, WhatIsServed DEF TokenUnderWay
  <1>3. /\ step[c] = 2 /\ srv[c] = Expects(mech, client, 2) /\ Known
        /\ f.kind = Frame(mech, client, 2) /\ f.corr = seen[c]
    BY <1>1, <1>2, DueFrame DEF Expects, Rounds
  <1>4. mech \in {"PLAIN", "OAUTHBEARER"} BY <1>1, <1>3 DEF IInv, ConfigInv
  <1>5. After(mech, client, step[c]) = "done" BY <1>3, <1>4 DEF After, Rounds
  <1>6. /\ DoLocalAuth => creds # "wrong"
        /\ ~DoLocalAuth => Unfit
    BY DEF DoLocalAuth, LocalSaslPlain, LocalSaslOauth, Unfit, IInv, ConfigInv
  <1> HIDE DEF f
  <1>7. CASE Answers(c, <<>>, "closed") BY <1>1, <1>2, <1>7, AnswersKeep
  <1>8. CASE ReceiveAuthV0(c) /\ DoLocalAuth
    <2>1. Answers(c, <<TokenReply(FALSE)>>, "done") BY <1>8 DEF ReceiveAuthV0
    <2>2. srv[c] = "v0" BY <1>8 DEF ReceiveAuthV0, Serving
    <2>3. Frame(mech, client, 2) = "raw" BY <1>3, <1>4, <2>2 DEF Expects, Frame
    <2>4. TokenReply(FALSE) = Answer(mech, version, Frame(mech, client, step[c]), seen[c], FALSE)
      BY <1>3, <1>4, <2>3, AnswerForms
    <2> QED BY <1>1, <1>2, <1>3, <1>5, <1>6, <1>8, <2>1, <2>4, AnswersKeep
  <1>9. CASE /\ ReceiveAuthV1(c) /\ DoLocalAuth
             /\ f.kind = "auth" /\ version \in 0..2
    <2>1. Answers(c, <<AuthenticateReply(f.corr, FALSE)>>, "done")
      BY <1>9 DEF ReceiveAuthV1, f
    <2>2. AuthenticateReply(f.corr, FALSE)
            = Answer(mech, version, Frame(mech, client, step[c]), seen[c], FALSE)
      BY <1>3, <1>9, AnswerForms
    <2> QED BY <1>1, <1>2, <1>3, <1>5, <1>6, <1>9, <2>1, <2>2, AnswersKeep
  <1>10. CASE /\ ReceiveAuthV1(c) /\ ~DoLocalAuth
              /\ f.kind = "auth" /\ version \in 0..2
    <2>1. Answers(c, <<AuthenticateReply(f.corr, TRUE)>>, "closed")
      BY <1>10 DEF ReceiveAuthV1, f
    <2>2. AuthenticateReply(f.corr, TRUE)
            = Answer(mech, version, Frame(mech, client, step[c]), seen[c], TRUE)
      BY <1>3, <1>10, AnswerForms
    <2> QED BY <1>1, <1>2, <1>3, <1>6, <1>10, <2>1, <2>2, AnswersKeep
  <1> QED BY <1>7, <1>8, <1>9, <1>10 DEF ReceiveAuthV0, ReceiveAuthV1, f

(* The broker's verdict.                                                   *)
ValidAtBroker == creds = "good" \/ (creds = "torn" /\ mech \notin {"PLAIN", "OAUTHBEARER"})

LEMMA BrokerStepKeeps ==
  ASSUME IInv, NEW c \in Conns, BrokerStep(c) PROVE IInv'
  <1> DEFINE f == Head(toServer[c])
             first == mech \in {"SCRAM", "GSSAPI"} /\ srv[c] # "again"
             ok == (first /\ mech = "SCRAM") \/ ValidAtBroker
  <1>1. /\ server = "broker" /\ srv[c] \in {"start", "v0", "v1", "again"} /\ toServer[c] # <<>>
    BY DEF BrokerStep, Serving
  <1>2. /\ ValidAtBroker => creds # "wrong"
        /\ ~ValidAtBroker => Unfit
        /\ mech = "GSSAPI" /\ creds # "wrong" => ValidAtBroker
    BY DEF ValidAtBroker, Unfit, IInv, ConfigInv
  <1>3. /\ f.kind \in {"hs0", "hs1"} =>
             Answers(c, <<HandshakeReply(f.kind, f.corr, ~Known)>>,
                     IF ~Known THEN "closed" ELSE IF f.kind = "hs0" THEN "v0" ELSE "v1")
        /\ f.kind = "auth" =>
             Answers(c, <<AuthenticateReply(f.corr, ~ok)>>,
                     IF ~ok THEN "closed" ELSE IF first THEN "again" ELSE "done")
        /\ f.kind = "raw" /\ mech = "GSSAPI" /\ Known /\ ValidAtBroker =>
             IF first THEN Answers(c, <<TokenReply(TRUE)>>, "again")
             ELSE Answers(c, <<>>, "done")
        /\ f.kind = "raw" /\ mech = "PLAIN" /\ ValidAtBroker =>
             Answers(c, <<TokenReply(FALSE)>>, "done")
        /\ f.kind = "raw" /\ ~(mech = "GSSAPI" /\ Known /\ ValidAtBroker)
                          /\ ~(mech = "PLAIN" /\ ValidAtBroker) => Answers(c, <<>>, "closed")
    BY DEF BrokerStep, Known, ValidAtBroker
  <1>4. CASE Asked(c) /\ pc[c] \in {"count", "wait", "failed"}
    <2> DEFINE kind == Frame(mech, client, step[c])
    <2>1. /\ f.kind = kind /\ f.corr = seen[c] /\ step[c] \in 1..Rounds(mech)
          /\ srv[c] = Expects(mech, client, step[c])
          /\ step[c] >= 2 => Known
          /\ mech = "GSSAPI" => step[c] = 1
      BY <1>1, <1>4, DueFrame
    <2>2. kind \in {"hs0", "hs1", "auth", "raw"} BY DEF Frame
    <2> HIDE DEF f, first, ok
    <2>3. CASE kind \in {"hs0", "hs1"}
      <3>1. step[c] = 1 /\ mech # "GSSAPI" BY <2>1, <2>3 DEF Frame
      <3>2. CASE Known
        <4>1. Answers(c, <<HandshakeReply(f.kind, f.corr, FALSE)>>,
                      IF f.kind = "hs0" THEN "v0" ELSE "v1")
          BY <1>3, <2>1, <2>3, <3>2
        <4>2. HandshakeReply(f.kind, f.corr, FALSE) = Answer(mech, version, kind, seen[c], FALSE)
          BY <2>1, <2>3, AnswerForms
        <4>3. (IF f.kind = "hs0" THEN "v0" ELSE "v1") = After(mech, client, step[c])
          BY <2>1, <2>3, <3>1 DEF Frame, After, Expects, Rounds
        <4> QED BY <1>1, <1>4, <3>2, <4>1, <4>2, <4>3, AnswersKeep
      <3>3. CASE ~Known
        <4>1. Answers(c, <<HandshakeReply(f.kind, f.corr, TRUE)>>, "closed")
          BY <1>3, <2>1, <2>3, <3>3
        <4>2. HandshakeReply(f.kind, f.corr, TRUE) = Answer(mech, version, kind, seen[c], TRUE)
          BY <2>1, <2>3, AnswerForms
        <4>3. Unfit /\ kind # "raw" BY <2>3, <3>3 DEF Known, Unfit
        <4> QED BY <1>1, <1>4, <4>1, <4>2, <4>3, AnswersKeep
      <3> QED BY <3>2, <3>3
    <2>4. CASE kind = "auth"
      <3>1. step[c] \in {2, 3} /\ mech # "GSSAPI" /\ Known
        BY <2>1, <2>4 DEF Frame, Rounds
      <3>2. CASE ok
        <4>1. Answers(c, <<AuthenticateReply(f.corr, FALSE)>>, IF first THEN "again" ELSE "done")
          BY <1>3, <2>1, <2>4, <3>2
        <4>2. AuthenticateReply(f.corr, FALSE) = Answer(mech, version, kind, seen[c], FALSE)
          BY <2>1, <2>4, AnswerForms
        <4>3. first <=> mech = "SCRAM" /\ step[c] = 2
          BY <2>1, <2>4, <3>1 DEF first, Expects, Frame
        <4>4. (IF first THEN "again" ELSE "done") = After(mech, client, step[c])
          BY <2>1, <3>1, <4>3 DEF After, Expects, Rounds
        <4>5. ~first => creds # "wrong" BY <1>2, <3>2 DEF ok
        <4> QED BY <1>1, <1>4, <3>1, <4>1, <4>2, <4>4, <4>5, AnswersKeep
      <3>3. CASE ~ok
        <4>1. Answers(c, <<AuthenticateReply(f.corr, TRUE)>>, "closed")
          BY <1>3, <2>1, <2>4, <3>3
        <4>2. AuthenticateReply(f.corr, TRUE) = Answer(mech, version, kind, seen[c], TRUE)
          BY <2>1, <2>4, AnswerForms
        <4>3. Unfit /\ kind # "raw" BY <1>2, <2>4, <3>3 DEF ok
        <4> QED BY <1>1, <1>4, <4>1, <4>2, <4>3, AnswersKeep
      <3> QED BY <3>2, <3>3
    <2>5. CASE kind = "raw"
      <3>1. CASE mech = "GSSAPI" /\ Known /\ ValidAtBroker
        <4>1. step[c] = 1 /\ first BY <2>1, <3>1 DEF first, Expects
        <4>2. Answers(c, <<TokenReply(TRUE)>>, "again") BY <1>3, <2>1, <2>5, <3>1, <4>1
        <4>3. TokenReply(TRUE) = Answer(mech, version, kind, seen[c], FALSE)
          BY <2>5, <3>1, AnswerForms
        <4>4. After(mech, client, step[c]) = "again" BY <3>1, <4>1 DEF After, Expects, Rounds
        <4> QED BY <1>1, <1>4, <3>1, <4>2, <4>3, <4>4, AnswersKeep
      <3>2. CASE mech = "PLAIN" /\ ValidAtBroker
        <4>1. step[c] = 2 BY <2>1, <2>5, <3>2 DEF Frame, Rounds
        <4>2. Answers(c, <<TokenReply(FALSE)>>, "done") BY <1>3, <2>1, <2>5, <3>2
        <4>3. TokenReply(FALSE) = Answer(mech, version, kind, seen[c], FALSE)
          BY <2>5, <3>2, AnswerForms
        <4>4. After(mech, client, step[c]) = "done" BY <3>2, <4>1 DEF After, Rounds
        <4>5. Known /\ creds # "wrong" BY <1>2, <2>1, <3>2, <4>1
        <4> QED BY <1>1, <1>4, <4>2, <4>3, <4>4, <4>5, AnswersKeep
      <3>3. CASE ~(mech = "GSSAPI" /\ Known /\ ValidAtBroker) /\ ~(mech = "PLAIN" /\ ValidAtBroker)
        <4>1. Answers(c, <<>>, "closed") BY <1>3, <2>1, <2>5, <3>3
        <4>2. Unfit BY <1>2, <2>5, <3>3 DEF Frame, Known, Unfit
        <4> QED BY <1>1, <1>4, <4>1, <4>2, AnswersKeep
      <3> QED BY <3>1, <3>2, <3>3
    <2> QED BY <2>2, <2>3, <2>4, <2>5
  <1>5. CASE /\ TokenUnderWay(c)
             /\ \/ pc[c] = "ok" /\ toServer[c] = <<Token>>
                \/ pc[c] = "used" /\ toServer[c] = <<Token, Request>>
    <2> USE DEF config
    <2>1. mech = "GSSAPI" /\ srv[c] = "again" /\ toClient[c] = <<>> BY <1>5 DEF TokenUnderWay
    <2>2. ConnInv(c) /\ Known /\ creds # "wrong"
      BY <1>5, <2>1 DEF IInv, ConnInv, ServerInv
    <2>3. f.kind = "raw" BY <1>5, Wires DEF Token, Question
    <2>4. Answers(c, <<>>, "done") BY <1>2, <1>3, <2>1, <2>2, <2>3
    <2>5. /\ Touches(c) /\ toServer'[c] = Tail(toServer[c])
          /\ toClient'[c] = toClient[c] \o <<>> /\ srv'[c] = "done"
          /\ accepted'[c] = (accepted[c] \/ "done" = "done")
          /\ UNCHANGED <<config, correlationID, pc, step, seen, deadline, why, fault>>
      BY <2>4, AnswersSlice
    <2> HIDE DEF f, first, ok
    <2>6. accepted'[c] = TRUE BY <2>5
    <2>7. toClient'[c] = <<>>
      <3>1. <<>> \o <<>> = <<>> OBVIOUS
      <3> QED BY <2>1, <2>5, <3>1
    <2>8. ConnTypes(c)' BY <2>2, <2>5, <2>6 DEF ConnInv, ConnTypes
    <2>9. ServerInv(c)' BY <2>2, <2>5, <2>6 DEF ConnInv, ServerInv, Known, Unfit
    <2>10. ReasonInv(c)' BY <2>2, <2>5 DEF ConnInv, ReasonInv, Unfit
    <2>11. TurnInv(c)'
      <3>1. CASE pc[c] = "ok" /\ toServer[c] = <<Token>>
        <4>1. toServer'[c] = <<>> BY <2>5, <3>1, Wires
        <4> QED BY <2>2, <2>5, <2>7, <3>1, <4>1 DEF ConnInv, TurnInv, Idle, Quiet
      <3>2. CASE pc[c] = "used" /\ toServer[c] = <<Token, Request>>
        <4>1. toServer'[c] = <<Request>> BY <2>5, <3>2, Wires
        <4> QED BY <2>2, <2>5, <2>7, <3>2, <4>1 DEF ConnInv, TurnInv
      <3> QED BY <1>5, <3>1, <3>2
    <2> QED BY <2>5, <2>8, <2>9, <2>10, <2>11, StepKeeps DEF ConnInv
  <1> QED BY <1>1, <1>4, <1>5, WhatIsServed

LEMMA ServeRequestKeeps ==
  ASSUME IInv, NEW c \in Conns, ServeRequest(c) PROVE IInv'
  <1> USE DEF config
  <1>1. srv[c] = "done" /\ toServer[c] # <<>> /\ Answers(c, <<Response>>, "done")
    BY DEF ServeRequest, Serving, Response
  <1>2. ConnInv(c) /\ step[c] \in 1..Rounds(mech) BY DEF IInv, ConnInv, ConnTypes
  <1>3. ~Asked(c) BY <1>1 DEF Asked, Listens, Expects
  <1>4. pc[c] = "used" /\ toServer[c] = <<Request>> /\ toClient[c] = <<>>
    BY <1>1, <1>3, WhatIsServed DEF TokenUnderWay
  <1>5. /\ Touches(c) /\ toServer'[c] = Tail(toServer[c])
        /\ toClient'[c] = toClient[c] \o <<Response>> /\ srv'[c] = "done"
        /\ accepted'[c] = (accepted[c] \/ "done" = "done")
        /\ UNCHANGED <<config, correlationID, pc, step, seen, deadline, why, fault>>
    BY <1>1, AnswersSlice
  <1>6. toServer'[c] = <<>> /\ toClient'[c] = <<Response>> /\ accepted'[c] = TRUE
    BY <1>4, <1>5, Wires
  <1>7. ConnTypes(c)' BY <1>2, <1>5, <1>6 DEF ConnInv, ConnTypes
  <1>8. ServerInv(c)' BY <1>1, <1>2, <1>5, <1>6 DEF ConnInv, ServerInv, Known, Unfit
  <1>9. ReasonInv(c)' BY <1>2, <1>5 DEF ConnInv, ReasonInv, Unfit
  <1>10. TurnInv(c)' BY <1>2, <1>4, <1>5, <1>6 DEF ConnInv, TurnInv
  <1> QED BY <1>5, <1>7, <1>8, <1>9, <1>10, StepKeeps DEF ConnInv

-----------------------------------------------------------------------------
LEMMA InitInv == Init => IInv
  <1> SUFFICES ASSUME Init PROVE IInv
    OBVIOUS
  <1>1. ConfigInv
    <2>1. /\ mech \in Mechanisms /\ server \in {"local", "broker"}
          /\ creds \in {"good", "wrong", "torn"}
      BY DEF Init
    <2>2. /\ client \in {"proxy", "kafka"}
          /\ client = "kafka" => server = "local" /\ mech \in {"PLAIN", "OAUTHBEARER"}
      BY DEF Init
    <2>3. version \in 0..3 /\ (client = "proxy" => version = 0)
      <3>1. version \in IF client = "kafka" THEN 0..3 ELSE {0} BY DEF Init
      <3> QED BY <3>1
    <2>4. server = "local" /\ Known => mech \in {"PLAIN", "OAUTHBEARER"}
      BY DEF Init, Known, NewLocalSasl
    <2> QED BY <2>1, <2>2, <2>3, <2>4 DEF ConfigInv
  <1>2. SharedInv BY DEF Init, SharedInv
  <1>3. ASSUME NEW c \in Conns PROVE ConnInv(c)
    <2>1. /\ pc[c] = "start" /\ step[c] = 1 /\ seen[c] = 0 /\ deadline[c] = FALSE /\ why[c] = ""
          /\ srv[c] = "start" /\ accepted[c] = FALSE /\ fault[c] = "none"
          /\ toServer[c] = <<>> /\ toClient[c] = <<>>
      BY DEF Init
    <2>2. ConnTypes(c)
      <3>1. 1 \in 1..Rounds(mech) BY DEF Rounds
      <3>2. deadline[c] \in BOOLEAN /\ accepted[c] \in BOOLEAN BY <2>1
      <3>3. /\ pc[c] \in Pcs /\ why[c] \in Reasons
            /\ srv[c] \in {"start", "v0", "v1", "again", "done", "closed"}
            /\ pc[c] # "count"
        <4>1. pc[c] = "start" /\ why[c] = "" /\ srv[c] = "start" BY <2>1
        <4> QED BY <4>1 DEF Pcs, Reasons
      <3>4. step[c] \in 1..Rounds(mech) /\ seen[c] = 0 /\ seen[c] \in Nat
        <4>1. step[c] = 1 /\ seen[c] = 0 BY <2>1
        <4> QED BY <3>1, <4>1
      <3> QED BY <3>2, <3>3, <3>4, Zenon DEF ConnTypes
    <2>3. TurnInv(c) BY <2>1 DEF TurnInv, Quiet
    <2>4. ServerInv(c)
      <3>1. ~accepted[c] BY <2>1
      <3>2. ~(step[c] >= 2)
        <4>1. step[c] = 1 BY <2>1
        <4> QED BY <4>1
      <3> QED BY <2>1, <3>1, <3>2 DEF ServerInv
    <2>5. ReasonInv(c) BY <2>1 DEF ReasonInv
    <2> QED BY <2>2, <2>3, <2>4, <2>5 DEF ConnInv
  <1> QED BY <1>1, <1>2, <1>3 DEF IInv

LEMMA NextInv == IInv /\ [Next]_vars => IInv'
  <1> SUFFICES ASSUME IInv, [Next]_vars PROVE IInv'
    OBVIOUS
  <1>1. CASE UNCHANGED vars
    <2>1. ConfigInv' /\ SharedInv'
      BY <1>1, ConfigKept DEF IInv, vars, cvars, svars, wires, SharedInv
    <2>2. ASSUME NEW d \in Conns PROVE ConnInv(d)'
      <3>1. Same(d) BY <1>1 DEF Same, vars, cvars, svars, wires
      <3> QED BY <1>1, <3>1, OthersKept DEF IInv, vars
    <2> QED BY <2>1, <2>2 DEF IInv
  <1>2. ASSUME NEW c \in Conns, ClientStep(c) PROVE IInv'
    BY <1>2, GetCredentialsKeeps, FailingKeeps, SendKeeps, CountKeeps, ReceiveKeeps, UseKeeps,
       UseReceivesKeeps DEF ClientStep
  <1>3. ASSUME NEW c \in Conns, ServerStep(c) PROVE IInv'
    BY <1>3, ReceiveHandshakeKeeps, ReceiveAuthKeeps, LocalTimesOutKeeps, BrokerStepKeeps,
       ServeRequestKeeps DEF ServerStep
  <1>4. ASSUME NEW c \in Conns, Breaks(c) PROVE IInv' BY <1>4, BreaksKeeps
  <1> QED BY <1>1, <1>2, <1>3, <1>4 DEF Next

LEMMA Always == Spec => []IInv
  BY InitInv, NextInv, PTL DEF Spec

(* Types; and neither side gets ahead of the other: the frames on the wire *)
(* are the one that is due or its answer, and behind GSSAPI's last token   *)
(* the first request.                                                      *)
THEOREM SaslTypeCorrect == Spec => []TypeOK
  <1>1. IInv => TypeOK
    <2> SUFFICES ASSUME IInv PROVE TypeOK
      OBVIOUS
    <2>1. ConfigInv /\ SharedInv /\ \A c \in Conns : ConnInv(c) BY DEF IInv
    <2>2. \A c \in Conns : ConnTypes(c) BY <2>1 DEF ConnInv
    <2>3. /\ pc \in [Conns -> Pcs] /\ why \in [Conns -> Reasons]
          /\ seen \in [Conns -> Nat] /\ deadline \in [Conns -> BOOLEAN]
          /\ srv \in [Conns -> {"start", "v0", "v1", "again", "done", "closed"}]
      <3> HIDE DEF Pcs, Reasons
      <3>1. pc \in [Conns -> Pcs] BY <2>1, <2>2 DEF SharedInv, ConnTypes
      <3>2. why \in [Conns -> Reasons] BY <2>1, <2>2 DEF SharedInv, ConnTypes
      <3>3. seen \in [Conns -> Nat] BY <2>1, <2>2 DEF SharedInv, ConnTypes
      <3>4. deadline \in [Conns -> BOOLEAN] BY <2>1, <2>2 DEF SharedInv, ConnTypes
      <3>5. srv \in [Conns -> {"start", "v0", "v1", "again", "done", "closed"}]
        BY <2>1, <2>2 DEF SharedInv, ConnTypes
      <3> QED BY <3>1, <3>2, <3>3, <3>4, <3>5
    <2>4. \A c \in Conns : step[c] \in 1..Len(Exchange)
      BY <2>1, <2>2, ExchangeShape DEF ConnTypes
    <2>5. ASSUME NEW c \in Conns PROVE Len(toServer[c]) <= 2 /\ Len(toClient[c]) <= 1
      <3>1. \/ toServer[c] = <<>>
            \/ \E x : toServer[c] = <<x>>
            \/ \E x, y : toServer[c] = <<y, x>>
        BY <2>1, <2>2 DEF ConnInv, ConnTypes, TurnInv, Quiet, Asked, Granted, Refused, Idle, Pcs
      <3>2. toClient[c] = <<>> \/ \E x : toClient[c] = <<x>>
        BY <2>1, <2>2 DEF ConnInv, ConnTypes, TurnInv, Quiet, Asked, Granted, Refused, Idle,
           TokenUnderWay, Pcs
      <3>3. Len(<<>>) = 0 OBVIOUS
      <3>4. Len(toServer[c]) = 0 \/ Len(toServer[c]) = 1 \/ Len(toServer[c]) = 2
        BY <3>1, <3>3, Wires
      <3>5. Len(toClient[c]) = 0 \/ Len(toClient[c]) = 1 BY <3>2, <3>3, Wires
      <3>6. \A n : n = 0 \/ n = 1 => n <= 1 /\ n <= 2 OBVIOUS
      <3>7. \A n : n = 2 => n <= 2 OBVIOUS
      <3> QED BY <3>4, <3>5, <3>6, <3>7, Zenon
    <2> QED BY <2>1, <2>3, <2>4, <2>5 DEF TypeOK, ConfigInv, SharedInv
  <1> QED BY <1>1, Always, PTL

(* However connections interleave, time out or break, the proxy uses a     *)
(* connection only if the server has accepted right credentials with a     *)
(* mechanism it has enabled.                                               *)
THEOREM SuccessOnBothSides == Spec => []SuccessIsMutual
  <1>1. IInv => SuccessIsMutual
    <2> SUFFICES ASSUME IInv, NEW c \in Conns, pc[c] \in {"ok", "used", "served"}
                 PROVE  /\ creds # "wrong" /\ mech \in authenticators
                        /\ \/ accepted[c] \/ fault[c] # "none"
                           \/ /\ mech = "GSSAPI"
                              /\ \E i \in 1..Len(toServer[c]) : toServer[c][i].kind = "raw"
      BY DEF SuccessIsMutual
    <2>1. ConnInv(c) /\ Rounds(mech) >= 2 BY DEF IInv, Rounds
    <2>2. step[c] = Rounds(mech) BY <2>1 DEF ConnInv, TurnInv
    <2>3. Known BY <2>1, <2>2 DEF ConnInv, ServerInv
    <2>4. CASE srv[c] = "done"
      BY <2>1, <2>3, <2>4 DEF ConnInv, ServerInv, Known
    <2>5. CASE srv[c] # "done"
      <3>1. mech = "GSSAPI" /\ creds # "wrong"
        BY <2>1, <2>5 DEF ConnInv, TurnInv, ServerInv, Idle, TokenUnderWay
      <3>2. fault[c] # "none" \/ toServer[c] = <<Token>> \/ toServer[c] = <<Token, Request>>
        BY <2>1, <2>5 DEF ConnInv, TurnInv, Idle
      <3>3. CASE toServer[c] = <<Token>>
        <4>1. Len(toServer[c]) = 1 /\ toServer[c][1].kind = "raw" BY <3>3 DEF Token, Question
        <4> QED BY <2>3, <3>1, <4>1 DEF Known
      <3>4. CASE toServer[c] = <<Token, Request>>
        <4>1. Len(toServer[c]) = 2 /\ toServer[c][1].kind = "raw" BY <3>4 DEF Token, Question
        <4> QED BY <2>3, <3>1, <4>1 DEF Known
      <3> QED BY <2>3, <3>1, <3>2, <3>3, <3>4 DEF Known
    <2> QED BY <2>4, <2>5
  <1> QED BY <1>1, Always, PTL

(* No mechanism leaves an answer of the exchange, or a part of one, where  *)
(* the reply to the first request is read.                                 *)
THEOREM StreamStaysClean == Spec => []StreamIsClean
  <1>1. IInv => StreamIsClean BY DEF IInv, ConnInv, TurnInv, StreamIsClean
  <1> QED BY <1>1, Always, PTL

(* No interleaving of connections that share SCRAM's unsynchronised        *)
(* counter makes one of them refuse its own answer; and nothing but a      *)
(* fault, the local server's deadline, wrong credentials, mechanism or     *)
(* version ends an exchange.                                               *)
THEOREM FailuresHaveReasons == Spec => []FailureHasAReason
  <1>1. IInv => FailureHasAReason
    BY DEF IInv, ConnInv, ReasonInv, FailureHasAReason, Unfit
  <1> QED BY <1>1, Always, PTL
=============================================================================
