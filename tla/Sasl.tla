-------------------------------- MODULE Sasl ---------------------------------
(***************************************************************************)
(* SASL authentication on a new connection.  The client is this proxy      *)
(* (SASLAuthByProxy: PLAIN, OAUTHBEARER, SCRAM, AWS_MSK_IAM, GSSAPI), or a *)
(* Kafka client; the server is a broker, or LocalSasl of the proxy the     *)
(* connection was accepted by.  Connections of one proxy share its         *)
(* authenticator, and with SCRAM its counter of correlation ids.           *)
(*                                                                         *)
(* A frame is a record: "hs" a SaslHandshake, "auth" a SaslAuthenticate,   *)
(* "raw" a token with its length in front, "req" the first request after   *)
(* authentication.  Payloads are left out but for what they decide.        *)
(***************************************************************************)
EXTENDS Integers, Sequences

CONSTANTS
  Conns,       \* connections
  Mechanisms   \* of AllMechanisms, the ones considered

AllMechanisms == {"PLAIN", "OAUTHBEARER", "SCRAM", "AWS_MSK_IAM", "GSSAPI"}

ASSUME SaslAssumption == Mechanisms \subseteq AllMechanisms

VARIABLES
  mech, version,   \* of the client: its mechanism, version of SaslAuthenticate
  client, server,  \* "proxy" or "kafka"; "local" or "broker"
  creds,           \* "good", "wrong", or "torn": good, but not in one piece
                   \* once PLAIN or OAUTHBEARER has encoded and parsed them
  authenticators,  \* mechanisms the server has enabled
  correlationID,   \* SASLSCRAMAuth.correlationID, shared
  pc, step,        \* per connection: the client, and its place in Exchange
  seen,            \* the client's local correlationID
  deadline,        \* a read deadline is set
  why,             \* why the client failed
  srv,             \* what the server expects
  accepted,        \* the server has authenticated the client
  fault,           \* "none", "dropped", "silent"
  toServer, toClient

config == <<mech, version, client, server, creds, authenticators>>
cvars  == <<pc, step, seen, deadline, why>>
svars  == <<srv, accepted>>
wires  == <<toServer, toClient>>
vars   == <<config, correlationID, cvars, svars, fault, wires>>

-----------------------------------------------------------------------------
(* What the client sends, in order: sendAndReceiveSASLAuth.  A Kafka       *)
(* client authenticates with SaslAuthenticate; GSSAPI sends no handshake.  *)
PlainExchange       == <<"hs0", "raw">>
OAuthBearerExchange == <<"hs1", "auth">>
ScramExchange       == <<"hs1", "auth", "auth">>
IamExchange         == <<"hs1", "auth">>
GssapiExchange      == <<"raw", "raw">>

Exchange ==
  IF client = "kafka" THEN <<"hs1", "auth">>
  ELSE CASE mech = "PLAIN"       -> PlainExchange
         [] mech = "OAUTHBEARER" -> OAuthBearerExchange
         [] mech = "SCRAM"       -> ScramExchange
         [] mech = "AWS_MSK_IAM" -> IamExchange
         [] mech = "GSSAPI"      -> GssapiExchange

(* The server's verdict on the credentials.                                *)
(* LocalSaslPlain.doLocalAuth: NUL separates authzid, user and password,   *)
(* and another NUL makes a fourth token.                                   *)
LocalSaslPlain == LET tokens == IF creds = "torn" THEN 4 ELSE 3
                  IN  tokens = 3 /\ creds # "wrong"

(* LocalSaslOauth.doLocalAuth: parseToken takes the first run of letters,  *)
(* digits, '-', '_' and '.' for the token that VerifyToken is asked about. *)
LocalSaslOauth == LET whole == creds # "torn"
                  IN  whole /\ creds # "wrong"

DoLocalAuth == IF mech = "PLAIN" THEN LocalSaslPlain ELSE LocalSaslOauth

(* NewLocalSasl has authenticators for two mechanisms at most.             *)
NewLocalSasl(enabled) == enabled \cap {"PLAIN", "OAUTHBEARER"}

Open(c) == srv[c] # "closed" /\ fault[c] = "none" /\ pc[c] # "failed"

-----------------------------------------------------------------------------
(* Client.                                                                 *)
Fail(c, reason) ==   \* Client.auth closes the connection
  /\ pc' = [pc EXCEPT ![c] = "failed"] /\ why' = [why EXCEPT ![c] = reason]
  /\ UNCHANGED <<step, seen, deadline>>

(* What precedes the exchange.  OAUTHBEARER gets its token; GSSAPI logs in *)
(* and gets the ticket its AP_REQ is made of, which wrong credentials do   *)
(* not.                                                                    *)
GetOAuthBearerToken(c) == mech = "OAUTHBEARER" /\ Fail(c, "credentials")
GetServiceTicket(c)    == mech = "GSSAPI" /\ Fail(c, "credentials")

GetCredentials(c) ==
  /\ pc[c] = "start"
  /\ \/ /\ pc' = [pc EXCEPT ![c] = "send"]
        /\ mech = "GSSAPI" => creds # "wrong"
        /\ UNCHANGED <<step, seen, deadline, why>>
     \/ client = "proxy" /\ (GetOAuthBearerToken(c) \/ GetServiceTicket(c))
  /\ UNCHANGED <<config, correlationID, svars, fault, wires>>

(* AwsMSKIamAuth.saslAuthenticate signs after the handshake.               *)
SignFails(c) ==
  /\ pc[c] = "send" /\ mech = "AWS_MSK_IAM" /\ step[c] = 2
  /\ Fail(c, "credentials")
  /\ UNCHANGED <<config, correlationID, svars, fault, wires>>

(* The read deadline is set with every request, except by SCRAM.           *)
\* Fault.  saslHandshake and saslAuthenticate set the write deadline only.
SetsNoReadDeadline == FALSE
SetsReadDeadline == mech # "SCRAM"

(* SASLSCRAMAuth sends its counter with SaslAuthenticate; anything else    *)
(* carries 0.                                                              *)
Send(c) ==
  /\ pc[c] = "send"
  /\ LET kind == Exchange[step[c]]
         corr == IF mech = "SCRAM" /\ kind = "auth" THEN correlationID ELSE 0
     IN  /\ toServer' = IF Open(c)
                        THEN [toServer EXCEPT ![c] = Append(@, [kind |-> kind, corr |-> corr])]
                        ELSE toServer
         /\ seen' = [seen EXCEPT ![c] = corr]
  /\ pc' = [pc EXCEPT ![c] = IF mech = "SCRAM" THEN "count"
                             ELSE IF mech = "GSSAPI" /\ step[c] = 2 THEN "ok" ELSE "wait"]
  /\ deadline' = [deadline EXCEPT ![c] = SetsReadDeadline /\ pc'[c] = "wait"]
  /\ UNCHANGED <<config, correlationID, step, why, svars, fault, toClient>>

SendFails(c) ==
  /\ pc[c] = "send" /\ ~Open(c) /\ Fail(c, "eof")
  /\ UNCHANGED <<config, correlationID, svars, fault, wires>>

(* b.correlationID++, not synchronised: another connection's increment may *)
(* be overwritten.                                                         *)
Count(c) ==
  /\ pc[c] = "count"
  /\ \/ correlationID' = correlationID + 1
     \/ Exchange[step[c]] = "auth" /\ correlationID' = seen[c] + 1
  /\ pc' = [pc EXCEPT ![c] = "wait"]
  /\ UNCHANGED <<config, step, seen, deadline, why, svars, fault, wires>>

(* SCRAM compares the correlation id of SaslAuthenticate's answer with the *)
(* one it sent.                                                            *)
\* Fault.  With the counter's value, as if one connection used it at a time.
CorrelatesShared(c, f) == f.corr = correlationID - 1
Correlates(c, f) == f.corr = seen[c]

(* What the client makes of an answer: "" when it may go on.              *)
HandshakeVerdict(kind, f) ==
  IF f.kind # kind \/ f.flexible THEN "garbled" ELSE IF f.err THEN "mechanism" ELSE ""

AuthenticateVerdict(c, f) ==
  IF mech = "SCRAM" /\ ~Correlates(c, f) THEN "correlation"
  ELSE IF f.kind # "auth" \/ f.flexible # (version = 2) THEN "garbled"
  ELSE IF f.err THEN "refused" ELSE ""

(* The four bytes PLAIN reads are not looked at; GSSAPI reads a token and  *)
(* verifies its checksum.                                                  *)
TokenVerdict(f) == IF mech = "GSSAPI" => f.kind = "raw" /\ f.payload THEN "" ELSE "garbled"

Verdict(c, f) ==
  CASE Exchange[step[c]] = "raw"  -> TokenVerdict(f)
    [] Exchange[step[c]] = "auth" -> AuthenticateVerdict(c, f)
    [] OTHER -> HandshakeVerdict(Exchange[step[c]], f)

(* Of PLAIN's answer only the length is read: a payload would stay.        *)
Unread(f) == IF mech = "PLAIN" /\ f.kind = "raw" /\ f.payload
             THEN <<[f EXCEPT !.kind = "rest"]>> ELSE <<>>

\* Fault.  SCRAM takes the server's first message for its last.
ScramEarly == IF mech = "SCRAM" THEN 2 ELSE Len(Exchange)
\* Fault.  The exchange is over when a round finds nothing to send.
LastStepBeyond == Len(Exchange) + 1
LastStep == Len(Exchange)

Receive(c) ==
  /\ pc[c] = "wait" /\ toClient[c] # <<>>
  /\ LET f == Head(toClient[c]) IN
     /\ toClient' = [toClient EXCEPT ![c] = Unread(f) \o Tail(@)]
     /\ \/ /\ Verdict(c, f) = ""
           /\ pc' = [pc EXCEPT ![c] = IF step[c] = LastStep THEN "ok" ELSE "send"]
           /\ step' = [step EXCEPT ![c] = IF step[c] = LastStep THEN @ ELSE @ + 1]
           /\ deadline' = [deadline EXCEPT ![c] = @ /\ step[c] # LastStep]
           /\ UNCHANGED <<seen, why>>
        \/ Verdict(c, f) # "" /\ Fail(c, Verdict(c, f))
  /\ UNCHANGED <<config, correlationID, svars, fault, toServer>>

ReceiveFails(c) ==
  /\ pc[c] = "wait"
  /\ \/ toClient[c] = <<>> /\ (srv[c] = "closed" \/ fault[c] = "dropped") /\ Fail(c, "eof")
     \/ deadline[c] /\ Fail(c, "timeout")
  /\ UNCHANGED <<config, correlationID, svars, fault, wires>>

(* The connection is handed over: the first request of the client it was   *)
(* made for, and what is read for its answer.                              *)
Use(c) ==
  /\ pc[c] = "ok" /\ Open(c)
  /\ toServer' = [toServer EXCEPT ![c] = Append(@, [kind |-> "req", corr |-> 0])]
  /\ pc' = [pc EXCEPT ![c] = "used"]
  /\ UNCHANGED <<config, correlationID, step, seen, deadline, why, svars, fault, toClient>>

UseReceives(c) ==
  /\ pc[c] = "used" /\ toClient[c] # <<>>
  /\ pc' = [pc EXCEPT ![c] = IF Head(toClient[c]).kind = "req" THEN "served" ELSE "misled"]
  /\ toClient' = [toClient EXCEPT ![c] = Tail(@)]
  /\ UNCHANGED <<config, correlationID, step, seen, deadline, why, svars, fault, toServer>>

ClientStep(c) ==
  \/ GetCredentials(c) \/ SignFails(c) \/ Send(c) \/ SendFails(c) \/ Count(c)
  \/ Receive(c) \/ ReceiveFails(c) \/ Use(c) \/ UseReceives(c)

-----------------------------------------------------------------------------
(* Server.                                                                 *)
Reply(kind, corr, err) ==
  [kind |-> kind, corr |-> corr, err |-> err, payload |-> FALSE, flexible |-> FALSE]

HandshakeReply(kind, corr, err) == Reply(kind, corr, err)
TokenReply(payload) == [Reply("raw", 0, FALSE) EXCEPT !.payload = payload]

(* Version 2 of SaslAuthenticate has the flexible header.                  *)
AuthenticateReply(corr, err) == [Reply("auth", corr, err) EXCEPT !.flexible = version = 2]

Answers(c, reply, next) ==
  /\ toServer' = [toServer EXCEPT ![c] = Tail(@)]
  /\ toClient' = [toClient EXCEPT ![c] = @ \o reply]
  /\ srv' = [srv EXCEPT ![c] = next]
  /\ accepted' = [accepted EXCEPT ![c] = @ \/ next = "done"]
  /\ UNCHANGED <<config, correlationID, cvars, fault>>

Serving(c, expects) ==
  srv[c] = expects /\ fault[c] = "none" /\ toServer[c] # <<>>

(* receiveAndSendSaslV0orV1: an error is answered, then the connection is  *)
(* closed.  A first frame that is no handshake is closed without answer.   *)
ReceiveHandshake(c) ==
  /\ server = "local" /\ Serving(c, "start")
  /\ LET f == Head(toServer[c])
         known == mech \in authenticators
     IN  IF f.kind \in {"hs0", "hs1"}
         THEN Answers(c, <<HandshakeReply(f.kind, f.corr, ~known)>>,
                      IF ~known THEN "closed" ELSE IF f.kind = "hs0" THEN "v0" ELSE "v1")
         ELSE Answers(c, <<>>, "closed")

(* receiveAndSendAuthV0: four zero bytes, or the connection is closed.     *)
\* Fault.  The answer has a payload, as a broker's to SaslAuthenticate has.
ReceiveAuthV0Framed(c) ==
  /\ server = "local" /\ Serving(c, "v0")
  /\ IF DoLocalAuth THEN Answers(c, <<TokenReply(TRUE)>>, "done")
     ELSE Answers(c, <<>>, "closed")
ReceiveAuthV0(c) ==
  /\ server = "local" /\ Serving(c, "v0")
  /\ IF DoLocalAuth THEN Answers(c, <<TokenReply(FALSE)>>, "done")
     ELSE Answers(c, <<>>, "closed")

(* receiveAndSendAuthV1: versions 0 to 2, with an answer to each verdict.   *)
ReceiveAuthV1(c) ==
  /\ server = "local" /\ Serving(c, "v1")
  /\ IF Head(toServer[c]).kind = "auth" /\ version \in 0..2
     THEN Answers(c, <<AuthenticateReply(Head(toServer[c]).corr, ~DoLocalAuth)>>,
                  IF DoLocalAuth THEN "done" ELSE "closed")
     ELSE Answers(c, <<>>, "closed")

(* conn.SetDeadline(p.timeout) before every read; the end of the stream.   *)
LocalTimesOut(c) ==
  /\ server = "local" /\ srv[c] \in {"v0", "v1"}
  /\ srv' = [srv EXCEPT ![c] = "closed"]
  /\ UNCHANGED <<config, correlationID, cvars, accepted, fault, wires>>

(* The broker: the mechanism's rounds, an error answered to                *)
(* SaslAuthenticate and a raw token refused by closing the connection.     *)
BrokerStep(c) ==
  /\ server = "broker" /\ srv[c] \in {"start", "v0", "v1", "again"} /\ Serving(c, srv[c])
  /\ LET f     == Head(toServer[c])
         known == mech \in authenticators
         valid == creds = "good" \/ (creds = "torn" /\ mech \notin {"PLAIN", "OAUTHBEARER"})
         first == mech \in {"SCRAM", "GSSAPI"} /\ srv[c] # "again"
         ok    == (first /\ mech = "SCRAM") \/ valid
     IN  CASE f.kind \in {"hs0", "hs1"} ->
                Answers(c, <<HandshakeReply(f.kind, f.corr, ~known)>>,
                        IF ~known THEN "closed" ELSE IF f.kind = "hs0" THEN "v0" ELSE "v1")
           [] f.kind = "auth" ->
                Answers(c, <<AuthenticateReply(f.corr, ~ok)>>,
                        IF ~ok THEN "closed" ELSE IF first THEN "again" ELSE "done")
           [] f.kind = "raw" /\ mech = "GSSAPI" /\ known /\ valid ->
                IF first THEN Answers(c, <<TokenReply(TRUE)>>, "again")
                ELSE Answers(c, <<>>, "done")
           [] f.kind = "raw" /\ mech = "PLAIN" /\ valid ->
                Answers(c, <<TokenReply(FALSE)>>, "done")
           [] OTHER -> Answers(c, <<>>, "closed")

ServeRequest(c) ==
  /\ Serving(c, "done")
  /\ Answers(c, <<Reply("req", 0, FALSE)>>, "done")

ServerStep(c) ==
  \/ ReceiveHandshake(c) \/ ReceiveAuthV0(c) \/ ReceiveAuthV1(c) \/ LocalTimesOut(c)
  \/ BrokerStep(c) \/ ServeRequest(c)

-----------------------------------------------------------------------------
(* The connection breaks, or the server falls silent on it.                *)
Breaks(c) ==
  /\ fault[c] = "none" /\ pc[c] \in {"send", "count", "wait"}
  /\ fault' \in {[fault EXCEPT ![c] = "dropped"], [fault EXCEPT ![c] = "silent"]}
  /\ UNCHANGED <<config, correlationID, cvars, svars, wires>>

Init ==
  /\ mech \in Mechanisms /\ server \in {"local", "broker"}
  /\ client \in {"proxy"} \cup
       (IF server = "local" /\ mech \in {"PLAIN", "OAUTHBEARER"} THEN {"kafka"} ELSE {})
  /\ version \in IF client = "kafka" THEN 0..3 ELSE {0}
  /\ creds \in {"good", "wrong", "torn"}
  /\ authenticators \in {{}, IF server = "local" THEN NewLocalSasl({mech}) ELSE {mech}}
  /\ correlationID = 0
  /\ pc = [c \in Conns |-> "start"] /\ step = [c \in Conns |-> 1]
  /\ seen = [c \in Conns |-> 0] /\ deadline = [c \in Conns |-> FALSE]
  /\ why = [c \in Conns |-> ""]
  /\ srv = [c \in Conns |-> "start"] /\ accepted = [c \in Conns |-> FALSE]
  /\ fault = [c \in Conns |-> "none"]
  /\ toServer = [c \in Conns |-> <<>>] /\ toClient = [c \in Conns |-> <<>>]

Next == \E c \in Conns : ClientStep(c) \/ ServerStep(c) \/ Breaks(c)

(* Each goroutine runs, and deadlines expire.                              *)
Fairness == \A c \in Conns : WF_vars(ClientStep(c)) /\ WF_vars(LocalTimesOut(c))

Spec == Init /\ [][Next]_vars /\ Fairness

-----------------------------------------------------------------------------
Pcs     == {"start", "send", "count", "wait", "ok", "used", "served", "misled", "failed"}
Reasons == {"", "credentials", "eof", "timeout", "refused", "mechanism",
            "correlation", "garbled"}

(* Types, and that a side is never more than two frames ahead.             *)
TypeOK ==
  /\ mech \in Mechanisms /\ version \in 0..3 /\ correlationID \in Nat
  /\ pc \in [Conns -> Pcs] /\ why \in [Conns -> Reasons]
  /\ seen \in [Conns -> Nat] /\ deadline \in [Conns -> BOOLEAN]
  /\ srv \in [Conns -> {"start", "v0", "v1", "again", "done", "closed"}]
  /\ \A c \in Conns : step[c] \in 1..Len(Exchange)
  /\ \A c \in Conns : Len(toServer[c]) <= 2 /\ Len(toClient[c]) <= 1

(* A connection is handed over for use only when the server has            *)
(* authenticated it, with credentials that are right and a mechanism it    *)
(* has enabled; GSSAPI's last token may still be on its way.               *)
SuccessIsMutual ==
  \A c \in Conns : pc[c] \in {"ok", "used", "served"} =>
    /\ creds # "wrong" /\ mech \in authenticators
    /\ \/ accepted[c] \/ fault[c] # "none"
       \/ mech = "GSSAPI" /\ \E i \in 1..Len(toServer[c]) : toServer[c][i].kind = "raw"

(* What follows authentication on the wire is the answer to the first      *)
(* request: the exchange has read all of its answers, and no more.         *)
StreamIsClean == \A c \in Conns : pc[c] # "misled"

(* Authentication fails for a reason: answers are attributed and decoded   *)
(* right, however connections that share the counter interleave; the       *)
(* server refuses wrong credentials, mechanisms and versions only; and a   *)
(* connection ends because one side gave up.                               *)
FailureHasAReason ==
  \A c \in Conns :
    LET unfit == \/ creds # "good" \/ mech \notin authenticators \/ version = 3
    IN  /\ why[c] \notin {"correlation", "garbled"}
        /\ why[c] \in {"refused", "mechanism"} => unfit
        /\ why[c] = "eof" => unfit \/ fault[c] # "none" \/ server = "local"

(* Authentication comes to an end on both sides, although the other may    *)
(* fall silent: not for SCRAM's client, which reads without a deadline.    *)
ExchangeEnds ==
  \A c \in Conns :
    /\ (mech # "SCRAM" /\ pc[c] = "wait") ~> (pc[c] # "wait")
    /\ (server = "local" /\ srv[c] \in {"v0", "v1"}) ~> (srv[c] \in {"done", "closed"})
=============================================================================
