----------------------------- MODULE GatewayAuth -----------------------------
(***************************************************************************)
(* Authentication between two proxies: AuthClient gets a token from its    *)
(* provider (Tokens) and sends it, AuthServer has it verified (TokenInfo)  *)
(* and answers, or closes the connection.  Each side has its own clock and *)
(* its own view of the keys.                                               *)
(***************************************************************************)
EXTENDS Tokens

CONSTANTS
  CertsEvery, MaxCertFails,  \* of TokenInfo
  RotateEvery,               \* the least time between two changes of the key
  AuthTimeout,               \* timeout of the exchange
  MaxDrift                   \* how far the two clocks differ

VARIABLES
  gen, publicKeys, dueAt, certFails,  \* of TokenInfo
  rotatedAt,
  drift,
  gw         \* per connection: its exchange

INSTANCE TokenInfo

ASSUME GatewayAssumption ==
  /\ {CertsEvery, MaxCertFails, RotateEvery, AuthTimeout} \subseteq Nat
  /\ CertsEvery + MaxCertFails < RotateEvery /\ Life < RotateEvery
  /\ MaxDrift \in 0..Skew
  /\ 2 \in Kids          \* the key tokens are signed with at first

info   == <<gen, publicKeys, dueAt, certFails>>
gwVars == <<vars, info, rotatedAt, drift, gw>>

NoExchange == [pc |-> "none", fits |-> TRUE, status |-> "none"]

(* Google signs with the next key; it has published it long before.        *)
RotateKey ==
  /\ now - rotatedAt >= RotateEvery /\ gen + 1 \in Kids
  /\ gen' = gen + 1 /\ rotatedAt' = now
  /\ UNCHANGED <<vars, publicKeys, dueAt, certFails, drift, gw>>

(* sendAndReceiveGatewayAuth: the token GetToken gave goes to the gateway. *)
SendGatewayAuth(c) ==
  /\ answers[c] # NoAnswer /\ answers[c].at = now /\ gw[c].pc = "none"
  /\ gw' = [gw EXCEPT ![c].pc = "sent"]
  /\ UNCHANGED <<vars, info, rotatedAt, drift>>

(* receiveAndSendGatewayAuth: four zero bytes, or the connection closed.   *)
(* Magic bytes and method of the two sides may differ, and the token may   *)
(* be another's.                                                           *)
ReceiveGatewayAuth(c) ==
  /\ gw[c].pc = "sent"
  /\ \E matching \in BOOLEAN, claims \in {Claims, Claims \ {"email"}} :
       gw' = [gw EXCEPT ![c] =
                [pc |-> "done", fits |-> matching /\ claims = Claims,
                 status |-> IF ~matching THEN "Mismatch"
                            ELSE VerifyToken(answers[c].tok, claims, now + drift)]]
  /\ UNCHANGED <<vars, info, rotatedAt, drift>>

(* The deadline of either side, or the end of the connection.              *)
EndExchange(c) ==
  /\ \/ gw[c].pc = "done"
     \/ answers[c] # NoAnswer /\ now = answers[c].at + AuthTimeout
  /\ gw' = [gw EXCEPT ![c] = NoExchange]
  /\ answers' = [answers EXCEPT ![c] = NoAnswer]
  /\ UNCHANGED <<kind, link, clock, provider, idToken, calls, refresh, file,
                 watcher, missed, info, rotatedAt, drift>>

(* A unit passes on both sides: no exchange outlives its deadline and the  *)
(* refresher of the keys runs when it is due.                              *)
GatewayTick ==
  /\ \A c \in Callers : answers[c] # NoAnswer => now < answers[c].at + AuthTimeout
  /\ now < dueAt
  /\ Tick
  /\ UNCHANGED <<info, rotatedAt, drift, gw>>

ProviderStep ==
  /\ \/ Edit \/ Watcher \/ Starting \/ Renewing
     \/ \E p \in Procs : GetTokenReceives(p) \/ GetTokenFails(p) \/ Issue(p, gen)
     \/ GetTokenAsks(Main)
     \/ \E c \in Callers : answers[c] = NoAnswer /\ (GetCachedToken(c) \/ GetTokenAsks(c))
  /\ UNCHANGED <<info, rotatedAt, drift, gw>>

VerifierStep ==
  /\ RefreshCerts \/ RefreshCertsFails
  /\ UNCHANGED <<kind, link, up, starved, provider, idToken, calls, answers, refresh,
                 file, watcher, missed, rotatedAt, drift, gw>>

GatewayInit ==
  /\ Init /\ NewTokenInfo
  /\ rotatedAt = 1 - RotateEvery /\ drift \in {-MaxDrift, MaxDrift}
  /\ gw = [c \in Callers |-> NoExchange]

GatewayNext ==
  \/ ProviderStep \/ VerifierStep \/ RotateKey \/ GatewayTick
  \/ \E c \in Callers : SendGatewayAuth(c) \/ ReceiveGatewayAuth(c) \/ EndExchange(c)

GatewaySpec == GatewayInit /\ [][GatewayNext]_gwVars

(* The watcher's goroutine and NewTokenProvider run.                       *)
GatewayFairSpec ==
  /\ GatewaySpec
  /\ WF_gwVars(Watcher /\ UNCHANGED <<info, rotatedAt, drift, gw>>)
  /\ WF_gwVars(Starting /\ UNCHANGED <<info, rotatedAt, drift, gw>>)

-----------------------------------------------------------------------------
(* What the provider hands out the gateway takes: a token that GetToken    *)
(* answered with is accepted at the other side, although it may be about   *)
(* to be renewed, the clocks differ, the keys change and refreshing them   *)
(* fails at times.  Only a token for another audience or user, or a        *)
(* configuration that differs, is refused.                                 *)
TokensAreAccepted ==
  \A c \in Callers : gw[c].pc = "done" => (gw[c].fits <=> gw[c].status = "OK")
=============================================================================
