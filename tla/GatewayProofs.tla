---------------------------- MODULE GatewayProofs ----------------------------
(***************************************************************************)
(* Theorems about GatewayAuth, the token providers and the verifier        *)
(* together, and their proofs.  What TokensProofs shows of the providers   *)
(* is used as it is: a step of the composition is a step of the providers, *)
(* or changes nothing of theirs but the answer that a connection drops.    *)
(***************************************************************************)
EXTENDS GatewayAuth, TokensProofs

(* The verifier's keys.  They were loaded CertsEvery + certFails units     *)
(* before dueAt; since then the signing key has changed at most once.      *)
LoadedAt == dueAt - CertsEvery - certFails

KeyInv ==
  /\ gen \in Kids /\ gen \in Nat /\ rotatedAt \in Int /\ rotatedAt <= now
  /\ certFails \in 0..MaxCertFails /\ dueAt \in Int
  /\ now <= dueAt /\ LoadedAt <= now
  /\ \/ publicKeys = {gen - 1, gen, gen + 1} \cap Kids
     \/ publicKeys = {gen - 2, gen - 1, gen} \cap Kids /\ LoadedAt <= rotatedAt

(* A token that has not expired is signed with the present key or with the *)
(* one before: t is the time, g the present key, r when it was changed.    *)
SignedWith(tok, t, g, r) ==
  /\ tok.kid \in Kids
  /\ tok.exp < t \/ tok.kid = g \/ (tok.kid = g - 1 /\ tok.iat <= r)

SignatureInv ==
  /\ idToken # NoToken => SignedWith(idToken, now, gen, rotatedAt)
  /\ \A p \in Procs : calls[p].pc = "issued" => SignedWith(calls[p].tok, now, gen, rotatedAt)
  /\ \A c \in Callers : answers[c].tok # NoToken =>
       SignedWith(answers[c].tok, now, gen, rotatedAt)

(* An exchange is younger than its deadline.  A token is refused for the   *)
(* claims alone, never for its times or its key.                           *)
Statuses == {"none", "Mismatch", "OK", "WrongEmail"}

ExchangeInv ==
  /\ drift \in Int /\ -Skew <= drift /\ drift <= Skew
  /\ gw \in [Callers -> [pc : {"none", "sent", "done"}, fits : BOOLEAN, status : Statuses]]
  /\ \A c \in Callers :
       /\ answers[c] # NoAnswer =>
            /\ answers[c].tok # NoToken
            /\ answers[c].at <= now /\ now <= answers[c].at + AuthTimeout
       /\ gw[c].pc = "sent" => answers[c] # NoAnswer

GatewayInv ==
  IInv /\ TokenInv /\ KeyInv /\ SignatureInv /\ ExchangeInv /\ TokensAreAccepted

-----------------------------------------------------------------------------
LEMMA GatewayConstants ==
  /\ CertsEvery \in Nat /\ MaxCertFails \in Nat /\ RotateEvery \in Nat /\ AuthTimeout \in Nat
  /\ CertsEvery + MaxCertFails < RotateEvery /\ Life < RotateEvery
  /\ MaxDrift \in Nat /\ MaxDrift <= Skew /\ 2 \in Kids
BY GatewayAssumption, Constants

LEMMA ExchangeType ==
  ASSUME NEW pc \in {"none", "sent", "done"}, NEW fits \in BOOLEAN, NEW status \in Statuses
  PROVE  [pc |-> pc, fits |-> fits, status |-> status]
           \in [pc : {"none", "sent", "done"}, fits : BOOLEAN, status : Statuses]
OBVIOUS

LEMMA NoExchangeType ==
  NoExchange \in [pc : {"none", "sent", "done"}, fits : BOOLEAN, status : Statuses]
<1>1. "none" \in {"none", "sent", "done"} /\ "none" \in Statuses
  BY DEF Statuses
<1>2. TRUE \in BOOLEAN
  BY Zenon
<1> QED
  BY <1>1, <1>2, ExchangeType, Zenon DEF NoExchange

LEMMA GatewayInitInv == ASSUME GatewayInit PROVE GatewayInv
<1>1. IInv /\ TokenInv
  BY InitInv, BridgeInit DEF GatewayInit
<1>2. KeyInv
  <2>1. /\ now = 1 /\ gen = 2 /\ certFails = 0 /\ dueAt = 1 + CertsEvery
        /\ publicKeys = {gen - 1, gen, gen + 1} \cap Kids /\ rotatedAt = 1 - RotateEvery
    BY DEF GatewayInit, Init, NewTokenInfo, Published
  <2>2. LoadedAt = 1
    BY <2>1, GatewayConstants DEF LoadedAt
  <2> QED
    BY <2>1, <2>2, GatewayConstants DEF KeyInv
<1>3. SignatureInv
  BY DEF GatewayInit, Init, SignatureInv, NoAnswer, Idle
<1>4. ExchangeInv /\ TokensAreAccepted
  <2>1. drift \in Int /\ -Skew <= drift /\ drift <= Skew
    BY GatewayConstants, Constants DEF GatewayInit
  <2>2. gw \in [Callers -> [pc : {"none", "sent", "done"}, fits : BOOLEAN, status : Statuses]]
    BY NoExchangeType DEF GatewayInit
  <2>3. \A c \in Callers : answers[c] = NoAnswer /\ gw[c].pc = "none"
    BY DEF GatewayInit, Init, NoExchange
  <2> QED
    BY <2>1, <2>2, <2>3 DEF ExchangeInv, TokensAreAccepted
<1> QED
  BY <1>1, <1>2, <1>3, <1>4 DEF GatewayInv

-----------------------------------------------------------------------------
(* VerifyToken's checks, in order: the status of a token that passes all   *)
(* of them, and of one for which only the e-mail address is wrong.         *)
LEMMA FirstFailedNone ==
  ASSUME NEW checks, \A i \in DOMAIN checks : checks[i].ok
  PROVE  FirstFailed(checks) = "OK"
BY DEF FirstFailed

LEMMA FirstFailedOne ==
  ASSUME NEW checks, NEW k \in Nat, k \in DOMAIN checks, ~checks[k].ok,
         \A i \in DOMAIN checks : i # k => checks[i].ok
  PROVE  FirstFailed(checks) = checks[k].status
<1> DEFINE failed == {i \in DOMAIN checks : ~checks[i].ok}
<1>1. failed = {k}
  OBVIOUS
<1>2. (CHOOSE i \in failed : \A j \in failed : i <= j) = k
  BY <1>1
<1> QED
  BY <1>1, <1>2 DEF FirstFailed

LEMMA Verified ==
  ASSUME NEW tok, NEW unix, tok.iat >= 1, tok.exp >= 1, unix >= tok.iat - Skew,
         unix <= tok.exp + Skew, tok.kid \in publicKeys
  PROVE  /\ VerifyToken(tok, Claims, unix) = "OK"
         /\ VerifyToken(tok, Claims \ {"email"}, unix) = "WrongEmail"
<1> DEFINE Checks(claims) == <<
             [status |-> "EmptyToken",              ok |-> "token" \in claims],
             [status |-> "ParseJWTFailed",          ok |-> "jwt" \in claims],
             [status |-> "WrongIssuer",             ok |-> "issuer" \in claims],
             [status |-> "NoIssueTimeInToken",      ok |-> tok.iat >= 1],
             [status |-> "NoExpirationTimeInToken", ok |-> tok.exp >= 1],
             [status |-> "TokenTooEarly",           ok |-> unix >= tok.iat - Skew],
             [status |-> "TokenExpired",            ok |-> unix <= tok.exp + Skew],
             [status |-> "WrongAudience",           ok |-> "audience" \in claims],
             [status |-> "WrongEmail",              ok |-> "email" \in claims],
             [status |-> "PublicKeyNotFound",       ok |-> tok.kid \in publicKeys],
             [status |-> "WrongSignature",          ok |-> "signature" \in claims] >>
<1>1. \A claims : VerifyToken(tok, claims, unix) = FirstFailed(Checks(claims))
  BY DEF VerifyToken
<1>2. ASSUME NEW claims
      PROVE  /\ DOMAIN Checks(claims) = 1..11
             /\ Checks(claims)[4].ok
             /\ Checks(claims)[5].ok
             /\ Checks(claims)[6].ok
             /\ Checks(claims)[7].ok
             /\ Checks(claims)[10].ok
             /\ "token" \in claims => Checks(claims)[1].ok
             /\ "jwt" \in claims => Checks(claims)[2].ok
             /\ "issuer" \in claims => Checks(claims)[3].ok
             /\ "audience" \in claims => Checks(claims)[8].ok
             /\ "email" \in claims => Checks(claims)[9].ok
             /\ "signature" \in claims => Checks(claims)[11].ok
             /\ Checks(claims)[9].ok => "email" \in claims
             /\ Checks(claims)[9].status = "WrongEmail"
  <2>1. DOMAIN Checks(claims) = 1..11
    OBVIOUS
  <2>2. Checks(claims)[4].ok
    OBVIOUS
  <2>3. Checks(claims)[5].ok
    OBVIOUS
  <2>4. Checks(claims)[6].ok
    OBVIOUS
  <2>5. Checks(claims)[7].ok
    OBVIOUS
  <2>6. Checks(claims)[10].ok
    OBVIOUS
  <2>7. "token" \in claims => Checks(claims)[1].ok
    OBVIOUS
  <2>8. "jwt" \in claims => Checks(claims)[2].ok
    OBVIOUS
  <2>9. "issuer" \in claims => Checks(claims)[3].ok
    OBVIOUS
  <2>10. "audience" \in claims => Checks(claims)[8].ok
    OBVIOUS
  <2>11. "email" \in claims => Checks(claims)[9].ok
    OBVIOUS
  <2>12. "signature" \in claims => Checks(claims)[11].ok
    OBVIOUS
  <2>13. Checks(claims)[9].ok => "email" \in claims
    OBVIOUS
  <2>14. Checks(claims)[9].status = "WrongEmail"
    OBVIOUS
  <2> HIDE DEF Checks
  <2> QED
    BY <2>1, <2>2, <2>3, <2>4, <2>5, <2>6, <2>7, <2>8,
       <2>9, <2>10, <2>11, <2>12, <2>13, <2>14
<1> HIDE DEF Checks
<1>3. \A i \in 1..11 : \/ i = 1 \/ i = 2 \/ i = 3 \/ i = 4 \/ i = 5 \/ i = 6
                         \/ i = 7 \/ i = 8 \/ i = 9 \/ i = 10 \/ i = 11
  OBVIOUS
<1>4. \A i \in DOMAIN Checks(Claims) : Checks(Claims)[i].ok
  BY <1>2, <1>3 DEF Claims
<1>5. \A i \in DOMAIN Checks(Claims \ {"email"}) :
        i # 9 => Checks(Claims \ {"email"})[i].ok
  BY <1>2, <1>3 DEF Claims
<1>6. 9 \in DOMAIN Checks(Claims \ {"email"}) /\ ~Checks(Claims \ {"email"})[9].ok
  BY <1>2
<1>7. FirstFailed(Checks(Claims \ {"email"})) = "WrongEmail"
  <2> DEFINE list == Checks(Claims \ {"email"})
  <2>1. list[9].status = "WrongEmail" /\ 9 \in Nat
    BY <1>2
  <2>2. 9 \in DOMAIN list /\ ~list[9].ok /\ \A i \in DOMAIN list : i # 9 => list[i].ok
    BY <1>5, <1>6
  <2> HIDE DEF list
  <2>3. FirstFailed(list) = list[9].status
    BY <2>1, <2>2, FirstFailedOne, Zenon
  <2> QED
    BY <2>1, <2>3 DEF list
<1> QED
  BY <1>1, <1>4, <1>7, FirstFailedNone

-----------------------------------------------------------------------------
(* Where tokens come from in a step of the provider: what is cached or     *)
(* answered was cached or on its way, and what is new on its way has been  *)
(* signed just now.                                                        *)
OnItsWay(tok) == \E p \in Procs : calls[p].pc = "issued" /\ tok = calls[p].tok

Flow ==
  /\ now' = now
  /\ idToken' = idToken \/ OnItsWay(idToken')
  /\ \A q \in Procs : calls'[q].pc = "issued" =>
       \/ OnItsWay(calls'[q].tok)
       \/ calls'[q].tok.kid = gen /\ calls'[q].tok.iat = now
  /\ \A c \in Callers : answers'[c] # answers[c] =>
       /\ answers'[c].at = now
       /\ \/ answers'[c].tok = idToken /\ idToken # NoToken
          \/ OnItsWay(answers'[c].tok)

(* Steps that only replace a request by one that carries no token.         *)
LEMMA FlowQuiet ==
  ASSUME TypeOK, NEW p \in Procs, NEW new, new.pc # "issued",
         calls' = calls \/ calls' = [calls EXCEPT ![p] = new],
         now' = now, answers' = answers, idToken' = idToken \/ OnItsWay(idToken')
  PROVE  Flow
<1>1. \A q \in Procs : calls'[q] = calls[q] \/ calls'[q] = new
  BY DEF TypeOK
<1>2. \A q \in Procs : calls'[q].pc = "issued" => OnItsWay(calls'[q].tok)
  BY <1>1 DEF OnItsWay
<1> QED
  BY <1>2 DEF Flow

LEMMA FlowReceives ==
  ASSUME TypeOK, NEW p \in Procs, GetTokenReceives(p)
  PROVE  Flow
<1>1. /\ now' = now /\ idToken' = calls[p].tok /\ calls' = [calls EXCEPT ![p] = Idle]
      /\ calls[p].pc = "issued"
  BY DEF GetTokenReceives, clock
<1>2. \/ answers' = answers
      \/ p \in Callers /\ answers' = [answers EXCEPT ![p] = [tok |-> calls[p].tok, at |-> now]]
  BY DEF GetTokenReceives, Procs
<1>3. ASSUME NEW c \in Callers, answers'[c] # answers[c]
      PROVE  answers'[c].at = now /\ OnItsWay(answers'[c].tok)
  <2>1. answers'[c] = [tok |-> calls[p].tok, at |-> now]
    BY <1>2, <1>3 DEF TypeOK
  <2>2. answers'[c].at = now /\ answers'[c].tok = calls[p].tok
    BY <2>1
  <2> QED
    BY <1>1, <2>2 DEF OnItsWay
<1>4. \A q \in Procs : calls'[q] = calls[q] \/ calls'[q].pc = "idle"
  BY <1>1, IdleFacts DEF TypeOK
<1>5. \A q \in Procs : calls'[q].pc = "issued" => OnItsWay(calls'[q].tok)
  BY <1>4 DEF OnItsWay
<1>6. OnItsWay(idToken')
  BY <1>1 DEF OnItsWay
<1> QED
  BY <1>1, <1>3, <1>5, <1>6 DEF Flow

LEMMA FlowIssue ==
  ASSUME TypeOK, NEW p \in Procs, Issue(p, gen)
  PROVE  Flow
<1> DEFINE t == [iat |-> now, exp |-> now + Life, cred |-> calls[p].cred, kid |-> gen]
<1>1. UNCHANGED <<now, idToken, answers>>
  BY DEF Issue, clock
<1>2. t.iat = now /\ t.kid = gen
  OBVIOUS
<1>3. calls' = [calls EXCEPT ![p] = [calls[p] EXCEPT !.pc = "issued", !.tok = t]]
  BY DEF Issue, TypeOK
<1> HIDE DEF t
<1>4. \A q \in Procs : calls'[q] = IF q = p THEN [calls[p] EXCEPT !.pc = "issued", !.tok = t]
                                   ELSE calls[q]
  BY <1>3 DEF TypeOK
<1>5. calls'[p].tok = t
  BY <1>4 DEF TypeOK
<1>6. \A q \in Procs : q # p /\ calls'[q].pc = "issued" => OnItsWay(calls'[q].tok)
  BY <1>4 DEF OnItsWay
<1> QED
  BY <1>1, <1>2, <1>5, <1>6 DEF Flow

LEMMA FlowCached ==
  ASSUME TypeOK, NEW c \in Callers, GetCachedToken(c)
  PROVE  Flow
<1>1. /\ UNCHANGED <<now, idToken, calls>> /\ idToken # NoToken
      /\ answers' = [answers EXCEPT ![c] = [tok |-> idToken, at |-> now]]
  BY DEF GetCachedToken, clock, RenewLatest
<1>2. ASSUME NEW d \in Callers, answers'[d] # answers[d]
      PROVE  answers'[d].at = now /\ answers'[d].tok = idToken
  <2>1. answers'[d] = [tok |-> idToken, at |-> now]
    BY <1>1, <1>2 DEF TypeOK
  <2> QED
    BY <2>1
<1>3. \A q \in Procs : calls'[q].pc = "issued" => OnItsWay(calls'[q].tok)
  BY <1>1 DEF OnItsWay
<1> QED
  BY <1>1, <1>2, <1>3 DEF Flow

LEMMA ProviderFlow ==
  ASSUME IInv, KeyInv, ProviderStep
  PROVE  Next /\ Flow
<1>0. TypeOK /\ Refresher \in Procs /\ Main \in Procs /\ gen \in Kids /\ Callers \subseteq Procs
  BY DEF IInv, KeyInv, Procs
<1>1. CASE Edit
  <2>1. UNCHANGED <<now, idToken, calls, answers>>
    BY <1>1 DEF Edit, Truncate, Write, Replace, Remove, Create, Changes, clock
  <2> QED
    BY <1>0, <1>1, <2>1, FlowQuiet, IdleFacts DEF Next
<1>2. CASE Watcher
  <2>1. UNCHANGED <<now, idToken, calls, answers>>
    BY <1>2 DEF Watcher, TakeEvent, WaitForReplacement, Action, clock
  <2> QED
    BY <1>0, <1>2, <2>1, FlowQuiet, IdleFacts DEF Next
<1>3. CASE Starting
  <2>1. UNCHANGED <<now, idToken, calls, answers>>
    BY <1>3 DEF Starting, WatchForUpdates, CannotWatch, MakeProvider, clock
  <2> QED
    BY <1>0, <1>3, <2>1, FlowQuiet, IdleFacts DEF Next
<1>4. CASE Renewing
  <2>1. CASE RefreshTick
    <3>1. UNCHANGED <<now, idToken, answers>>
          /\ (calls' = calls \/ calls' = [calls EXCEPT ![Refresher] = Asked(source)])
      BY <2>1 DEF RefreshTick, clock
    <3> QED
      BY <1>0, <1>4, <3>1, FlowQuiet, IdleFacts DEF Next
  <2>2. CASE RefreshFails
    <3>1. UNCHANGED <<now, idToken, answers>>
          /\ (\/ calls' = [calls EXCEPT ![Refresher] = Idle]
              \/ calls' = [calls EXCEPT ![Refresher] = [Idle EXCEPT !.pc = "backoff"]])
      BY <2>2 DEF RefreshFails, clock
    <3> QED
      BY <1>0, <1>4, <3>1, FlowQuiet, IdleFacts DEF Next
  <2>3. CASE RefreshRetries
    <3>1. UNCHANGED <<now, idToken, answers>> /\ calls' = [calls EXCEPT ![Refresher] = Asked(source)]
      BY <2>3 DEF RefreshRetries, clock
    <3> QED
      BY <1>0, <1>4, <3>1, FlowQuiet, IdleFacts DEF Next
  <2>4. CASE RefreshReceives
    <3>1. UNCHANGED <<now, answers>> /\ calls' = [calls EXCEPT ![Refresher] = Idle]
          /\ OnItsWay(idToken')
      BY <1>0, <2>4 DEF RefreshReceives, clock, OnItsWay
    <3> QED
      BY <1>0, <1>4, <3>1, FlowQuiet, IdleFacts DEF Next
  <2> QED
    BY <1>4, <2>1, <2>2, <2>3, <2>4 DEF Renewing
<1>5. ASSUME NEW p \in Procs, GetTokenReceives(p) PROVE Next /\ Flow
  BY <1>0, <1>5, FlowReceives DEF Next, Serving
<1>6. ASSUME NEW p \in Procs, GetTokenFails(p) PROVE Next /\ Flow
  <2>1. UNCHANGED <<now, idToken, answers>> /\ calls' = [calls EXCEPT ![p] = Idle]
    BY <1>6 DEF GetTokenFails, clock
  <2> QED
    BY <1>0, <1>6, <2>1, FlowQuiet, IdleFacts DEF Next, Serving
<1>7. ASSUME NEW p \in Procs, GetTokenAsks(p) PROVE Next /\ Flow
  <2>1. UNCHANGED <<now, idToken, answers>> /\ calls' = [calls EXCEPT ![p] = Asked(source)]
    BY <1>7 DEF GetTokenAsks, clock
  <2> QED
    BY <1>0, <1>7, <2>1, FlowQuiet, IdleFacts DEF Next, Serving
<1>8. ASSUME NEW p \in Procs, Issue(p, gen) PROVE Next /\ Flow
  BY <1>0, <1>8, FlowIssue DEF Next
<1>9. ASSUME NEW c \in Callers, GetCachedToken(c) PROVE Next /\ Flow
  BY <1>0, <1>9, FlowCached DEF Next
<1> QED
  BY <1>0, <1>1, <1>2, <1>3, <1>4, <1>5, <1>6, <1>7, <1>8, <1>9 DEF ProviderStep

-----------------------------------------------------------------------------
(* Steps of the provider: the verifier and the exchanges are unchanged.    *)
LEMMA ProviderInv == ASSUME GatewayInv, ProviderStep PROVE GatewayInv'
<1>1. /\ IInv /\ TokenInv /\ KeyInv /\ SignatureInv /\ ExchangeInv /\ TokensAreAccepted
      /\ TypeOK /\ now \in Nat
  BY Numbers DEF GatewayInv, IInv
<1>2. Next /\ Flow
  BY <1>1, ProviderFlow
<1>3. IInv' /\ TokenInv'
  BY <1>1, <1>2, NextInv, TokenStep
<1>4. UNCHANGED <<gen, publicKeys, dueAt, certFails, rotatedAt, drift, gw>> /\ now' = now
  BY <1>2 DEF ProviderStep, info, Flow
<1>5. KeyInv' /\ TokensAreAccepted'
  BY <1>1, <1>4 DEF KeyInv, LoadedAt, TokensAreAccepted
<1>6. \A tok : OnItsWay(tok) => SignedWith(tok, now, gen, rotatedAt) /\ tok # NoToken
  <2>1. ASSUME NEW p \in Procs, calls[p].pc = "issued"
        PROVE  SignedWith(calls[p].tok, now, gen, rotatedAt) /\ calls[p].tok # NoToken
    BY <1>1, <2>1, YoungToken DEF IInv, SignatureInv
  <2> QED
    BY <2>1 DEF OnItsWay
<1>7. SignatureInv'
  <2>1. idToken' # NoToken => SignedWith(idToken', now, gen, rotatedAt)
    BY <1>1, <1>2, <1>6 DEF Flow, SignatureInv
  <2>2. ASSUME NEW q \in Procs, calls'[q].pc = "issued"
        PROVE  SignedWith(calls'[q].tok, now, gen, rotatedAt)
    BY <1>1, <1>2, <1>6, <2>2 DEF Flow, SignedWith, KeyInv
  <2>3. ASSUME NEW c \in Callers, answers'[c].tok # NoToken
        PROVE  SignedWith(answers'[c].tok, now, gen, rotatedAt)
    BY <1>1, <1>2, <1>6, <2>3 DEF Flow, SignatureInv
  <2> QED
    BY <1>4, <2>1, <2>2, <2>3 DEF SignatureInv
<1>8. ExchangeInv'
  <2>1. ASSUME NEW c \in Callers
        PROVE  /\ answers'[c] # NoAnswer =>
                    /\ answers'[c].tok # NoToken
                    /\ answers'[c].at <= now /\ now <= answers'[c].at + AuthTimeout
               /\ gw[c].pc = "sent" => answers'[c] # NoAnswer
    <3>1. CASE answers'[c] = answers[c]
      BY <1>1, <3>1 DEF ExchangeInv
    <3>2. CASE answers'[c] # answers[c]
      <4>1. answers'[c].at = now /\ answers'[c].tok # NoToken
        BY <1>2, <1>6, <3>2 DEF Flow
      <4>2. answers'[c] # NoAnswer
        BY <4>1 DEF NoAnswer
      <4> QED
        BY <1>1, <4>1, <4>2, GatewayConstants
    <3> QED
      BY <3>1, <3>2
  <2> QED
    BY <1>1, <1>4, <2>1 DEF ExchangeInv
<1> QED
  BY <1>3, <1>5, <1>7, <1>8 DEF GatewayInv

(* Steps that leave the provider as it is.                                 *)
LEMMA ProviderSame ==
  ASSUME IInv, TokenInv, UNCHANGED vars
  PROVE  IInv' /\ TokenInv'
BY NextInv, TokenStep

LEMMA VerifierInv == ASSUME GatewayInv, VerifierStep PROVE GatewayInv'
<1>1. /\ IInv /\ TokenInv /\ KeyInv /\ SignatureInv /\ ExchangeInv /\ TokensAreAccepted
      /\ TypeOK /\ now \in Nat
  BY Numbers DEF GatewayInv, IInv
<1>2. UNCHANGED <<kind, link, now, up, starved, provider, idToken, calls, answers, refresh,
                  file, watcher, missed, gen, rotatedAt, drift, gw>>
  BY DEF VerifierStep, RefreshCerts, RefreshCertsFails
<1>3. IInv' /\ TokenInv'
  BY <1>1, <1>2, ProviderSame DEF vars, clock
<1>4. SignatureInv' /\ ExchangeInv' /\ TokensAreAccepted'
  BY <1>1, <1>2 DEF SignatureInv, ExchangeInv, TokensAreAccepted
<1>5. KeyInv'
  <2>1. dueAt \in Int /\ certFails \in Nat /\ certFails <= MaxCertFails /\ now <= dueAt
    BY <1>1, GatewayConstants DEF KeyInv
  <2>2. CASE RefreshCerts
    <3>1. /\ publicKeys' = {gen - 1, gen, gen + 1} \cap Kids
          /\ dueAt' = now + CertsEvery /\ certFails' = 0
      BY <2>2 DEF RefreshCerts, Published
    <3>2. LoadedAt' = now
      BY <1>1, <3>1, GatewayConstants DEF LoadedAt
    <3>3. dueAt' \in Int /\ now <= dueAt' /\ certFails' \in 0..MaxCertFails
      BY <1>1, <3>1, GatewayConstants
    <3>4. LoadedAt' <= now
      BY <1>1, <3>2
    <3> QED
      BY <1>1, <1>2, <3>1, <3>3, <3>4 DEF KeyInv
  <2>3. CASE RefreshCertsFails
    <3>1. /\ publicKeys' = publicKeys /\ now = dueAt /\ certFails < MaxCertFails
          /\ dueAt' = now + 1 /\ certFails' = certFails + 1
      BY <2>3 DEF RefreshCertsFails
    <3>2. LoadedAt' = LoadedAt
      BY <1>1, <2>1, <3>1, GatewayConstants DEF LoadedAt
    <3>3. dueAt' \in Int /\ now <= dueAt' /\ certFails' \in 0..MaxCertFails
      BY <1>1, <2>1, <3>1, GatewayConstants
    <3> QED
      BY <1>1, <1>2, <3>1, <3>2, <3>3 DEF KeyInv
  <2> QED
    BY <2>2, <2>3 DEF VerifierStep
<1> QED
  BY <1>3, <1>4, <1>5 DEF GatewayInv

(* A key that is in use for RotateEvery has outlived the tokens of the key *)
(* before it, and the verifier has loaded the keys since it came into use. *)
LEMMA RotateInv == ASSUME GatewayInv, RotateKey PROVE GatewayInv'
<1>1. /\ IInv /\ TokenInv /\ KeyInv /\ SignatureInv /\ ExchangeInv /\ TokensAreAccepted
      /\ TypeOK /\ now \in Nat
  BY Numbers DEF GatewayInv, IInv
<1>2. /\ now - rotatedAt >= RotateEvery /\ gen + 1 \in Kids
      /\ gen' = gen + 1 /\ rotatedAt' = now
      /\ UNCHANGED <<vars, publicKeys, dueAt, certFails, drift, gw>>
  BY DEF RotateKey
<1>3. UNCHANGED <<now, idToken, calls, answers>>
  BY <1>2 DEF vars, clock
<1>4. IInv' /\ TokenInv'
  BY <1>1, <1>2, ProviderSame
<1>5. ExchangeInv' /\ TokensAreAccepted'
  BY <1>1, <1>2, <1>3 DEF ExchangeInv, TokensAreAccepted
<1>6. gen \in Nat /\ rotatedAt \in Int /\ dueAt \in Int /\ certFails \in Nat
      /\ certFails <= MaxCertFails /\ now <= dueAt
  BY <1>1, GatewayConstants DEF KeyInv
<1>7. KeyInv'
  <2>1. ~(LoadedAt <= rotatedAt)
    BY <1>1, <1>2, <1>6, GatewayConstants DEF LoadedAt
  <2>2. publicKeys = {gen - 1, gen, gen + 1} \cap Kids
    BY <1>1, <2>1 DEF KeyInv
  <2>3. gen' - 2 = gen - 1 /\ gen' - 1 = gen /\ gen' \in Nat /\ gen' \in Kids
    BY <1>2, <1>6
  <2>4. publicKeys' = {gen' - 2, gen' - 1, gen'} \cap Kids
    BY <1>2, <2>2, <2>3
  <2>5. LoadedAt' = LoadedAt /\ LoadedAt <= now
    BY <1>1, <1>2 DEF LoadedAt, KeyInv
  <2>6. rotatedAt' \in Int /\ rotatedAt' <= now'
    BY <1>1, <1>2, <1>3
  <2> QED
    BY <1>1, <1>2, <1>3, <2>3, <2>4, <2>5, <2>6 DEF KeyInv
<1>8. ASSUME NEW tok \in Token, IssuedBy(tok, now), SignedWith(tok, now, gen, rotatedAt)
      PROVE  SignedWith(tok, now', gen', rotatedAt')
  <2>1. tok.iat \in Nat /\ tok.exp = tok.iat + Life /\ tok.iat <= now /\ tok.kid \in Kids
    BY <1>8 DEF Token, IssuedBy, SignedWith
  <2>2. CASE tok.exp < now
    BY <1>3, <2>1, <2>2 DEF SignedWith
  <2>3. CASE tok.kid = gen
    <3>1. tok.kid = gen' - 1
      BY <1>2, <1>6, <2>3
    <3> QED
      BY <1>2, <2>1, <3>1 DEF SignedWith
  <2>4. CASE tok.iat <= rotatedAt
    <3>1. tok.exp < now
      BY <1>1, <1>2, <1>6, <2>1, <2>4, GatewayConstants, Constants
    <3> QED
      BY <1>3, <2>1, <3>1 DEF SignedWith
  <2> QED
    BY <1>8, <2>2, <2>3, <2>4 DEF SignedWith
<1>9. SignatureInv'
  <2>1. /\ idToken \in Token /\ \A p \in Procs : calls[p].tok \in Token
        /\ \A c \in Callers : answers[c].tok \in Token
    BY <1>1 DEF TypeOK
  <2> QED
    BY <1>1, <1>3, <1>8, <2>1 DEF SignatureInv, TokenInv
<1> QED
  BY <1>4, <1>5, <1>7, <1>9 DEF GatewayInv

LEMMA GatewayTickInv == ASSUME GatewayInv, GatewayTick PROVE GatewayInv'
<1>1. /\ IInv /\ TokenInv /\ KeyInv /\ SignatureInv /\ ExchangeInv /\ TokensAreAccepted
      /\ TypeOK /\ now \in Nat
  BY Numbers DEF GatewayInv, IInv
<1>2. /\ \A c \in Callers : answers[c] # NoAnswer => now < answers[c].at + AuthTimeout
      /\ now < dueAt /\ Tick
      /\ UNCHANGED <<gen, publicKeys, dueAt, certFails, rotatedAt, drift, gw>>
  BY DEF GatewayTick, info
<1>3. now' = now + 1 /\ UNCHANGED <<idToken, calls, answers>>
  BY <1>2 DEF Tick
<1>4. IInv' /\ TokenInv'
  BY <1>1, <1>2, NextInv, TokenStep DEF Next
<1>5. KeyInv'
  <2>1. dueAt \in Int /\ certFails \in Nat /\ rotatedAt \in Int /\ rotatedAt <= now
        /\ LoadedAt <= now /\ LoadedAt \in Int
    BY <1>1, GatewayConstants DEF KeyInv, LoadedAt
  <2>2. LoadedAt' = LoadedAt
    BY <1>2 DEF LoadedAt
  <2>3. now' <= dueAt /\ rotatedAt <= now' /\ LoadedAt <= now'
    BY <1>1, <1>2, <1>3, <2>1
  <2> QED
    BY <1>1, <1>2, <2>2, <2>3 DEF KeyInv
<1>6. TokensAreAccepted'
  BY <1>1, <1>2 DEF TokensAreAccepted
<1>7. SignatureInv'
  <2>1. \A tok \in Token : SignedWith(tok, now, gen, rotatedAt) =>
                           SignedWith(tok, now', gen, rotatedAt)
    BY <1>1, <1>3 DEF SignedWith, Token
  <2>2. /\ idToken \in Token /\ \A p \in Procs : calls[p].tok \in Token
        /\ \A c \in Callers : answers[c].tok \in Token
    BY <1>1 DEF TypeOK
  <2> QED
    BY <1>1, <1>2, <1>3, <2>1, <2>2 DEF SignatureInv
<1>8. ExchangeInv'
  <2>1. \A c \in Callers : answers[c].at \in Nat
    BY <1>1 DEF TypeOK
  <2>2. \A c \in Callers : answers[c] # NoAnswer =>
          answers[c].at <= now' /\ now' <= answers[c].at + AuthTimeout
    BY <1>1, <1>2, <1>3, <2>1, GatewayConstants DEF ExchangeInv
  <2> QED
    BY <1>1, <1>2, <1>3, <2>2 DEF ExchangeInv
<1> QED
  BY <1>4, <1>5, <1>6, <1>7, <1>8 DEF GatewayInv

-----------------------------------------------------------------------------
(* Steps of an exchange.                                                   *)
LEMMA SendInv == ASSUME GatewayInv, NEW c \in Callers, SendGatewayAuth(c) PROVE GatewayInv'
<1>1. /\ IInv /\ TokenInv /\ KeyInv /\ SignatureInv /\ ExchangeInv /\ TokensAreAccepted
  BY DEF GatewayInv
<1>2. /\ answers[c] # NoAnswer /\ gw' = [gw EXCEPT ![c].pc = "sent"]
      /\ UNCHANGED <<vars, gen, publicKeys, dueAt, certFails, rotatedAt, drift>>
  BY DEF SendGatewayAuth, info
<1>3. UNCHANGED <<now, idToken, calls, answers>>
  BY <1>2 DEF vars, clock
<1>4. IInv' /\ TokenInv' /\ KeyInv' /\ SignatureInv'
  BY <1>1, <1>2, <1>3, ProviderSame DEF KeyInv, LoadedAt, SignatureInv
<1>5. gw' \in [Callers -> [pc : {"none", "sent", "done"}, fits : BOOLEAN, status : Statuses]]
  BY <1>1, <1>2 DEF ExchangeInv
<1>6. \A d \in Callers : IF d = c THEN gw'[d].pc = "sent" ELSE gw'[d] = gw[d]
  BY <1>1, <1>2 DEF ExchangeInv
<1>7. ExchangeInv'
  BY <1>1, <1>2, <1>3, <1>5, <1>6 DEF ExchangeInv
<1>8. TokensAreAccepted'
  BY <1>1, <1>6 DEF TokensAreAccepted
<1> QED
  BY <1>4, <1>7, <1>8 DEF GatewayInv

(* The token of an exchange passes the checks of times and key.            *)
LEMMA AnswerVerified ==
  ASSUME GatewayInv, AuthTimeout <= Skew, NEW c \in Callers, answers[c] # NoAnswer
  PROVE  /\ VerifyToken(answers[c].tok, Claims, now + drift) = "OK"
         /\ VerifyToken(answers[c].tok, Claims \ {"email"}, now + drift) = "WrongEmail"
<1> DEFINE tok == answers[c].tok
<1>1. /\ IInv /\ TokenInv /\ KeyInv /\ SignatureInv /\ ExchangeInv /\ TypeOK /\ now \in Nat
      /\ AnswersAreValid
  BY Numbers DEF GatewayInv, IInv
<1>2. /\ tok # NoToken /\ answers[c].at <= now /\ now <= answers[c].at + AuthTimeout
      /\ drift \in Int /\ -Skew <= drift /\ drift <= Skew
  BY <1>1 DEF ExchangeInv
<1>3. answers[c].at \in Nat /\ tok \in Token
  BY <1>1 DEF TypeOK
<1>4. tok.iat \in Nat /\ tok.exp \in Nat
  BY <1>3 DEF Token
<1>5. 1 <= tok.iat /\ tok.iat <= now /\ tok.exp = tok.iat + Life
  BY <1>1, <1>2 DEF TokenInv, IssuedBy
<1>6. answers[c].at + Skew <= tok.exp
  BY <1>1, <1>2 DEF AnswersAreValid
<1>7. SignedWith(tok, now, gen, rotatedAt)
  BY <1>1, <1>2 DEF SignatureInv
<1> HIDE DEF tok
<1>8. ~(tok.exp < now)
  BY <1>1, <1>2, <1>3, <1>4, <1>6, Constants, GatewayConstants
<1>9. tok.kid \in publicKeys
  <2>1. tok.kid \in Kids /\ (tok.kid = gen \/ tok.kid = gen - 1)
    BY <1>7, <1>8 DEF SignedWith
  <2>2. {gen - 1, gen} \cap Kids \subseteq publicKeys
    BY <1>1 DEF KeyInv
  <2> QED
    BY <2>1, <2>2
<1>10. /\ tok.iat >= 1 /\ tok.exp >= 1 /\ now + drift >= tok.iat - Skew
       /\ now + drift <= tok.exp + Skew
  BY <1>1, <1>2, <1>3, <1>4, <1>5, <1>6, Constants, GatewayConstants
<1>11. VerifyToken(tok, Claims, now + drift) = "OK"
       /\ VerifyToken(tok, Claims \ {"email"}, now + drift) = "WrongEmail"
  BY <1>9, <1>10, Verified
<1> QED
  BY <1>11 DEF tok

LEMMA ReceiveInv ==
  ASSUME GatewayInv, AuthTimeout <= Skew, NEW c \in Callers, ReceiveGatewayAuth(c)
  PROVE  GatewayInv'
<1>1. /\ IInv /\ TokenInv /\ KeyInv /\ SignatureInv /\ ExchangeInv /\ TokensAreAccepted
  BY DEF GatewayInv
<1>2. gw[c].pc = "sent" /\ UNCHANGED <<vars, gen, publicKeys, dueAt, certFails, rotatedAt, drift>>
  BY DEF ReceiveGatewayAuth, info
<1>3. UNCHANGED <<now, idToken, calls, answers>>
  BY <1>2 DEF vars, clock
<1>4. IInv' /\ TokenInv' /\ KeyInv' /\ SignatureInv'
  BY <1>1, <1>2, <1>3, ProviderSame DEF KeyInv, LoadedAt, SignatureInv
<1>5. answers[c] # NoAnswer
  BY <1>1, <1>2 DEF ExchangeInv
<1>6. PICK matching \in BOOLEAN, claims \in {Claims, Claims \ {"email"}} :
        gw' = [gw EXCEPT ![c] =
                 [pc |-> "done", fits |-> matching /\ claims = Claims,
                  status |-> IF ~matching THEN "Mismatch"
                             ELSE VerifyToken(answers[c].tok, claims, now + drift)]]
  BY DEF ReceiveGatewayAuth
<1> DEFINE fits == matching /\ claims = Claims
           status == IF ~matching THEN "Mismatch"
                     ELSE VerifyToken(answers[c].tok, claims, now + drift)
           new == [pc |-> "done", fits |-> fits, status |-> status]
<1>7. /\ VerifyToken(answers[c].tok, Claims, now + drift) = "OK"
      /\ VerifyToken(answers[c].tok, Claims \ {"email"}, now + drift) = "WrongEmail"
  BY <1>5, AnswerVerified
<1>8. claims # Claims => claims = Claims \ {"email"}
  OBVIOUS
<1>9. status \in Statuses
  BY <1>7, <1>8 DEF Statuses
<1>10. fits \in BOOLEAN
  OBVIOUS
<1>11. fits => status = "OK"
  BY <1>7
<1>12. status = "OK" => fits
  BY <1>7, <1>8
<1>13. gw' = [gw EXCEPT ![c] = new]
  BY <1>6
<1> HIDE DEF fits, status
<1>14. new \in [pc : {"none", "sent", "done"}, fits : BOOLEAN, status : Statuses]
  BY <1>9, <1>10, ExchangeType
<1>15. new.pc = "done" /\ new.status = status
  OBVIOUS
<1>16. new.fits <=> fits
  BY <1>10
<1> HIDE DEF new
<1>17. gw' \in [Callers -> [pc : {"none", "sent", "done"}, fits : BOOLEAN, status : Statuses]]
  BY <1>1, <1>13, <1>14 DEF ExchangeInv
<1>18. \A d \in Callers : gw'[d] = IF d = c THEN new ELSE gw[d]
  BY <1>1, <1>13 DEF ExchangeInv
<1>19. ExchangeInv'
  BY <1>1, <1>2, <1>3, <1>15, <1>17, <1>18 DEF ExchangeInv
<1>20. TokensAreAccepted'
  <2>1. ASSUME NEW d \in Callers, gw'[d].pc = "done"
        PROVE  gw'[d].fits <=> gw'[d].status = "OK"
    <3>1. CASE d = c
      BY <1>11, <1>12, <1>15, <1>16, <1>18, <3>1
    <3>2. CASE d # c
      BY <1>1, <1>18, <2>1, <3>2 DEF TokensAreAccepted
    <3> QED
      BY <3>1, <3>2
  <2> QED
    BY <2>1 DEF TokensAreAccepted
<1> QED
  BY <1>4, <1>19, <1>20 DEF GatewayInv

(* The answer that a connection drops is all that an exchange changes of   *)
(* the provider.                                                           *)
LEMMA EndInv == ASSUME GatewayInv, NEW c \in Callers, EndExchange(c) PROVE GatewayInv'
<1>1. /\ IInv /\ TokenInv /\ KeyInv /\ SignatureInv /\ ExchangeInv /\ TokensAreAccepted /\ TypeOK
  BY DEF GatewayInv, IInv
<1>2. /\ gw' = [gw EXCEPT ![c] = NoExchange] /\ answers' = [answers EXCEPT ![c] = NoAnswer]
      /\ UNCHANGED <<kind, link, clock, provider, idToken, calls, refresh, file,
                     watcher, missed, gen, publicKeys, dueAt, certFails, rotatedAt, drift>>
  BY DEF EndExchange, info
<1>3. now' = now
  BY <1>2 DEF clock
<1>4. \A d \in Callers : answers'[d] = IF d = c THEN NoAnswer ELSE answers[d]
  BY <1>1, <1>2 DEF TypeOK
<1>5. \A d \in Callers : gw'[d] = IF d = c THEN NoExchange ELSE gw[d]
  BY <1>1, <1>2 DEF ExchangeInv
<1>6. NoAnswer.tok = NoToken /\ NoExchange.pc = "none"
  BY DEF NoAnswer, NoExchange
<1>7. answers' \in [Callers -> [tok : Token, at : Nat]]
  <2>1. NoAnswer \in [tok : Token, at : Nat]
    BY TokenTypes DEF NoAnswer
  <2> QED
    BY <1>1, <1>2, <2>1 DEF TypeOK
<1>8. TypeOK'
  BY <1>1, <1>2, <1>7 DEF TypeOK, clock, provider, refresh, file, watcher
<1>9. AnswersAreValid'
  BY <1>1, <1>4, <1>6 DEF IInv, AnswersAreValid
<1>10. CallInv' /\ StartInv'
  BY <1>1, <1>2 DEF IInv, CallInv, StartInv, clock, provider
<1>11. TokenInv' /\ KeyInv' /\ SignatureInv'
  BY <1>1, <1>2, <1>3, <1>4, <1>6 DEF TokenInv, KeyInv, LoadedAt, SignatureInv
<1>12. gw' \in [Callers -> [pc : {"none", "sent", "done"}, fits : BOOLEAN, status : Statuses]]
  BY <1>1, <1>2, NoExchangeType DEF ExchangeInv
<1>13. ExchangeInv' /\ TokensAreAccepted'
  BY <1>1, <1>2, <1>3, <1>4, <1>5, <1>6, <1>12 DEF ExchangeInv, TokensAreAccepted
<1> QED
  BY <1>8, <1>9, <1>10, <1>11, <1>13 DEF GatewayInv, IInv

-----------------------------------------------------------------------------
LEMMA GatewayNextInv ==
  ASSUME GatewayInv, AuthTimeout <= Skew, [GatewayNext]_gwVars
  PROVE  GatewayInv'
<1>1. CASE UNCHANGED gwVars
  <2>1. /\ UNCHANGED <<vars, gen, publicKeys, dueAt, certFails, rotatedAt, drift, gw>>
        /\ UNCHANGED <<now, idToken, calls, answers>>
    BY <1>1 DEF gwVars, info, vars, clock
  <2> QED
    BY <2>1, ProviderSame DEF GatewayInv, KeyInv, LoadedAt, SignatureInv, ExchangeInv,
                              TokensAreAccepted
<1> QED
  BY <1>1, ProviderInv, VerifierInv, RotateInv, GatewayTickInv, SendInv, ReceiveInv, EndInv
     DEF GatewayNext

(* What the provider hands out the gateway takes, for any number of        *)
(* connections: a token GetToken answered with is refused only when the    *)
(* configurations differ or it is meant for another user, however the      *)
(* clocks drift within the skew, whenever the key changes and whichever    *)
(* attempts to load the keys fail.  The exchange must be over within the   *)
(* skew: the timeouts are 10 seconds, the skew is a minute.                *)
THEOREM GatewayTakesTokens ==
  ASSUME AuthTimeout <= Skew PROVE GatewaySpec => []TokensAreAccepted
<1>1. GatewayInit => GatewayInv
  BY GatewayInitInv
<1>2. GatewayInv /\ [GatewayNext]_gwVars => GatewayInv'
  BY GatewayNextInv
<1>3. GatewayInv => TokensAreAccepted
  BY DEF GatewayInv
<1> QED
  BY <1>1, <1>2, <1>3, PTL DEF GatewaySpec

(* A step of the composition is one of the providers, or leaves alone what *)
(* the renewal of the token depends on.                                    *)
LEMMA GatewayBridgeStep ==
  ASSUME GatewayInv, BridgeInv, Margins, [GatewayNext]_gwVars
  PROVE  BridgeInv'
<1>1. IInv /\ TokenInv /\ KeyInv
  BY DEF GatewayInv
<1>2. CASE ProviderStep
  BY <1>1, <1>2, ProviderFlow, BridgeStep
<1>3. CASE GatewayTick
  BY <1>1, <1>3, BridgeStep DEF GatewayTick, Next
<1>4. CASE VerifierStep
  BY <1>4, SameBridge DEF VerifierStep, RefreshCerts, RefreshCertsFails, clock, provider, refresh
<1>5. CASE RotateKey
  BY <1>5, SameBridge DEF RotateKey, vars, clock, provider, refresh
<1>6. ASSUME NEW c \in Callers, SendGatewayAuth(c) \/ ReceiveGatewayAuth(c) \/ EndExchange(c)
      PROVE  BridgeInv'
  BY <1>6, SameBridge DEF SendGatewayAuth, ReceiveGatewayAuth, EndExchange, vars, clock, provider,
                          refresh
<1>7. CASE UNCHANGED gwVars
  BY <1>7, SameBridge DEF gwVars, vars, clock, provider, refresh
<1> QED
  BY <1>2, <1>3, <1>4, <1>5, <1>6, <1>7 DEF GatewayNext

(* What holds of the providers alone holds beside a verifier: tokens       *)
(* handed out are valid, working credentials stay and outages are bridged. *)
THEOREM ProvidersInGateway ==
  ASSUME AuthTimeout <= Skew, Margins
  PROVE  GatewaySpec => [](TypeOK /\ AnswersAreValid /\ SourceStaysUsable /\ OutageIsBridged)
<1>1. GatewayInit => GatewayInv /\ BridgeInv
  BY GatewayInitInv, BridgeInit DEF GatewayInit
<1>2. GatewayInv /\ BridgeInv /\ [GatewayNext]_gwVars => (GatewayInv /\ BridgeInv)'
  BY GatewayNextInv, GatewayBridgeStep
<1>3. GatewayInv /\ BridgeInv =>
        TypeOK /\ AnswersAreValid /\ SourceStaysUsable /\ OutageIsBridged
  BY RunIsBridged DEF GatewayInv, IInv, StartInv, SourceStaysUsable
<1> QED
  BY <1>1, <1>2, <1>3, PTL DEF GatewaySpec
=============================================================================
