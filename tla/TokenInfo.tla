------------------------------ MODULE TokenInfo ------------------------------
(***************************************************************************)
(* The token verifier (googleid-info): the public keys it holds, the loop  *)
(* that refreshes them, and VerifyToken.  Key ids are numbers: tokens are  *)
(* signed with key gen, and Google publishes the keys before and after it  *)
(* as well.                                                                *)
(***************************************************************************)
EXTENDS Integers, FiniteSets

CONSTANTS
  Kids,          \* key ids
  Skew,          \* clockSkew
  CertsEvery,    \* CertsRefreshInterval
  MaxCertFails   \* bound: attempts in a row at which the keys cannot be had

VARIABLES
  now,           \* the time
  gen,           \* the key tokens are signed with
  publicKeys,    \* the keys this verifier knows
  dueAt,         \* when the refresher runs next
  certFails      \* its failed attempts

Published == {gen - 1, gen, gen + 1} \cap Kids

(* NewTokenInfo has loaded the keys, else it fails.                        *)
NewTokenInfo ==
  /\ gen = 2 /\ publicKeys = Published /\ certFails = 0 /\ dueAt = now + CertsEvery

(* refreshCerts replaces all keys.                                         *)
\* Fault.  The keys are only loaded when none are known.
RefreshCertsOnce ==
  /\ now = dueAt
  /\ publicKeys' = (IF publicKeys = {} THEN Published ELSE publicKeys)
  /\ dueAt' = now + CertsEvery /\ certFails' = 0
  /\ UNCHANGED <<now, gen>>
RefreshCerts ==
  /\ now = dueAt
  /\ publicKeys' = Published
  /\ dueAt' = now + CertsEvery /\ certFails' = 0
  /\ UNCHANGED <<now, gen>>

(* No answer, no keys in it, or one that does not parse: the keys stay and *)
(* refreshTick tries again.                                                *)
RefreshCertsFails ==
  /\ now = dueAt /\ certFails < MaxCertFails
  /\ dueAt' = now + 1 /\ certFails' = certFails + 1
  /\ UNCHANGED <<now, gen, publicKeys>>

(* What a request must have besides the times and the known key of its     *)
(* token: a token, one that parses, and what the token says.               *)
Claims == {"token", "jwt", "issuer", "audience", "email", "signature"}

(* VerifyToken: the status of the first check that fails, in the order of  *)
(* the code.  unix is the verifier's clock.                                *)
FirstFailed(checks) ==
  LET failed == {i \in DOMAIN checks : ~checks[i].ok}
  IN  IF failed = {} THEN "OK"
      ELSE checks[CHOOSE i \in failed : \A j \in failed : i <= j].status

VerifyToken(tok, claims, unix) == FirstFailed(<<
  [status |-> "EmptyToken",              ok |-> "token" \in claims],
  [status |-> "ParseJWTFailed",          ok |-> "jwt" \in claims],
  [status |-> "WrongIssuer",             ok |-> "issuer" \in claims],
  [status |-> "NoIssueTimeInToken",      ok |-> tok.iat >= 1],
  [status |-> "NoExpirationTimeInToken", ok |-> tok.exp >= 1],
  [status |-> "TokenTooEarly",           ok |-> unix >= tok.iat - Skew],
  [status |-> "TokenExpired",            ok |-> unix <= tok.exp + Skew],
  [status |-> "WrongAudience",           ok |-> "audience" \in claims],
  [status |-> "WrongEmail",              ok |-> "email" \in claims],
  [status |-> "PublicKeyNotFound",       ok |-> tok.kid \in publicKeys],
  [status |-> "WrongSignature",          ok |-> "signature" \in claims] >>)
=============================================================================
