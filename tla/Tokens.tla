------------------------------- MODULE Tokens --------------------------------
(***************************************************************************)
(* The token providers (googleid-provider and oidc-provider): the cached   *)
(* id token, GetToken called by any number of connections, the loop that   *)
(* renews the token in the background, and the file watcher that reloads   *)
(* the credentials.  The two providers share their code but for the way a  *)
(* reload takes effect.                                                    *)
(*                                                                         *)
(* Time passes in units (of a minute, say).  A token is its claims iat and *)
(* exp, the credentials it was obtained with and the key it is signed      *)
(* with; credentials are version numbers of the file.  The authorization   *)
(* server is up or down for whole units; up means that it answers within   *)
(* the timeout of a request, down that requests fail or yield no token     *)
(* that ParseJWT accepts.                                                  *)
(*                                                                         *)
(* Definitions marked "Fault" are no part of the specification: each is a  *)
(* plausible mistake in the definition that follows it.                    *)
(***************************************************************************)
EXTENDS Integers, Sequences, FiniteSets

CONSTANTS
  Kinds,        \* of "googleid" and "oidc", the providers considered
  Links,        \* of TRUE and FALSE: is the credentials file a symbolic link
  Callers,      \* connections that ask for a token
  Kids,         \* ids of the keys tokens are signed with
  Skew,         \* clockSkew
  Life,         \* validity of the tokens the server issues
  Timeout,      \* of one request for a token
  MaxElapsed,   \* MaxElapsedTime of the refresher's backoff
  MaxTries,     \* retries of initToken (3 in the code)
  MaxStarved,   \* units without service that renewal must survive
  MaxTime,      \* bound: the clock stops here
  MaxEdits,     \* bound: changes of the credentials file
  EditHorizon   \* bound: the clock stops here when the file is changed

ASSUME ConstAssumption ==
  /\ Kinds \subseteq {"googleid", "oidc"} /\ Links \subseteq BOOLEAN
  /\ {Skew, Life, Timeout, MaxElapsed, MaxTries, MaxStarved} \subseteq Nat
  /\ {MaxTime, MaxEdits, EditHorizon} \subseteq Nat
  /\ Timeout + Skew < Life

Broken == 0       \* contents that do not parse; a source that is nil
Absent == -1      \* no file, or a dangling link
Versions == 1..(MaxEdits + 1)

Main      == "main"       \* the goroutine of NewTokenProvider
Refresher == "refresher"  \* TokenRefresher.refreshLoop
Procs     == Callers \cup {Main, Refresher}

VARIABLES
  kind, link,      \* fixed by the configuration
  now, up, starved,
  phase,           \* how far NewTokenProvider is
  tries,           \* failed tries of initToken
  idTokenSource,   \* NewTokenProvider's variable, which oidc's action assigns
  source,          \* credentials of the provider's token source
  idToken,         \* the cached token
  calls,           \* per process: its request for a token
  answers,         \* per caller: the last token it was given, and when
  ticked, began,   \* the refresher has run in this unit; start of tryRefresh
  content, edits,  \* the credentials file
  watched,         \* its inode (or its directory) is watched
  events, wpc,     \* the watcher's events and its place in the loop
  missed           \* the file changed after it was read, before it was watched

clock    == <<now, up, starved>>
provider == <<phase, tries, idTokenSource, source>>
refresh  == <<ticked, began>>
file     == <<content, edits>>
watcher  == <<watched, events, wpc>>
vars     == <<kind, link, clock, provider, idToken, calls, answers, refresh,
              file, watcher, missed>>

Token   == [iat : Nat, exp : Nat, cred : Versions \cup {0}, kid : Kids \cup {0}]
NoToken == [iat |-> 0, exp |-> 0, cred |-> 0, kid |-> 0]
NoAnswer == [tok |-> NoToken, at |-> 0]
Idle    == [pc |-> "idle", since |-> 0, cred |-> 0, tok |-> NoToken]

-----------------------------------------------------------------------------
(* renewLatest: the token is too old to be handed out.                     *)
\* Fault.  The margin on the wrong side of the expiry.
RenewLatestAfterExpiry(tok) == tok = NoToken \/ now > tok.exp + Skew
RenewLatest(tok) == tok = NoToken \/ now > tok.exp - Skew

(* renewEarliest: the refresher should ask for a new token.                *)
\* Fault.  No margin for failures: renewal begins when the token is too old.
RenewLate(tok) == tok = NoToken \/ now > tok.exp - Skew
RenewEarliest(tok) ==
  \/ tok = NoToken
  \/ LET validity == tok.exp - tok.iat
     IN  validity <= 0 \/ now > tok.exp - Skew - validity \div 2

(* GetIDToken has sent its request.                                        *)
Asked(cred) == [pc |-> "asked", since |-> now, cred |-> cred, tok |-> NoToken]

-----------------------------------------------------------------------------
(* Credentials file: an editor truncates it and writes it, replaces it by  *)
(* another file, or removes it and creates it anew.  For a link, the link  *)
(* is removed and created.                                                 *)
Changes(to, stillWatched, event) ==
  /\ edits < MaxEdits /\ now <= EditHorizon
  /\ content' = to /\ edits' = edits + 1
  /\ watched' = (watched /\ stillWatched)
  /\ events' = IF watched THEN Append(events, event) ELSE events
  /\ missed' = (phase = "loaded")
  /\ UNCHANGED <<kind, link, clock, provider, idToken, calls, answers, refresh, wpc>>

Truncate == ~link /\ content # Absent /\ Changes(Broken, TRUE, "write")
Write    == ~link /\ content = Broken /\ Changes(edits + 2, TRUE, "write")
Replace  == ~link /\ Changes(edits + 2, FALSE, "remove")
Remove   == content # Absent /\ Changes(Absent, link, "remove")
Create   == content = Absent /\ Changes(edits + 2, TRUE, "create")

Edit == Truncate \/ Write \/ Replace \/ Remove \/ Create

-----------------------------------------------------------------------------
(* watcher.Events is read.  After Remove, Rename and Chmod the watch is    *)
(* taken off.  With a link it is the directory's: events it has queued     *)
(* come without its path, unless they were already read.                   *)
TakeEvent ==
  /\ wpc = "select" /\ events # <<>>
  /\ IF Head(events) = "remove"
     THEN /\ wpc' = "replaced" /\ watched' = FALSE
          /\ \/ events' = Tail(events)
             \/ link /\ events' = <<>>
     ELSE /\ events' = Tail(events) /\ watched' = watched
          /\ wpc' = IF link /\ content = Absent THEN "select" ELSE "action"
  /\ UNCHANGED <<kind, link, clock, provider, idToken, calls, answers, refresh,
                 file, missed>>

(* waitForReplacement: the watch is put on again once there is something   *)
(* to watch.  watchFileForUpdates then always reloads, watchLinkForUpdates *)
(* does not after a removal.                                               *)
\* Fault.  After a replacement the watcher waits for the next event.
WatchAgainOnly ==
  /\ wpc = "replaced" /\ (link \/ content # Absent)
  /\ watched' = TRUE /\ wpc' = "select"
  /\ UNCHANGED <<kind, link, clock, provider, idToken, calls, answers, refresh,
                 file, events, missed>>
WaitForReplacement ==
  /\ wpc = "replaced" /\ (link \/ content # Absent)
  /\ watched' = TRUE
  /\ wpc' = IF link THEN "select" ELSE "action"
  /\ UNCHANGED <<kind, link, clock, provider, idToken, calls, answers, refresh,
                 file, events, missed>>

(* The credentials read and parsed: a source, or none.                     *)
(* NewServiceAccountTokenSource of googleid.                               *)
NewServiceAccountTokenSource == IF content = Absent THEN Broken ELSE content

(* getTokenSource of oidc: a service account or a password grant.          *)
GetTokenSource == IF content = Absent THEN Broken ELSE content

(* The action of googleid: new credentials replace those of the source in  *)
(* use, unreadable ones are ignored.                                       *)
\* Fault.  The new source is stored before its error is looked at.
ReloadUnchecked == source' = NewServiceAccountTokenSource
ReloadInPlace ==
  LET new == NewServiceAccountTokenSource
  IN  source' = IF new = Broken THEN source ELSE new

(* The action of oidc: the variable of NewTokenProvider is assigned.       *)
AssignVariable == idTokenSource' = GetTokenSource

Action ==
  /\ wpc = "action" /\ wpc' = "select"
  /\ \/ kind = "googleid" /\ ReloadInPlace /\ UNCHANGED idTokenSource
     \/ kind = "oidc" /\ AssignVariable /\ UNCHANGED source
  /\ UNCHANGED <<kind, link, clock, phase, tries, idToken, calls, answers,
                 refresh, file, watched, events, missed>>

-----------------------------------------------------------------------------
(* NewTokenProvider has read the credentials and starts the watcher.       *)
WatchForUpdates ==
  /\ phase = "loaded" /\ content # Absent
  /\ phase' = "watching" /\ watched' = TRUE
  /\ UNCHANGED <<kind, link, clock, tries, idTokenSource, source, idToken, calls,
                 answers, refresh, file, events, wpc, missed>>

(* Without a file to watch NewTokenProvider fails.                         *)
CannotWatch ==
  /\ phase = "loaded" /\ content = Absent /\ phase' = "failed"
  /\ UNCHANGED <<kind, link, clock, tries, idTokenSource, source, idToken, calls,
                 answers, refresh, file, watcher, missed>>

(* The TokenProvider is made from the source as it is now; a nil source    *)
(* ends the process at the first use.                                      *)
MakeProvider ==
  /\ phase = "watching"
  /\ source' = IF kind = "oidc" THEN idTokenSource ELSE source
  /\ phase' = IF source' = Broken THEN "failed" ELSE "init"
  /\ UNCHANGED <<kind, link, clock, tries, idTokenSource, idToken, calls,
                 answers, refresh, file, watcher, missed>>

-----------------------------------------------------------------------------
MayAsk(p) == \/ p = Main /\ phase = "init"
             \/ p \in Callers /\ phase = "run"

(* GetToken answers from the cache.                                        *)
GetCachedToken(c) ==
  /\ MayAsk(c) /\ c # Main /\ calls[c].pc = "idle" /\ ~RenewLatest(idToken)
  /\ answers' = [answers EXCEPT ![c] = [tok |-> idToken, at |-> now]]
  /\ UNCHANGED <<kind, link, clock, provider, idToken, calls, refresh, file,
                 watcher, missed>>

(* GetToken finds no usable token and asks the server.                     *)
GetTokenAsks(p) ==
  /\ MayAsk(p) /\ calls[p].pc = "idle" /\ RenewLatest(idToken)
  /\ calls' = [calls EXCEPT ![p] = Asked(source)]
  /\ UNCHANGED <<kind, link, clock, provider, idToken, answers, refresh, file,
                 watcher, missed>>

(* The server issues a token; the answer is on its way.                    *)
Issue(p, kid) ==
  /\ calls[p].pc = "asked" /\ up
  /\ calls' = [calls EXCEPT ![p].pc = "issued", ![p].tok =
                 [iat |-> now, exp |-> now + Life, cred |-> calls[p].cred, kid |-> kid]]
  /\ UNCHANGED <<kind, link, clock, provider, idToken, answers, refresh, file,
                 watcher, missed>>

(* GetToken stores the token and returns it; initToken is done with it.    *)
GetTokenReceives(p) ==
  /\ p # Refresher /\ calls[p].pc = "issued"
  /\ idToken' = calls[p].tok
  /\ calls' = [calls EXCEPT ![p] = Idle]
  /\ IF p = Main
     THEN phase' = "run" /\ UNCHANGED answers
     ELSE /\ answers' = [answers EXCEPT ![p] = [tok |-> calls[p].tok, at |-> now]]
          /\ UNCHANGED phase
  /\ UNCHANGED <<kind, link, clock, tries, idTokenSource, source, refresh, file,
                 watcher, missed>>

(* StatusGetTokenFailed or StatusParseTokenFailed.  NewTokenProvider tries *)
(* again MaxTries times and then fails.                                    *)
\* Fault.  NewTokenProvider goes on trying.
GetTokenFailsForever(p) ==
  /\ p # Refresher /\ calls[p].pc = "asked" /\ ~up
  /\ calls' = [calls EXCEPT ![p] = Idle]
  /\ IF p = Main
     THEN tries' = tries + 1 /\ UNCHANGED phase
     ELSE UNCHANGED <<phase, tries>>
  /\ UNCHANGED <<kind, link, clock, idTokenSource, source, idToken, answers, refresh,
                 file, watcher, missed>>
GetTokenFails(p) ==
  /\ p # Refresher /\ calls[p].pc = "asked" /\ ~up
  /\ calls' = [calls EXCEPT ![p] = Idle]
  /\ IF p = Main
     THEN /\ phase' = IF tries = MaxTries THEN "failed" ELSE phase
          /\ tries' = IF tries = MaxTries THEN tries ELSE tries + 1
     ELSE UNCHANGED <<phase, tries>>
  /\ UNCHANGED <<kind, link, clock, idTokenSource, source, idToken, answers, refresh,
                 file, watcher, missed>>

-----------------------------------------------------------------------------
(* refreshTick: the ticker fires many times in a unit; one look is enough. *)
RefreshTick ==
  /\ phase = "run" /\ ~ticked /\ calls[Refresher].pc = "idle"
  /\ ticked' = TRUE
  /\ IF RenewEarliest(idToken)
     THEN began' = now /\ calls' = [calls EXCEPT ![Refresher] = Asked(source)]
     ELSE UNCHANGED <<began, calls>>
  /\ UNCHANGED <<kind, link, clock, provider, idToken, answers, file, watcher, missed>>

(* tryRefresh: a failed request is repeated until MaxElapsedTime is over.  *)
RefreshFails ==
  /\ calls[Refresher].pc = "asked" /\ ~up
  /\ calls' = [calls EXCEPT ![Refresher] =
                 IF now - began > MaxElapsed THEN Idle ELSE [Idle EXCEPT !.pc = "backoff"]]
  /\ UNCHANGED <<kind, link, clock, provider, idToken, answers, refresh, file,
                 watcher, missed>>

RefreshRetries ==
  /\ calls[Refresher].pc = "backoff" /\ ~ticked
  /\ ticked' = TRUE
  /\ calls' = [calls EXCEPT ![Refresher] = Asked(source)]
  /\ UNCHANGED <<kind, link, clock, provider, idToken, answers, began, file, watcher,
                 missed>>

RefreshReceives ==
  /\ calls[Refresher].pc = "issued"
  /\ idToken' = calls[Refresher].tok
  /\ calls' = [calls EXCEPT ![Refresher] = Idle]
  /\ UNCHANGED <<kind, link, clock, provider, answers, refresh, file, watcher, missed>>

-----------------------------------------------------------------------------
(* A unit passes.  No request outlives its timeout, and the refresher has  *)
(* run.  starved counts the units since the server was last up for two     *)
(* units in a row, and stays once it has exceeded MaxStarved.              *)
(* Kind, link and contents of the file play no part in renewal: the clock  *)
(* runs beyond EditHorizon for one setup only.                             *)
Tick ==
  /\ now < MaxTime /\ (edits > 0 \/ kind = "oidc" \/ link => now < EditHorizon)
  /\ \A p \in Procs : calls[p].pc \in {"asked", "issued"} => now < calls[p].since + Timeout
  /\ phase \in {"init", "run"} /\ (phase = "run" => ticked)
  /\ now' = now + 1 /\ ticked' = FALSE
  /\ up' \in BOOLEAN
  /\ starved' = IF starved > MaxStarved THEN starved
                ELSE IF up /\ up' THEN 0 ELSE starved + 1
  /\ UNCHANGED <<kind, link, provider, idToken, calls, answers, began, file, watcher,
                 missed>>

-----------------------------------------------------------------------------
(* NewTokenProvider has read the credentials file.                         *)
Init ==
  /\ kind \in Kinds /\ link \in Links
  /\ now = 1 /\ up = TRUE /\ starved = 0
  /\ phase = "loaded" /\ tries = 0 /\ idTokenSource = 1 /\ source = 1
  /\ idToken = NoToken
  /\ calls = [p \in Procs |-> Idle]
  /\ answers = [c \in Callers |-> NoAnswer]
  /\ ticked = FALSE /\ began = 0
  /\ content = 1 /\ edits = 0
  /\ watched = FALSE /\ events = <<>> /\ wpc = "select" /\ missed = FALSE

Watcher  == TakeEvent \/ WaitForReplacement \/ Action
Starting == WatchForUpdates \/ CannotWatch \/ MakeProvider
Serving(p) == GetTokenAsks(p) \/ GetTokenReceives(p) \/ GetTokenFails(p)
Renewing == RefreshTick \/ RefreshFails \/ RefreshRetries \/ RefreshReceives

Next ==
  \/ Edit \/ Watcher \/ Starting \/ Renewing \/ Tick
  \/ \E p \in Procs : Serving(p) \/ (\E kid \in Kids : Issue(p, kid))
  \/ \E c \in Callers : GetCachedToken(c)

Spec == Init /\ [][Next]_vars

(* The watcher's goroutine and NewTokenProvider run.                       *)
FairSpec == Spec /\ WF_vars(Watcher) /\ WF_vars(Starting)

-----------------------------------------------------------------------------
(* Types, and the bounds of the counters.                                  *)
TypeOK ==
  /\ kind \in Kinds /\ link \in Links
  /\ now \in 1..(MaxTime + 1) /\ up \in BOOLEAN /\ starved \in 0..(MaxStarved + 1)
  /\ phase \in {"loaded", "watching", "init", "run", "failed"} /\ tries \in 0..MaxTries
  /\ idTokenSource \in Versions \cup {Broken} /\ source \in Versions \cup {Broken}
  /\ idToken \in Token
  /\ calls \in [Procs -> [pc : {"idle", "asked", "issued", "backoff"}, since : Nat,
                          cred : Versions \cup {0}, tok : Token]]
  /\ answers \in [Callers -> [tok : Token, at : Nat]]
  /\ ticked \in BOOLEAN /\ began \in Nat
  /\ content \in Versions \cup {Broken, Absent} /\ edits \in 0..MaxEdits
  /\ watched \in BOOLEAN /\ events \in Seq({"write", "remove", "create"})
  /\ wpc \in {"select", "replaced", "action"} /\ missed \in BOOLEAN

(* A token that GetToken hands out, from the cache or fresh from the       *)
(* server, is still valid for clockSkew when it is handed out, whatever    *)
(* the refresher and other callers store at the same time.                 *)
AnswersAreValid ==
  \A c \in Callers : answers[c].tok # NoToken =>
    answers[c].at + Skew <= answers[c].tok.exp

(* The margin of renewEarliest bridges outages: unless the server was      *)
(* gone for more than MaxStarved units, no caller ever finds the cached    *)
(* token too old and has to wait for the server.                           *)
OutageIsBridged ==
  phase = "run" /\ starved <= MaxStarved => ~RenewLatest(idToken)

(* A truncated, missing or half written credentials file never takes the   *)
(* place of credentials that work: googleid keeps the ones it has.         *)
SourceStaysUsable == phase = "run" \/ kind = "googleid" => source # Broken

(* A change of a watched credentials file is in use in the end, whatever   *)
(* happens to the file meanwhile (googleid; a file that is no link).       *)
ReloadIsUsed ==
  \A v \in Versions :
    (kind = "googleid" /\ ~link /\ ~missed /\ content = v /\ phase # "failed")
      ~> (source = v \/ content # v \/ missed \/ phase = "failed")

(* --credentials-watch: "Watch credential for reload".  The same for every *)
(* provider.                                                               *)
CredentialsReload ==
  \A v \in Versions :
    (~link /\ ~missed /\ content = v /\ phase # "failed")
      ~> (source = v \/ content # v \/ missed \/ phase = "failed")
=============================================================================
