---------------------------- MODULE TokensProofs -----------------------------
(***************************************************************************)
(* Theorems about Tokens and their proofs.                                 *)
(***************************************************************************)
EXTENDS Tokens, TLAPS

(* A request for a token is younger than Timeout, and a token that is on   *)
(* its way was issued after it was asked for.                              *)
CallInv ==
  \A p \in Procs :
    /\ calls[p].pc \in {"asked", "issued"} =>
         calls[p].since <= now /\ now <= calls[p].since + Timeout
    /\ calls[p].pc = "issued" => calls[p].since + Life <= calls[p].tok.exp

(* initToken asks only once the source is known to be usable.              *)
StartInv ==
  /\ phase \in {"init", "run"} => source # Broken
  /\ kind = "googleid" => source # Broken
  /\ calls[Main].pc # "idle" => phase \in {"init", "run"}

IInv == TypeOK /\ CallInv /\ AnswersAreValid /\ StartInv

-----------------------------------------------------------------------------
(* The constants, one by one.                                              *)
LEMMA Constants ==
  /\ Kinds \subseteq {"googleid", "oidc"}
  /\ Skew \in Nat /\ Life \in Nat /\ Timeout \in Nat /\ MaxElapsed \in Nat
  /\ MaxTries \in Nat /\ MaxStarved \in Nat /\ MaxTime \in Nat /\ MaxEdits \in Nat
  /\ Timeout + Skew < Life
BY ConstAssumption

LEMMA TokenTypes ==
  /\ NoToken \in Token
  /\ Idle \in [pc : {"idle", "asked", "issued", "backoff"}, since : Nat,
               cred : Versions \cup {0}, tok : Token]
BY Constants DEF NoToken, Idle, Token

LEMMA InitInv == Init => IInv
<1> SUFFICES ASSUME Init PROVE IInv
  OBVIOUS
<1>1. 1 \in Versions
  BY Constants DEF Versions
<1>2. TypeOK
  <2>1. events \in Seq({"write", "remove", "create"})
    BY DEF Init
  <2>2. calls \in [Procs -> [pc : {"idle", "asked", "issued", "backoff"}, since : Nat,
                             cred : Versions \cup {0}, tok : Token]]
    BY TokenTypes DEF Init
  <2>3. answers \in [Callers -> [tok : Token, at : Nat]]
    BY TokenTypes DEF Init, NoAnswer
  <2>4. now \in 1..(MaxTime + 1) /\ starved \in 0..(MaxStarved + 1) /\ tries \in 0..MaxTries
    BY Constants DEF Init
  <2>5. edits \in 0..MaxEdits /\ began \in Nat
    BY Constants DEF Init
  <2> QED
    BY <1>1, <2>1, <2>2, <2>3, <2>4, <2>5, TokenTypes DEF Init, TypeOK
<1>3. CallInv /\ AnswersAreValid /\ StartInv
  BY DEF Init, CallInv, AnswersAreValid, StartInv, Idle, NoAnswer, Main, Procs, Broken
<1> QED
  BY <1>2, <1>3 DEF IInv

(* The steps that leave requests and answers alone keep what is said of    *)
(* them.                                                                   *)
LEMMA QuietStep ==
  ASSUME CallInv, AnswersAreValid, UNCHANGED <<now, calls, answers>>
  PROVE  CallInv' /\ AnswersAreValid'
BY DEF CallInv, AnswersAreValid

-----------------------------------------------------------------------------
LEMMA EditInv == ASSUME IInv, Edit PROVE IInv'
<1> USE Constants
<1>1. PICK to \in Versions \cup {Broken, Absent}, w \in BOOLEAN,
           e \in {"write", "remove", "create"} : Changes(to, w, e)
  <2>1. edits < MaxEdits => edits + 2 \in Versions
    BY DEF IInv, TypeOK, Versions
  <2>2. link \in BOOLEAN
    BY ConstAssumption DEF IInv, TypeOK
  <2>3. CASE Truncate
    BY <2>3 DEF Truncate
  <2>4. CASE Write
    BY <2>1, <2>4 DEF Write, Changes
  <2>5. CASE Replace
    BY <2>1, <2>5 DEF Replace, Changes
  <2>6. CASE Remove
    BY <2>2, <2>6 DEF Remove
  <2>7. CASE Create
    BY <2>1, <2>7 DEF Create, Changes
  <2> QED
    BY <2>3, <2>4, <2>5, <2>6, <2>7 DEF Edit
<1>2. TypeOK'
  <2>1. events' \in Seq({"write", "remove", "create"})
    BY <1>1 DEF Changes, IInv, TypeOK
  <2>2. edits' \in 0..MaxEdits
    BY <1>1 DEF Changes, IInv, TypeOK
  <2> QED
    BY <1>1, <2>1, <2>2 DEF Changes, IInv, TypeOK, clock, provider, refresh
<1>3. CallInv' /\ AnswersAreValid'
  BY <1>1, QuietStep DEF Changes, IInv, clock
<1>4. StartInv'
  BY <1>1 DEF Changes, IInv, StartInv, provider
<1> QED
  BY <1>2, <1>3, <1>4 DEF IInv

LEMMA WatcherInv == ASSUME IInv, Watcher PROVE IInv'
<1> USE Constants
<1>1. CASE TakeEvent
  <2>1. events' \in Seq({"write", "remove", "create"})
    <3>1. events' \in {Tail(events), <<>>} /\ events # <<>>
      BY <1>1 DEF TakeEvent
    <3>2. events \in Seq({"write", "remove", "create"})
      BY DEF IInv, TypeOK
    <3>3. Tail(events) \in Seq({"write", "remove", "create"})
      BY <3>1, <3>2
    <3>4. <<>> \in Seq({"write", "remove", "create"})
      OBVIOUS
    <3> QED
      BY <3>1, <3>3, <3>4, Zenon
  <2>2. TypeOK'
    BY <1>1, <2>1 DEF TakeEvent, IInv, TypeOK, clock, provider, refresh, file
  <2>3. CallInv' /\ AnswersAreValid'
    BY <1>1, QuietStep DEF TakeEvent, IInv, clock
  <2>4. StartInv'
    BY <1>1 DEF TakeEvent, IInv, StartInv, provider
  <2> QED
    BY <2>2, <2>3, <2>4 DEF IInv
<1>2. CASE WaitForReplacement
  <2>1. TypeOK'
    BY <1>2 DEF WaitForReplacement, IInv, TypeOK, clock, provider, refresh, file
  <2>2. CallInv' /\ AnswersAreValid'
    BY <1>2, QuietStep DEF WaitForReplacement, IInv, clock
  <2>3. StartInv'
    BY <1>2 DEF WaitForReplacement, IInv, StartInv, provider
  <2> QED
    BY <2>1, <2>2, <2>3 DEF IInv
<1>3. CASE Action
  <2>1. source' \in Versions \cup {Broken} /\ idTokenSource' \in Versions \cup {Broken}
    BY <1>3 DEF Action, ReloadInPlace, AssignVariable, GetTokenSource,
                NewServiceAccountTokenSource, IInv, TypeOK
  <2>2. TypeOK'
    BY <1>3, <2>1 DEF Action, IInv, TypeOK, clock, refresh, file
  <2>3. CallInv' /\ AnswersAreValid'
    BY <1>3, QuietStep DEF Action, IInv, clock
  <2>4. source # Broken => source' # Broken
    BY <1>3 DEF Action, ReloadInPlace
  <2>5. StartInv'
    BY <1>3, <2>4 DEF Action, IInv, StartInv
  <2> QED
    BY <2>2, <2>3, <2>5 DEF IInv
<1> QED
  BY <1>1, <1>2, <1>3 DEF Watcher

LEMMA StartingInv == ASSUME IInv, Starting PROVE IInv'
<1> USE Constants
<1>1. CASE WatchForUpdates
  <2>1. TypeOK'
    BY <1>1 DEF WatchForUpdates, IInv, TypeOK, clock, refresh, file
  <2>2. CallInv' /\ AnswersAreValid'
    BY <1>1, QuietStep DEF WatchForUpdates, IInv, clock
  <2>3. StartInv'
    BY <1>1 DEF WatchForUpdates, IInv, StartInv
  <2> QED
    BY <2>1, <2>2, <2>3 DEF IInv
<1>2. CASE CannotWatch
  <2>1. TypeOK'
    BY <1>2 DEF CannotWatch, IInv, TypeOK, clock, refresh, file, watcher
  <2>2. CallInv' /\ AnswersAreValid'
    BY <1>2, QuietStep DEF CannotWatch, IInv, clock
  <2>3. StartInv'
    BY <1>2 DEF CannotWatch, IInv, StartInv
  <2> QED
    BY <2>1, <2>2, <2>3 DEF IInv
<1>3. CASE MakeProvider
  <2>1. TypeOK'
    BY <1>3 DEF MakeProvider, IInv, TypeOK, clock, refresh, file, watcher
  <2>2. CallInv' /\ AnswersAreValid'
    BY <1>3, QuietStep DEF MakeProvider, IInv, clock
  <2>3. StartInv'
    BY <1>3 DEF MakeProvider, IInv, StartInv
  <2> QED
    BY <2>1, <2>2, <2>3 DEF IInv
<1> QED
  BY <1>1, <1>2, <1>3 DEF Starting

-----------------------------------------------------------------------------
(* What is asked for and what is issued has the type of a request.         *)
LEMMA AskedType ==
  ASSUME TypeOK
  PROVE  Asked(source) \in [pc : {"idle", "asked", "issued", "backoff"}, since : Nat,
                            cred : Versions \cup {0}, tok : Token]
<1>1. now \in Nat
  BY Constants DEF TypeOK
<1> QED
  BY <1>1, TokenTypes DEF TypeOK, Asked, Broken

LEMMA CachedInv == ASSUME IInv, NEW c \in Callers, GetCachedToken(c) PROVE IInv'
<1> USE Constants
<1>1. now \in Nat /\ idToken \in Token /\ idToken.exp \in Nat
  BY DEF IInv, TypeOK, Token
<1>2. answers' = [answers EXCEPT ![c] = [tok |-> idToken, at |-> now]]
  BY DEF GetCachedToken
<1>3. answers' \in [Callers -> [tok : Token, at : Nat]]
  BY <1>1, <1>2 DEF IInv, TypeOK
<1>4. TypeOK'
  BY <1>3 DEF GetCachedToken, IInv, TypeOK, clock, provider, refresh, file, watcher
<1>5. CallInv'
  BY DEF GetCachedToken, IInv, CallInv, clock
<1>6. now + Skew <= idToken.exp
  BY <1>1 DEF GetCachedToken, RenewLatest
<1>7. AnswersAreValid'
  BY <1>2, <1>6 DEF IInv, TypeOK, AnswersAreValid
<1>8. StartInv'
  BY DEF GetCachedToken, IInv, StartInv, provider
<1> QED
  BY <1>4, <1>5, <1>7, <1>8 DEF IInv

LEMMA AsksInv == ASSUME IInv, NEW p \in Procs, GetTokenAsks(p) PROVE IInv'
<1> USE Constants
<1>1. calls' = [calls EXCEPT ![p] = Asked(source)]
  BY DEF GetTokenAsks
<1>2. TypeOK'
  BY <1>1, AskedType DEF GetTokenAsks, IInv, TypeOK, clock, provider, refresh, file, watcher
<1>3. now \in Nat /\ now' = now
  BY DEF GetTokenAsks, IInv, TypeOK, clock
<1>4. CallInv'
  BY SMTT(30), <1>1, <1>3 DEF IInv, TypeOK, CallInv, Asked
<1>5. AnswersAreValid'
  BY DEF GetTokenAsks, IInv, AnswersAreValid
<1>6. StartInv'
  <2>1. phase \in {"init", "run"}
    BY DEF GetTokenAsks, MayAsk
  <2> QED
    BY <2>1 DEF GetTokenAsks, IInv, StartInv, provider
<1> QED
  BY <1>2, <1>4, <1>5, <1>6 DEF IInv

LEMMA IssueInv ==
  ASSUME IInv, NEW p \in Procs, NEW kid \in Kids, Issue(p, kid) PROVE IInv'
<1> USE Constants
<1> DEFINE t == [iat |-> now, exp |-> now + Life, cred |-> calls[p].cred, kid |-> kid]
<1>1. now \in Nat /\ now' = now
  BY SMTT(30) DEF Issue, IInv, TypeOK, clock
<1>2. t \in Token
  BY <1>1 DEF IInv, TypeOK, Token
<1>3. calls' = [calls EXCEPT ![p] = [calls[p] EXCEPT !.pc = "issued", !.tok = t]]
  BY DEF Issue, IInv, TypeOK
<1> HIDE DEF t
<1>4. TypeOK'
  <2>1. [calls[p] EXCEPT !.pc = "issued", !.tok = t]
          \in [pc : {"idle", "asked", "issued", "backoff"}, since : Nat,
               cred : Versions \cup {0}, tok : Token]
    BY <1>2 DEF IInv, TypeOK
  <2>2. calls' \in [Procs -> [pc : {"idle", "asked", "issued", "backoff"}, since : Nat,
                              cred : Versions \cup {0}, tok : Token]]
    BY <1>3, <2>1 DEF IInv, TypeOK
  <2> QED
    BY SMTT(30), <2>2 DEF Issue, IInv, TypeOK, clock, provider, refresh, file, watcher
<1>5. CallInv'
  <2>1. calls[p].since \in Nat /\ calls[p].since <= now /\ now <= calls[p].since + Timeout
    BY DEF Issue, IInv, TypeOK, CallInv
  <2>2. t.exp = now + Life
    BY DEF t
  <2>3. \A q \in Procs : calls'[q] = IF q = p THEN [calls[p] EXCEPT !.pc = "issued", !.tok = t]
                                     ELSE calls[q]
    BY <1>3 DEF IInv, TypeOK
  <2>4. calls'[p].since = calls[p].since /\ calls'[p].tok = t
    <3>1. calls[p] \in [pc : {"idle", "asked", "issued", "backoff"}, since : Nat,
                        cred : Versions \cup {0}, tok : Token]
      BY DEF IInv, TypeOK
    <3>2. calls'[p] = [calls[p] EXCEPT !.pc = "issued", !.tok = t]
      BY <2>3
    <3> QED BY <3>1, <3>2
  <2>5. calls'[p].since + Life <= calls'[p].tok.exp
    BY <1>1, <2>1, <2>2, <2>4
  <2> QED
    BY <1>1, <2>1, <2>3, <2>4, <2>5 DEF IInv, CallInv
<1>6. AnswersAreValid'
  BY DEF Issue, IInv, AnswersAreValid
<1>7. StartInv'
  BY <1>3 DEF Issue, IInv, TypeOK, StartInv, provider, Main, Procs
<1> QED
  BY <1>4, <1>5, <1>6, <1>7 DEF IInv

(* A call that ends leaves the others as they are.                         *)
LEMMA CallEnds ==
  ASSUME TypeOK, CallInv, NEW p \in Procs, now' = now,
         NEW new \in {Idle, [Idle EXCEPT !.pc = "backoff"]},
         calls' = [calls EXCEPT ![p] = new]
  PROVE  /\ CallInv'
         /\ calls' \in [Procs -> [pc : {"idle", "asked", "issued", "backoff"}, since : Nat,
                                  cred : Versions \cup {0}, tok : Token]]
<1>1. new \in [pc : {"idle", "asked", "issued", "backoff"}, since : Nat,
               cred : Versions \cup {0}, tok : Token]
  BY TokenTypes DEF Idle
<1>2. new.pc \in {"idle", "backoff"}
  BY DEF Idle
<1>3. \A q \in Procs : calls'[q] = IF q = p THEN new ELSE calls[q]
  BY DEF TypeOK
<1> QED
  BY <1>1, <1>2, <1>3 DEF TypeOK, CallInv

(* A token received is valid for longer than clockSkew.                    *)
LEMMA ReceivedIsValid ==
  ASSUME TypeOK, CallInv, NEW p \in Procs, calls[p].pc = "issued"
  PROVE  calls[p].tok \in Token /\ now + Skew <= calls[p].tok.exp
<1>1. now \in Nat /\ calls[p].since \in Nat /\ calls[p].tok \in Token
  BY DEF TypeOK
<1>2. calls[p].tok.exp \in Nat
  BY <1>1 DEF Token
<1>3. now <= calls[p].since + Timeout /\ calls[p].since + Life <= calls[p].tok.exp
  BY DEF CallInv
<1> QED
  BY <1>1, <1>2, <1>3, Constants

LEMMA ReceivesInv == ASSUME IInv, NEW p \in Procs, GetTokenReceives(p) PROVE IInv'
<1> USE Constants
<1>1. now \in Nat /\ now' = now
  BY DEF GetTokenReceives, IInv, TypeOK, clock
<1>2. calls[p].tok \in Token /\ now + Skew <= calls[p].tok.exp
  BY ReceivedIsValid DEF GetTokenReceives, IInv
<1>3. /\ CallInv'
      /\ calls' \in [Procs -> [pc : {"idle", "asked", "issued", "backoff"}, since : Nat,
                               cred : Versions \cup {0}, tok : Token]]
  BY <1>1, CallEnds DEF GetTokenReceives, IInv
<1>4. \/ answers' = answers
      \/ p \in Callers /\ answers' = [answers EXCEPT ![p] = [tok |-> calls[p].tok, at |-> now]]
  BY DEF GetTokenReceives, Procs
<1>5. answers' \in [Callers -> [tok : Token, at : Nat]]
  BY <1>1, <1>2, <1>4 DEF IInv, TypeOK
<1>6. TypeOK'
  BY <1>2, <1>3, <1>5 DEF GetTokenReceives, IInv, TypeOK, clock, refresh, file, watcher
<1>7. AnswersAreValid'
  <2>1. CASE answers' = answers
    BY <2>1 DEF IInv, AnswersAreValid
  <2>2. CASE p \in Callers /\ answers' = [answers EXCEPT ![p] = [tok |-> calls[p].tok, at |-> now]]
    <3>1. \A c \in Callers : answers'[c] = IF c = p THEN [tok |-> calls[p].tok, at |-> now]
                                           ELSE answers[c]
      BY <2>2 DEF IInv, TypeOK
    <3>2. \A c \in Callers : c = p => answers'[c].tok = calls[p].tok /\ answers'[c].at = now
      BY <3>1
    <3> QED
      BY <1>2, <3>1, <3>2 DEF IInv, AnswersAreValid
  <2> QED
    BY <1>4, <2>1, <2>2
<1>8. StartInv'
  <2>1. p = Main => phase \in {"init", "run"}
    BY DEF GetTokenReceives, IInv, StartInv
  <2>2. calls'[Main].pc # "idle" => calls[Main].pc # "idle"
    BY DEF GetTokenReceives, IInv, TypeOK, Idle, Main, Procs
  <2> QED
    BY <2>1, <2>2 DEF GetTokenReceives, IInv, StartInv
<1> QED
  BY <1>3, <1>6, <1>7, <1>8 DEF IInv

LEMMA FailsInv == ASSUME IInv, NEW p \in Procs, GetTokenFails(p) PROVE IInv'
<1> USE Constants
<1>1. now' = now
  BY DEF GetTokenFails, clock
<1>2. /\ CallInv'
      /\ calls' \in [Procs -> [pc : {"idle", "asked", "issued", "backoff"}, since : Nat,
                               cred : Versions \cup {0}, tok : Token]]
  BY <1>1, CallEnds DEF GetTokenFails, IInv
<1>3. tries' \in 0..MaxTries
  BY DEF GetTokenFails, IInv, TypeOK
<1>4. TypeOK'
  BY <1>2, <1>3 DEF GetTokenFails, IInv, TypeOK, clock, refresh, file, watcher
<1>5. AnswersAreValid'
  BY DEF GetTokenFails, IInv, AnswersAreValid
<1>6. StartInv'
  <2>1. p = Main => calls'[Main].pc = "idle"
    BY DEF GetTokenFails, IInv, TypeOK, Idle, Main, Procs
  <2>2. p # Main => phase' = phase /\ calls'[Main] = calls[Main]
    BY DEF GetTokenFails, IInv, TypeOK, Main, Procs
  <2>3. phase' \in {phase, "failed"} /\ source' = source /\ kind' = kind
    BY DEF GetTokenFails
  <2> QED
    BY <2>1, <2>2, <2>3 DEF IInv, StartInv
<1> QED
  BY <1>2, <1>4, <1>5, <1>6 DEF IInv

-----------------------------------------------------------------------------
(* The refresher's own call is all that it changes, apart from the cached  *)
(* token.  Its name need not differ from the names of the callers.         *)
LEMMA RefresherAsks ==
  ASSUME IInv, calls' = [calls EXCEPT ![Refresher] = Asked(source)], now' = now
  PROVE  /\ CallInv'
         /\ calls' \in [Procs -> [pc : {"idle", "asked", "issued", "backoff"}, since : Nat,
                                  cred : Versions \cup {0}, tok : Token]]
         /\ calls'[Main] = calls[Main]
<1>1. now \in Nat
  BY Constants DEF IInv, TypeOK
<1>2. \A q \in Procs : calls'[q] = IF q = Refresher THEN Asked(source) ELSE calls[q]
  BY DEF IInv, TypeOK
<1>3. CallInv'
  BY <1>1, <1>2, Constants DEF IInv, CallInv, Asked
<1>4. calls'[Main] = calls[Main]
  BY <1>2 DEF Main, Refresher, Procs
<1> QED
  BY <1>3, <1>4, AskedType DEF IInv, TypeOK

LEMMA RenewingInv == ASSUME IInv, Renewing PROVE IInv'
<1> USE Constants
<1>0. Refresher \in Procs /\ Main \in Procs /\ Main # Refresher
  BY DEF Procs, Main, Refresher
<1>1. CASE RefreshTick
  <2>1. now \in Nat /\ now' = now
    BY <1>1 DEF RefreshTick, IInv, TypeOK, clock
  <2>2. /\ CallInv'
        /\ calls' \in [Procs -> [pc : {"idle", "asked", "issued", "backoff"}, since : Nat,
                                 cred : Versions \cup {0}, tok : Token]]
        /\ calls'[Main] = calls[Main]
    <3>1. CASE RenewEarliest(idToken)
      BY <1>1, <2>1, <3>1, RefresherAsks DEF RefreshTick
    <3>2. CASE ~RenewEarliest(idToken)
      BY <1>1, <2>1, <3>2 DEF RefreshTick, IInv, TypeOK, CallInv
    <3> QED
      BY <3>1, <3>2
  <2>3. began' \in Nat
    BY <1>1, <2>1 DEF RefreshTick, IInv, TypeOK
  <2>4. TypeOK'
    BY <1>1, <2>2, <2>3 DEF RefreshTick, IInv, TypeOK, clock, provider, file, watcher
  <2>5. AnswersAreValid' /\ StartInv'
    BY <1>1, <2>2 DEF RefreshTick, IInv, AnswersAreValid, StartInv, provider
  <2> QED
    BY <2>2, <2>4, <2>5 DEF IInv
<1>2. CASE RefreshFails
  <2>1. now' = now
    BY <1>2 DEF RefreshFails, clock
  <2>2. PICK new \in {Idle, [Idle EXCEPT !.pc = "backoff"]} :
          calls' = [calls EXCEPT ![Refresher] = new]
    BY <1>2 DEF RefreshFails
  <2>3. /\ CallInv'
        /\ calls' \in [Procs -> [pc : {"idle", "asked", "issued", "backoff"}, since : Nat,
                                 cred : Versions \cup {0}, tok : Token]]
    BY <1>0, <2>1, <2>2, CallEnds DEF IInv
  <2>4. calls'[Main] = calls[Main]
    BY <1>0, <2>2 DEF IInv, TypeOK
  <2>5. TypeOK'
    BY SMTT(30), <1>2, <2>3 DEF RefreshFails, IInv, TypeOK, clock, provider, refresh, file, watcher
  <2>6. AnswersAreValid' /\ StartInv'
    BY <1>2, <2>4 DEF RefreshFails, IInv, AnswersAreValid, StartInv, provider
  <2> QED
    BY <2>3, <2>5, <2>6 DEF IInv
<1>3. CASE RefreshRetries
  <2>1. now' = now
    BY <1>3 DEF RefreshRetries, clock
  <2>2. /\ CallInv'
        /\ calls' \in [Procs -> [pc : {"idle", "asked", "issued", "backoff"}, since : Nat,
                                 cred : Versions \cup {0}, tok : Token]]
        /\ calls'[Main] = calls[Main]
    BY <1>3, <2>1, RefresherAsks DEF RefreshRetries
  <2>3. TypeOK'
    BY <1>3, <2>2 DEF RefreshRetries, IInv, TypeOK, clock, provider, file, watcher
  <2>4. AnswersAreValid' /\ StartInv'
    BY <1>3, <2>2 DEF RefreshRetries, IInv, AnswersAreValid, StartInv, provider
  <2> QED
    BY <2>2, <2>3, <2>4 DEF IInv
<1>4. CASE RefreshReceives
  <2>1. now' = now
    BY <1>4 DEF RefreshReceives, clock
  <2>2. /\ CallInv'
        /\ calls' \in [Procs -> [pc : {"idle", "asked", "issued", "backoff"}, since : Nat,
                                 cred : Versions \cup {0}, tok : Token]]
    BY <1>0, <1>4, <2>1, CallEnds DEF RefreshReceives, IInv
  <2>3. calls'[Main] = calls[Main] /\ idToken' \in Token
    BY <1>0, <1>4 DEF RefreshReceives, IInv, TypeOK
  <2>4. TypeOK'
    BY SMTT(30), <1>4, <2>2, <2>3 DEF RefreshReceives, IInv, TypeOK, clock, provider, refresh, file, watcher
  <2>5. AnswersAreValid' /\ StartInv'
    BY <1>4, <2>3 DEF RefreshReceives, IInv, AnswersAreValid, StartInv, provider
  <2> QED
    BY <2>2, <2>4, <2>5 DEF IInv
<1> QED
  BY <1>1, <1>2, <1>3, <1>4 DEF Renewing

LEMMA TickInv == ASSUME IInv, Tick PROVE IInv'
<1> USE Constants
<1>1. now \in Nat /\ now' = now + 1 /\ now' \in 1..(MaxTime + 1)
  BY DEF Tick, IInv, TypeOK
<1>2. starved' \in 0..(MaxStarved + 1)
  BY DEF Tick, IInv, TypeOK
<1>3. TypeOK'
  BY <1>1, <1>2 DEF Tick, IInv, TypeOK, provider, file, watcher
<1>4. CallInv'
  <2> SUFFICES ASSUME NEW p \in Procs
               PROVE  /\ calls[p].pc \in {"asked", "issued"} =>
                           calls[p].since <= now' /\ now' <= calls[p].since + Timeout
                      /\ calls[p].pc = "issued" => calls[p].since + Life <= calls[p].tok.exp
    BY DEF CallInv, Tick
  <2>1. calls[p].since \in Nat
    BY DEF IInv, TypeOK
  <2>2. calls[p].pc \in {"asked", "issued"} => now < calls[p].since + Timeout
    BY DEF Tick
  <2> QED
    BY <1>1, <2>1, <2>2 DEF IInv, CallInv
<1>5. AnswersAreValid' /\ StartInv'
  BY DEF Tick, IInv, AnswersAreValid, StartInv, provider
<1> QED
  BY <1>3, <1>4, <1>5 DEF IInv

-----------------------------------------------------------------------------
LEMMA NextInv == ASSUME IInv, [Next]_vars PROVE IInv'
<1>1. CASE Next
  BY <1>1, EditInv, WatcherInv, StartingInv, RenewingInv, TickInv, AsksInv, ReceivesInv,
     FailsInv, IssueInv, CachedInv DEF Next, Serving
<1>2. CASE UNCHANGED vars
  BY <1>2 DEF vars, clock, provider, refresh, file, watcher, IInv, TypeOK, CallInv,
     AnswersAreValid, StartInv
<1> QED
  BY <1>1, <1>2

(* The inductive invariant holds in every state of the providers.          *)
THEOREM Inductive == Spec => []IInv
BY InitInv, NextInv, PTL DEF Spec

(* The variables of the token providers keep their types, and retries,     *)
(* edits and the clock their bounds.                                       *)
THEOREM TokensTypeCorrect == Spec => []TypeOK
<1>1. IInv => TypeOK
  BY DEF IInv
<1> QED
  BY <1>1, Inductive, PTL

(* A token that GetToken hands out is valid for clockSkew longer, for any  *)
(* number of connections, any lifetime of the tokens that exceeds the      *)
(* timeout of a request and the skew together, and any behaviour of the    *)
(* authorization server within its timeout.                                *)
THEOREM HandedOutTokensAreValid == Spec => []AnswersAreValid
<1>1. IInv => AnswersAreValid
  BY DEF IInv
<1> QED
  BY <1>1, Inductive, PTL

(* Credentials that do not parse never replace the ones in use, whatever   *)
(* happens to the file and however often.                                  *)
THEOREM WorkingCredentialsStay == Spec => []SourceStaysUsable
<1>1. IInv => SourceStaysUsable
  BY DEF IInv, StartInv, SourceStaysUsable
<1> QED
  BY <1>1, Inductive, PTL

-----------------------------------------------------------------------------
(* Outages are bridged.  Half is the margin of renewEarliest, EarlyAge the *)
(* greatest age at which a token is still left alone by the refresher.     *)
Half == Life \div 2
EarlyAge == Life - Skew - Half

(* A unit is as long as the timeout of a request, the skew leaves room for *)
(* the margin in the lifetime of a token, and the margin exceeds the       *)
(* outage by the unit in which a token grows too old and the one that its  *)
(* renewal takes.                                                          *)
Margins == Timeout <= 1 /\ Skew + Half <= Life /\ MaxStarved + 2 <= Half

(* tok is a token the server has issued by the time t.                     *)
IssuedBy(tok, t) == 1 <= tok.iat /\ tok.iat <= t /\ tok.exp = tok.iat + Life

(* Every token in the provider, on its way to it or handed out by it.      *)
TokenInv ==
  /\ idToken # NoToken => IssuedBy(idToken, now)
  /\ \A p \in Procs : calls[p].pc = "issued" => IssuedBy(calls[p].tok, now)
  /\ \A c \in Callers : answers[c].tok # NoToken => IssuedBy(answers[c].tok, now)

Open(call) == call.pc \in {"asked", "issued"}

(* While the provider serves and is not starved nobody but the refresher   *)
(* has a request open.  The token is older than EarlyAge by no more units  *)
(* than the server has been away, and one; else the server is back, and    *)
(* the request that renews the token was sent in the unit before.          *)
RunInv ==
  /\ idToken # NoToken
  /\ \A p \in Procs \ {Refresher} : calls[p].pc = "idle"
  /\ \/ now - idToken.iat <= EarlyAge + 1 + starved
     \/ /\ starved = 0 /\ Open(calls[Refresher]) /\ calls[Refresher].since < now
        /\ now - idToken.iat <= EarlyAge + 2 + MaxStarved
  /\ ticked /\ up /\ now - idToken.iat > EarlyAge => Open(calls[Refresher])
  /\ ticked /\ Open(calls[Refresher]) => calls[Refresher].since = now

Starts == {"loaded", "watching", "init"}

BridgeInv ==
  /\ starved = 0 => up
  /\ phase \in Starts => ~ticked /\ \A p \in Procs \ {Main} : calls[p].pc = "idle"
  /\ phase = "run" /\ starved <= MaxStarved => RunInv

-----------------------------------------------------------------------------
(* Steps that touch no token.                                              *)
LEMMA SameTokens ==
  ASSUME TokenInv, UNCHANGED <<now, idToken, calls, answers>>
  PROVE  TokenInv'
BY DEF TokenInv

(* A request that ends or begins carries no token.                         *)
LEMMA NoTokenYet ==
  ASSUME TypeOK, TokenInv, NEW p \in Procs, NEW new, new.pc # "issued",
         calls' = [calls EXCEPT ![p] = new], now' = now
  PROVE  \A q \in Procs : calls'[q].pc = "issued" => IssuedBy(calls'[q].tok, now')
<1>1. \A q \in Procs : calls'[q] = IF q = p THEN new ELSE calls[q]
  BY DEF TypeOK
<1> QED
  BY <1>1 DEF TokenInv

LEMMA IdleFacts ==
  /\ Idle.pc = "idle" /\ [Idle EXCEPT !.pc = "backoff"].pc = "backoff"
  /\ Asked(source).pc = "asked" /\ Asked(source).since = now
BY DEF Idle, Asked

LEMMA TokenStep == ASSUME IInv, TokenInv, [Next]_vars PROVE TokenInv'
<1> USE Constants
<1>0. Refresher \in Procs /\ TypeOK /\ CallInv
  BY DEF Procs, IInv
<1>1. CASE Edit
  <2>1. UNCHANGED <<now, idToken, calls, answers>>
    BY <1>1 DEF Edit, Truncate, Write, Replace, Remove, Create, Changes, clock
  <2> QED
    BY <2>1, SameTokens
<1>2. CASE Watcher
  <2>1. UNCHANGED <<now, idToken, calls, answers>>
    BY <1>2 DEF Watcher, TakeEvent, WaitForReplacement, Action, clock
  <2> QED
    BY <2>1, SameTokens
<1>3. CASE Starting
  <2>1. UNCHANGED <<now, idToken, calls, answers>>
    BY <1>3 DEF Starting, WatchForUpdates, CannotWatch, MakeProvider, clock
  <2> QED
    BY <2>1, SameTokens
<1>4. CASE UNCHANGED vars
  <2>1. UNCHANGED <<now, idToken, calls, answers>>
    BY <1>4 DEF vars, clock
  <2> QED
    BY <2>1, SameTokens
<1>5. CASE Tick
  <2>1. now \in Int /\ now' = now + 1
    BY <1>5 DEF Tick, IInv, TypeOK
  <2>2. UNCHANGED <<idToken, calls, answers>>
    BY <1>5 DEF Tick
  <2>3. \A tok \in Token : IssuedBy(tok, now) => IssuedBy(tok, now')
    BY <2>1 DEF IssuedBy, Token
  <2>4. /\ idToken \in Token /\ \A p \in Procs : calls[p].tok \in Token
        /\ \A c \in Callers : answers[c].tok \in Token
    BY <1>0 DEF TypeOK
  <2> QED
    BY <2>2, <2>3, <2>4 DEF TokenInv
<1>6. ASSUME NEW p \in Procs, NEW kid \in Kids, Issue(p, kid) PROVE TokenInv'
  <2> DEFINE t == [iat |-> now, exp |-> now + Life, cred |-> calls[p].cred, kid |-> kid]
  <2>1. now \in Nat /\ 1 <= now
    BY <1>0 DEF TypeOK
  <2>2. UNCHANGED <<now, idToken, answers>>
    BY <1>6 DEF Issue, clock
  <2>3. IssuedBy(t, now)
    BY <2>1 DEF IssuedBy
  <2>4. calls' = [calls EXCEPT ![p] = [calls[p] EXCEPT !.pc = "issued", !.tok = t]]
    BY <1>0, <1>6 DEF Issue, TypeOK
  <2> HIDE DEF t
  <2>5. \A q \in Procs : calls'[q] = IF q = p THEN [calls[p] EXCEPT !.pc = "issued", !.tok = t]
                                     ELSE calls[q]
    BY <1>0, <2>4 DEF TypeOK
  <2>6. calls'[p].tok = t
    BY <1>0, <2>5 DEF TypeOK
  <2> QED
    BY <2>2, <2>3, <2>5, <2>6 DEF TokenInv
<1>7. ASSUME NEW p \in Procs, GetTokenAsks(p) PROVE TokenInv'
  <2>1. UNCHANGED <<now, idToken, answers>> /\ calls' = [calls EXCEPT ![p] = Asked(source)]
    BY <1>7 DEF GetTokenAsks, clock
  <2> QED
    BY <1>0, <2>1, IdleFacts, NoTokenYet DEF TokenInv
<1>8. ASSUME NEW p \in Procs, GetTokenFails(p) PROVE TokenInv'
  <2>1. UNCHANGED <<now, idToken, answers>> /\ calls' = [calls EXCEPT ![p] = Idle]
    BY <1>8 DEF GetTokenFails, clock
  <2> QED
    BY <1>0, <2>1, IdleFacts, NoTokenYet DEF TokenInv
<1>9. ASSUME NEW p \in Procs, GetTokenReceives(p) PROVE TokenInv'
  <2>1. now' = now /\ idToken' = calls[p].tok /\ calls' = [calls EXCEPT ![p] = Idle]
    BY <1>9 DEF GetTokenReceives, clock
  <2>2. IssuedBy(calls[p].tok, now)
    BY <1>9 DEF GetTokenReceives, TokenInv
  <2>3. \A q \in Procs : calls'[q].pc = "issued" => IssuedBy(calls'[q].tok, now')
    BY <1>0, <2>1, IdleFacts, NoTokenYet
  <2>4. \/ answers' = answers
        \/ p \in Callers /\ answers' = [answers EXCEPT ![p] = [tok |-> calls[p].tok, at |-> now]]
    BY <1>9 DEF GetTokenReceives, Procs
  <2>5. \A c \in Callers : answers'[c].tok \in {answers[c].tok, calls[p].tok}
    <3>1. ASSUME p \in Callers, NEW c \in Callers,
                 answers' = [answers EXCEPT ![p] = [tok |-> calls[p].tok, at |-> now]]
          PROVE  answers'[c].tok \in {answers[c].tok, calls[p].tok}
      <4>1. answers'[c] = IF c = p THEN [tok |-> calls[p].tok, at |-> now] ELSE answers[c]
        BY <1>0, <3>1 DEF TypeOK
      <4> QED
        BY <4>1
    <3> QED
      BY <2>4, <3>1
  <2> QED
    BY <2>1, <2>2, <2>3, <2>5 DEF TokenInv
<1>10. ASSUME NEW c \in Callers, GetCachedToken(c) PROVE TokenInv'
  <2>1. UNCHANGED <<now, idToken, calls>>
    BY <1>10 DEF GetCachedToken, clock
  <2>2. \A d \in Callers : answers'[d].tok \in {answers[d].tok, idToken}
    BY <1>0, <1>10 DEF GetCachedToken, TypeOK
  <2> QED
    BY <2>1, <2>2 DEF TokenInv
<1>11. CASE Renewing
  <2>1. CASE RefreshTick
    <3>1. UNCHANGED <<now, idToken, answers>>
          /\ (calls' = calls \/ calls' = [calls EXCEPT ![Refresher] = Asked(source)])
      BY <2>1 DEF RefreshTick, clock
    <3> QED
      BY <1>0, <3>1, IdleFacts, NoTokenYet DEF TokenInv
  <2>2. CASE RefreshFails
    <3>1. UNCHANGED <<now, idToken, answers>>
          /\ (\/ calls' = [calls EXCEPT ![Refresher] = Idle]
              \/ calls' = [calls EXCEPT ![Refresher] = [Idle EXCEPT !.pc = "backoff"]])
      BY <2>2 DEF RefreshFails, clock
    <3> QED
      BY <1>0, <3>1, IdleFacts, NoTokenYet DEF TokenInv
  <2>3. CASE RefreshRetries
    <3>1. UNCHANGED <<now, idToken, answers>> /\ calls' = [calls EXCEPT ![Refresher] = Asked(source)]
      BY <2>3 DEF RefreshRetries, clock
    <3> QED
      BY <1>0, <3>1, IdleFacts, NoTokenYet DEF TokenInv
  <2>4. CASE RefreshReceives
    <3>1. UNCHANGED <<now, answers>> /\ calls' = [calls EXCEPT ![Refresher] = Idle]
          /\ idToken' = calls[Refresher].tok /\ calls[Refresher].pc = "issued"
      BY <2>4 DEF RefreshReceives, clock
    <3> QED
      BY <1>0, <3>1, IdleFacts, NoTokenYet DEF TokenInv
  <2> QED
    BY <1>11, <2>1, <2>2, <2>3, <2>4 DEF Renewing
<1> QED
  BY <1>1, <1>2, <1>3, <1>4, <1>5, <1>6, <1>7, <1>8, <1>9, <1>10, <1>11 DEF Next, Serving

-----------------------------------------------------------------------------
LEMMA MarginFacts ==
  ASSUME Margins
  PROVE  /\ Half \in Nat /\ EarlyAge \in Nat /\ Timeout \in {0, 1} /\ MaxStarved \in Nat
         /\ EarlyAge + 2 + MaxStarved <= Life - Skew
<1>1. Half \in Nat
  BY Constants DEF Half
<1>2. Timeout <= 1 /\ Skew + Half <= Life /\ MaxStarved + 2 <= Half
  BY DEF Margins
<1>3. EarlyAge = Life - Skew - Half
  BY DEF EarlyAge
<1> QED
  BY <1>1, <1>2, <1>3, Constants

LEMMA Numbers ==
  ASSUME TypeOK
  PROVE  /\ now \in Nat /\ starved \in Nat /\ idToken.iat \in Nat /\ idToken.exp \in Nat
         /\ Refresher \in Procs /\ Main \in Procs /\ Main # Refresher
         /\ \A p \in Procs : calls[p].since \in Nat /\ calls[p].tok.iat \in Nat
                             /\ calls[p].tok.exp \in Nat /\ calls[p].tok \in Token
<1>1. Refresher \in Procs /\ Main \in Procs /\ Main # Refresher
  BY DEF Procs, Refresher, Main
<1>2. now \in Nat /\ starved \in Nat /\ idToken.iat \in Nat /\ idToken.exp \in Nat
  BY Constants DEF TypeOK, Token
<1>3. \A p \in Procs : calls[p].since \in Nat /\ calls[p].tok \in Token
  BY DEF TypeOK
<1> QED
  BY <1>1, <1>2, <1>3 DEF Token

(* Of an issued token's age: it was issued after it was asked for.         *)
LEMMA YoungToken ==
  ASSUME TypeOK, CallInv, TokenInv, NEW p \in Procs, calls[p].pc = "issued"
  PROVE  /\ calls[p].tok # NoToken
         /\ calls[p].since <= calls[p].tok.iat /\ now - calls[p].tok.iat <= Timeout
<1>1. /\ calls[p].since \in Nat /\ calls[p].tok.iat \in Nat /\ calls[p].tok.exp \in Nat
      /\ now \in Nat
  BY Numbers
<1>2. /\ calls[p].since <= now /\ now <= calls[p].since + Timeout
      /\ calls[p].since + Life <= calls[p].tok.exp
  BY DEF CallInv
<1>3. 1 <= calls[p].tok.iat /\ calls[p].tok.exp = calls[p].tok.iat + Life
  BY DEF TokenInv, IssuedBy
<1>4. calls[p].tok # NoToken
  BY <1>3 DEF NoToken
<1> QED
  BY <1>1, <1>2, <1>3, <1>4, Constants

(* The two tests of a token's age, for a token the server issued.          *)
LEMMA Tests ==
  ASSUME TypeOK, TokenInv, idToken # NoToken, Margins
  PROVE  /\ RenewLatest(idToken) <=> now - idToken.iat > Life - Skew
         /\ now - idToken.iat > EarlyAge => RenewEarliest(idToken)
<1>1. now \in Nat /\ idToken.iat \in Nat /\ idToken.exp = idToken.iat + Life
  BY Numbers DEF TokenInv, IssuedBy
<1>2. idToken.exp - idToken.iat = Life
  BY <1>1, Constants
<1>3. RenewEarliest(idToken) <=> \/ Life <= 0
                                 \/ now > idToken.exp - Skew - Half
  BY <1>2 DEF RenewEarliest, Half
<1>4. RenewLatest(idToken) <=> now > idToken.exp - Skew
  BY DEF RenewLatest
<1>5. Half \in Nat
  BY MarginFacts
<1>6. EarlyAge = Life - Skew - Half
  BY DEF EarlyAge
<1>7. now > idToken.exp - Skew <=> now - idToken.iat > Life - Skew
  BY <1>1, Constants
<1>8. now - idToken.iat > EarlyAge => now > idToken.exp - Skew - Half
  BY <1>1, <1>5, <1>6, Constants
<1> QED
  BY <1>3, <1>4, <1>7, <1>8

LEMMA RunIsBridged ==
  ASSUME TypeOK, TokenInv, BridgeInv, Margins
  PROVE  OutageIsBridged
<1> SUFFICES ASSUME phase = "run", starved <= MaxStarved
             PROVE  ~RenewLatest(idToken)
  BY DEF OutageIsBridged
<1>1. RunInv
  BY DEF BridgeInv
<1>2. idToken # NoToken
  BY <1>1 DEF RunInv
<1>3. \/ now - idToken.iat <= EarlyAge + 1 + starved
      \/ now - idToken.iat <= EarlyAge + 2 + MaxStarved
  BY <1>1 DEF RunInv
<1>4. now - idToken.iat <= Life - Skew
  BY <1>3, Numbers, MarginFacts, Constants
<1>5. ~(now - idToken.iat > Life - Skew)
  BY <1>4, Numbers, Constants
<1> QED
  BY <1>2, <1>5, Tests

(* Steps outside the renewal of the token.                                 *)
LEMMA SameBridge ==
  ASSUME BridgeInv, UNCHANGED <<clock, idToken, calls, ticked>>,
         \/ phase' = phase
         \/ phase \in Starts /\ phase' \in Starts \cup {"failed"}
  PROVE  BridgeInv'
<1>1. RunInv => RunInv'
  BY DEF RunInv, Open, clock
<1>2. phase' = "run" => phase = "run"
  BY DEF Starts
<1>3. phase' \in Starts => phase \in Starts
  BY DEF Starts
<1> QED
  BY <1>1, <1>2, <1>3 DEF BridgeInv, clock

(* A unit passes.                                                          *)
LEMMA TickBridge ==
  ASSUME IInv, TokenInv, BridgeInv, Margins, Tick
  PROVE  BridgeInv'
<1>0. TypeOK /\ CallInv
  BY DEF IInv
<1>1. /\ now' = now + 1 /\ ticked' = FALSE /\ up' \in BOOLEAN
      /\ UNCHANGED <<phase, idToken, calls>>
      /\ phase \in {"init", "run"} /\ (phase = "run" => ticked)
  BY DEF Tick, provider
<1>2. starved' = IF starved > MaxStarved THEN starved ELSE IF up /\ up' THEN 0 ELSE starved + 1
  BY DEF Tick
<1>3. \A p \in Procs : Open(calls[p]) => now < calls[p].since + Timeout
  BY DEF Tick, Open
<1>4. starved' = 0 => up /\ up'
  <2>1. starved \in Nat /\ MaxStarved \in Nat
    BY <1>0, Numbers, MarginFacts
  <2>2. starved > MaxStarved => starved # 0
    BY <2>1
  <2>3. starved + 1 # 0
    BY <2>1
  <2> QED
    BY <1>2, <2>2, <2>3
<1>5. ASSUME phase = "run", starved' <= MaxStarved PROVE RunInv'
  <2>1. starved <= MaxStarved
    BY <1>0, <1>2, <1>5, Numbers, MarginFacts
  <2>2. RunInv
    BY <1>5, <2>1 DEF BridgeInv
  <2>3. now \in Nat /\ starved \in Nat /\ idToken.iat \in Nat /\ calls[Refresher].since \in Nat
        /\ EarlyAge \in Nat /\ MaxStarved \in Nat /\ Refresher \in Procs /\ Timeout \in {0, 1}
    BY <1>0, Numbers, MarginFacts
  <2>4. now - idToken.iat <= EarlyAge + 1 + starved
    <3>1. SUFFICES ASSUME Open(calls[Refresher]), calls[Refresher].since < now PROVE FALSE
      BY <2>2 DEF RunInv
    <3> QED
      BY <1>3, <2>3, <3>1
  <2>5. starved' = 0 \/ starved' = starved + 1
    BY <1>2, <2>1, <2>3
  <2>6. CASE starved' = starved + 1
    <3>1. now' - idToken.iat <= EarlyAge + 1 + starved'
      BY <1>1, <2>3, <2>4, <2>6
    <3> QED
      BY <1>1, <2>2, <3>1 DEF RunInv
  <2>7. CASE starved' = 0
    <3>1. ticked /\ up
      BY <1>1, <1>4, <1>5, <2>7
    <3>2. CASE now - idToken.iat <= EarlyAge
      <4>1. now' - idToken.iat <= EarlyAge + 1 + starved'
        BY <1>1, <2>3, <2>7, <3>2
      <4> QED
        BY <1>1, <2>2, <4>1 DEF RunInv
    <3>3. CASE now - idToken.iat > EarlyAge
      <4>1. Open(calls[Refresher])
        BY <2>2, <3>1, <3>3 DEF RunInv
      <4>2. calls[Refresher].since < now'
        <5>1. calls[Refresher].since <= now
          BY <1>0, <2>3, <4>1 DEF CallInv, Open
        <5> QED
          BY <1>1, <2>3, <5>1
      <4>3. now' - idToken.iat <= EarlyAge + 2 + MaxStarved
        BY <1>1, <2>1, <2>3, <2>4
      <4> QED
        BY <1>1, <2>2, <2>7, <4>1, <4>2, <4>3 DEF RunInv, Open
    <3>4. now - idToken.iat <= EarlyAge \/ now - idToken.iat > EarlyAge
      BY <2>3
    <3> QED
      BY <3>2, <3>3, <3>4
  <2> QED
    BY <2>5, <2>6, <2>7
<1>6. phase' \in Starts => ~ticked' /\ \A p \in Procs \ {Main} : calls'[p].pc = "idle"
  BY <1>1 DEF BridgeInv
<1> QED
  BY <1>1, <1>4, <1>5, <1>6 DEF BridgeInv

(* Steps of a process other than the refresher that leave the token alone: *)
(* there are none while the provider serves and is not starved.            *)
LEMMA StarvedBridge ==
  ASSUME BridgeInv, UNCHANGED <<clock, ticked>>,
         phase = "run" => starved > MaxStarved, phase' \in {phase, "failed"},
         phase \in Starts => \A p \in Procs \ {Main} : calls'[p].pc = "idle",
         starved \in Nat, MaxStarved \in Nat
  PROVE  BridgeInv'
<1>1. phase' = "run" => ~(starved' <= MaxStarved)
  BY DEF clock
<1>2. phase' \in Starts => phase \in Starts
  BY DEF Starts
<1> QED
  BY <1>1, <1>2, Zenon DEF BridgeInv, clock

LEMMA ServingBridge ==
  ASSUME IInv, TokenInv, BridgeInv, Margins, NEW p \in Procs, Serving(p)
  PROVE  BridgeInv'
<1>0. /\ TypeOK /\ CallInv /\ starved \in Nat /\ MaxStarved \in Nat /\ Main \in Procs
      /\ Refresher \in Procs /\ Main # Refresher
  BY Numbers, MarginFacts DEF IInv
<1>1. CASE GetTokenAsks(p)
  <2>1. /\ UNCHANGED <<clock, ticked, phase>> /\ calls' = [calls EXCEPT ![p] = Asked(source)]
        /\ MayAsk(p) /\ RenewLatest(idToken)
    BY <1>1 DEF GetTokenAsks, provider, refresh
  <2>2. phase = "run" => starved > MaxStarved
    BY <1>0, <2>1, RunIsBridged DEF OutageIsBridged
  <2>3. phase \in Starts => p = Main
    BY <2>1 DEF MayAsk, Starts
  <2>4. phase \in Starts => \A q \in Procs \ {Main} : calls'[q].pc = "idle"
    BY <1>0, <2>1, <2>3 DEF BridgeInv, TypeOK
  <2> QED
    BY <1>0, <2>1, <2>2, <2>4, StarvedBridge
<1>2. CASE GetTokenFails(p)
  <2>1. /\ UNCHANGED <<clock, ticked>> /\ calls' = [calls EXCEPT ![p] = Idle]
        /\ p # Refresher /\ calls[p].pc = "asked" /\ phase' \in {phase, "failed"}
    BY <1>2 DEF GetTokenFails, refresh
  <2>2. phase = "run" => starved > MaxStarved
    BY <1>0, <2>1 DEF BridgeInv, RunInv
  <2>3. phase \in Starts => \A q \in Procs \ {Main} : calls'[q].pc = "idle"
    BY <1>0, <2>1, IdleFacts DEF BridgeInv, TypeOK
  <2> QED
    BY <1>0, <2>1, <2>2, <2>3, StarvedBridge
<1>3. CASE GetTokenReceives(p)
  <2>1. /\ UNCHANGED <<clock, ticked>> /\ calls' = [calls EXCEPT ![p] = Idle]
        /\ p # Refresher /\ calls[p].pc = "issued" /\ idToken' = calls[p].tok
        /\ phase' = IF p = Main THEN "run" ELSE phase
    BY <1>3 DEF GetTokenReceives, refresh
  <2>2. phase = "run" => starved > MaxStarved
    BY <1>0, <2>1 DEF BridgeInv, RunInv
  <2>3. CASE phase = "init"
    <3>1. ~ticked /\ \A q \in Procs \ {Main} : calls[q].pc = "idle"
      BY <2>3 DEF BridgeInv, Starts
    <3>2. p = Main /\ phase' = "run"
      BY <2>1, <3>1
    <3>3. \A q \in Procs : calls'[q].pc = "idle"
      BY <1>0, <2>1, <3>1, <3>2, IdleFacts DEF TypeOK
    <3>4. calls[p].tok # NoToken /\ now - calls[p].tok.iat <= Timeout
      BY <1>0, <2>1, YoungToken
    <3>5. now' - idToken'.iat <= EarlyAge + 1 + starved'
      <4>1. now - calls[p].tok.iat <= EarlyAge + 1 + starved
        BY <1>0, <3>4, Numbers, MarginFacts
      <4> QED
        BY <2>1, <4>1 DEF clock
    <3>6. RunInv'
      BY <1>0, <2>1, <3>1, <3>3, <3>4, <3>5 DEF RunInv, Open, clock
    <3> QED
      BY <2>1, <3>2, <3>6 DEF BridgeInv, Starts, clock
  <2>4. CASE phase # "init"
    <3>1. p = Main => phase = "run"
      BY <1>0, <2>1, <2>4 DEF IInv, StartInv
    <3>2. phase \in Starts => \A q \in Procs \ {Main} : calls'[q].pc = "idle"
      BY <1>0, <2>1, IdleFacts DEF BridgeInv, TypeOK
    <3> QED
      BY <1>0, <2>1, <2>2, <3>1, <3>2, StarvedBridge
  <2> QED
    BY <2>3, <2>4
<1> QED
  BY <1>1, <1>2, <1>3 DEF Serving

LEMMA IssueBridge ==
  ASSUME IInv, BridgeInv, NEW p \in Procs, NEW kid \in Kids, Issue(p, kid)
  PROVE  BridgeInv'
<1> DEFINE t == [iat |-> now, exp |-> now + Life, cred |-> calls[p].cred, kid |-> kid]
<1>0. TypeOK
  BY DEF IInv
<1>1. UNCHANGED <<clock, ticked, phase, idToken>> /\ calls[p].pc = "asked"
  BY DEF Issue, provider, refresh
<1>2. calls' = [calls EXCEPT ![p] = [calls[p] EXCEPT !.pc = "issued", !.tok = t]]
  BY <1>0 DEF Issue, TypeOK
<1> HIDE DEF t
<1>3. \A q \in Procs : calls'[q] = IF q = p THEN [calls[p] EXCEPT !.pc = "issued", !.tok = t]
                                   ELSE calls[q]
  BY <1>0, <1>2 DEF TypeOK
<1>4. \A q \in Procs : /\ calls'[q].since = calls[q].since
                       /\ Open(calls'[q]) <=> Open(calls[q])
                       /\ calls[q].pc = "idle" => calls'[q].pc = "idle"
  BY <1>0, <1>1, <1>3 DEF TypeOK, Open
<1>5. Refresher \in Procs
  BY DEF Procs
<1>6. RunInv => RunInv'
  <2> SUFFICES ASSUME RunInv PROVE RunInv'
    OBVIOUS
  <2>1. idToken' # NoToken /\ \A q \in Procs \ {Refresher} : calls'[q].pc = "idle"
    BY <1>1, <1>4 DEF RunInv
  <2>2. /\ now' = now /\ up' = up /\ starved' = starved /\ idToken' = idToken /\ ticked' = ticked
        /\ calls'[Refresher].since = calls[Refresher].since
        /\ Open(calls'[Refresher]) <=> Open(calls[Refresher])
    BY <1>1, <1>4, <1>5 DEF clock
  <2> HIDE DEF Open
  <2> QED
    BY <2>1, <2>2 DEF RunInv
<1> QED
  BY <1>1, <1>4, <1>6 DEF BridgeInv, clock

LEMMA RenewingBridge ==
  ASSUME IInv, TokenInv, BridgeInv, Margins, Renewing
  PROVE  BridgeInv'
<1>0. /\ TypeOK /\ CallInv /\ now \in Nat /\ starved \in Nat /\ idToken.iat \in Nat
      /\ EarlyAge \in Nat /\ MaxStarved \in Nat /\ Refresher \in Procs /\ Main \in Procs
      /\ Main # Refresher /\ Timeout \in {0, 1}
  BY Numbers, MarginFacts DEF IInv
<1>1. CASE RefreshTick
  <2>1. /\ UNCHANGED <<clock, phase, idToken>> /\ phase = "run" /\ ~ticked /\ ticked' = TRUE
        /\ calls[Refresher].pc = "idle"
        /\ calls' = IF RenewEarliest(idToken) THEN [calls EXCEPT ![Refresher] = Asked(source)]
                    ELSE calls
    BY <1>1 DEF RefreshTick, provider
  <2>2. \A q \in Procs \ {Refresher} : calls'[q] = calls[q]
    BY <1>0, <2>1 DEF TypeOK
  <2>3. calls'[Refresher] = IF RenewEarliest(idToken) THEN Asked(source) ELSE calls[Refresher]
    BY <1>0, <2>1 DEF TypeOK
  <2>4. ASSUME starved <= MaxStarved PROVE RunInv'
    <3>1. RunInv
      BY <2>1, <2>4 DEF BridgeInv
    <3>2. now - idToken.iat <= EarlyAge + 1 + starved
      BY <2>1, <3>1 DEF RunInv, Open
    <3>3. now - idToken.iat > EarlyAge => Open(calls'[Refresher])
      BY <1>0, <2>3, <3>1, Tests, IdleFacts DEF RunInv, Open
    <3>4. Open(calls'[Refresher]) => calls'[Refresher].since = now
      BY <2>1, <2>3, IdleFacts DEF Open
    <3> QED
      BY <2>1, <2>2, <3>1, <3>2, <3>3, <3>4 DEF RunInv, clock
  <2> QED
    BY <2>1, <2>4 DEF BridgeInv, Starts, clock
<1>2. CASE RefreshFails
  <2>1. /\ UNCHANGED <<clock, phase, idToken, ticked>> /\ ~up /\ calls[Refresher].pc = "asked"
    BY <1>2 DEF RefreshFails, provider, refresh
  <2>2. PICK new \in {Idle, [Idle EXCEPT !.pc = "backoff"]} :
          calls' = [calls EXCEPT ![Refresher] = new]
    BY <1>2 DEF RefreshFails
  <2>3. /\ \A q \in Procs \ {Refresher} : calls'[q] = calls[q]
        /\ calls'[Refresher].pc \in {"idle", "backoff"}
    BY <1>0, <2>2, IdleFacts DEF TypeOK
  <2>4. phase \notin Starts
    BY <1>0, <2>1 DEF BridgeInv
  <2>5. ASSUME phase = "run", starved <= MaxStarved PROVE RunInv'
    <3>1. RunInv /\ starved # 0
      BY <2>1, <2>5 DEF BridgeInv
    <3>2. ~Open(calls'[Refresher])
      BY <2>3 DEF Open
    <3> QED
      BY <2>1, <2>3, <3>1, <3>2 DEF RunInv, clock
  <2> QED
    BY <2>1, <2>4, <2>5 DEF BridgeInv, clock
<1>3. CASE RefreshRetries
  <2>1. /\ UNCHANGED <<clock, phase, idToken>> /\ ticked' = TRUE
        /\ calls[Refresher].pc = "backoff" /\ calls' = [calls EXCEPT ![Refresher] = Asked(source)]
    BY <1>3 DEF RefreshRetries, provider
  <2>2. /\ \A q \in Procs \ {Refresher} : calls'[q] = calls[q]
        /\ calls'[Refresher].pc = "asked" /\ calls'[Refresher].since = now
    BY <1>0, <2>1, IdleFacts DEF TypeOK
  <2>3. phase \notin Starts
    BY <1>0, <2>1 DEF BridgeInv
  <2>4. ASSUME phase = "run", starved <= MaxStarved PROVE RunInv'
    <3>1. RunInv
      BY <2>4 DEF BridgeInv
    <3>2. now - idToken.iat <= EarlyAge + 1 + starved
      BY <2>1, <3>1 DEF RunInv, Open
    <3> QED
      BY <2>1, <2>2, <3>1, <3>2 DEF RunInv, Open, clock
  <2> QED
    BY <2>1, <2>3, <2>4 DEF BridgeInv, clock
<1>4. CASE RefreshReceives
  <2>1. /\ UNCHANGED <<clock, phase, ticked>> /\ idToken' = calls[Refresher].tok
        /\ calls[Refresher].pc = "issued" /\ calls' = [calls EXCEPT ![Refresher] = Idle]
    BY <1>4 DEF RefreshReceives, provider, refresh
  <2>2. /\ \A q \in Procs \ {Refresher} : calls'[q] = calls[q]
        /\ calls'[Refresher].pc = "idle"
    BY <1>0, <2>1, IdleFacts DEF TypeOK
  <2>3. phase \notin Starts
    BY <1>0, <2>1 DEF BridgeInv
  <2> DEFINE tok == calls[Refresher].tok
  <2>4. /\ tok # NoToken /\ now - tok.iat <= Timeout /\ calls[Refresher].since <= tok.iat
        /\ tok.iat \in Nat /\ calls[Refresher].since \in Nat
    BY <1>0, <2>1, YoungToken, Numbers
  <2>5. ASSUME phase = "run", starved <= MaxStarved PROVE RunInv'
    <3>1. RunInv
      BY <2>5 DEF BridgeInv
    <3>2. now - tok.iat <= EarlyAge + 1 + starved
      BY <1>0, <2>4
    <3>3. ticked => now - tok.iat <= EarlyAge
      <4>1. ticked => calls[Refresher].since = now
        BY <2>1, <3>1 DEF RunInv, Open
      <4> QED
        BY <1>0, <2>4, <4>1
    <3>4. ~Open(calls'[Refresher])
      BY <2>2 DEF Open
    <3>5. ~(ticked /\ now - tok.iat > EarlyAge)
      BY <1>0, <2>4, <3>3
    <3> QED
      BY <2>1, <2>2, <2>4, <3>1, <3>2, <3>4, <3>5 DEF RunInv, clock
  <2> QED
    BY <2>1, <2>3, <2>5 DEF BridgeInv, clock
<1> QED
  BY <1>1, <1>2, <1>3, <1>4 DEF Renewing

LEMMA BridgeStep ==
  ASSUME IInv, TokenInv, BridgeInv, Margins, [Next]_vars
  PROVE  BridgeInv'
<1>1. CASE Edit
  BY <1>1, SameBridge DEF Edit, Truncate, Write, Replace, Remove, Create, Changes, provider,
                          refresh
<1>2. CASE Watcher
  BY <1>2, SameBridge DEF Watcher, TakeEvent, WaitForReplacement, Action, provider, refresh
<1>3. CASE Starting
  BY <1>3, SameBridge DEF Starting, WatchForUpdates, CannotWatch, MakeProvider, Starts, refresh
<1>4. CASE UNCHANGED vars
  BY <1>4, SameBridge DEF vars, provider, refresh
<1>5. ASSUME NEW c \in Callers, GetCachedToken(c) PROVE BridgeInv'
  BY <1>5, SameBridge DEF GetCachedToken, provider, refresh
<1> QED
  BY <1>1, <1>2, <1>3, <1>4, <1>5, TickBridge, RenewingBridge, IssueBridge, ServingBridge
     DEF Next

LEMMA BridgeInit == ASSUME Init PROVE TokenInv /\ BridgeInv
<1>1. TokenInv
  BY DEF Init, TokenInv, NoAnswer, Idle
<1>2. BridgeInv
  BY DEF Init, BridgeInv, Starts, Idle
<1> QED
  BY <1>1, <1>2

(* The margin of renewEarliest bridges outages: unless the server was gone *)
(* for more than MaxStarved units, no connection finds the cached token    *)
(* too old.  For any number of connections, whatever the file watcher      *)
(* does, whenever the server is gone and however long the backoff lasts;   *)
(* the margin, half of the lifetime, must exceed the outage by two units.  *)
THEOREM RenewalBridgesOutages ==
  ASSUME Margins PROVE Spec => []OutageIsBridged
<1>1. Init => IInv /\ TokenInv /\ BridgeInv
  BY InitInv, BridgeInit
<1>2. IInv /\ TokenInv /\ BridgeInv /\ [Next]_vars => (IInv /\ TokenInv /\ BridgeInv)'
  BY NextInv, TokenStep, BridgeStep
<1>3. IInv /\ TokenInv /\ BridgeInv => OutageIsBridged
  BY RunIsBridged DEF IInv
<1> QED
  BY <1>1, <1>2, <1>3, PTL DEF Spec
=============================================================================
