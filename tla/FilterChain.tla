----------------------------- MODULE FilterChain -----------------------------
(***************************************************************************)
(* The chain of filter plugins with the encryption filters in it           *)
(* (Encryption): what a producer's records go through on their way to the  *)
(* broker, and what a consumer gets of them.  One request is followed at a *)
(* time.  Plugins start or do not, die, and lose their key service; the    *)
(* proxy is restarted.                                                     *)
(***************************************************************************)
EXTENDS Encryption, Functions, FiniteSets

CONSTANTS
  Configured,    \* plugins in the plugin directory, in the order of their names
  Bare,          \* of TRUE and FALSE: are filters given bodies without headers
  Batches,       \* batches clients produce
  Versions,      \* of Produce and Fetch
  MaxLog,        \* bound: batches in the log
  MaxRestarts    \* bound: restarts of the proxy

Filters == {"gcp", "vault"}

ASSUME ChainAssumption ==
  /\ Configured \in Seq(Filters)
  /\ \A i, j \in 1..Len(Configured) : Configured[i] = Configured[j] => i = j
  /\ Bare \subseteq BOOLEAN /\ Versions \subseteq Nat /\ MaxLog \in Nat /\ MaxRestarts \in Nat
  /\ Batches \subseteq [kind : {"data", "gzip", "packed"},
                        recs : Seq({Value("nil"), Value("empty"), Value("text")}),
                        by : {<<>>}, named : {TRUE}]

VARIABLES
  started,   \* FilterChain.filters
  dead,      \* plugins whose process has ended
  kms,       \* plugins whose key service answers
  bare,
  log,       \* the partition's batches, with the chain that stored them
  restarts,
  job        \* the request followed

env  == <<started, dead, kms, bare, restarts>>
vars == <<env, log, job>>

NoJob == [pc |-> "idle", api |-> "none"]
Plugins == Range(Configured)

(* NewFilterChain: a plugin that does not start is left out, the others    *)
(* keep their order.                                                       *)
Place(f) == CHOOSE i \in 1..Len(Configured) : Configured[i] = f
NewFilterChain ==
  { s \in UNION {[1..n -> Plugins] : n \in 0..Len(Configured)} :
      \A i, j \in 1..Len(s) : i < j => Place(s[i]) < Place(s[j]) }

Init ==
  /\ started \in NewFilterChain /\ dead = {} /\ kms = Plugins
  /\ bare \in Bare /\ log = <<>> /\ restarts = 0 /\ job = NoJob

Idle == job.pc = "idle"

-----------------------------------------------------------------------------
(* Requests a client makes.                                                *)
Produce ==
  /\ Idle /\ Len(log) < MaxLog
  /\ \E b \in Batches, v \in Versions :
       job' = [pc |-> "request", api |-> "produce", version |-> v, at |-> 1, cut |-> FALSE,
               body |-> <<b>>, bare |-> bare, mangled |-> FALSE, why |-> ""]
  /\ UNCHANGED <<env, log>>

(* The broker may cut off the last batch at the size asked for.            *)
Fetch ==
  /\ Idle /\ log # <<>>
  /\ \E c \in BOOLEAN, v \in Versions :
       job' = [pc |-> "reply", api |-> "fetch", version |-> v, at |-> Len(started), cut |-> c,
               body |-> log, bare |-> bare, mangled |-> FALSE, why |-> ""]
  /\ UNCHANGED <<env, log>>

-----------------------------------------------------------------------------
(* The chain.  The plugin f was called and returned res.                   *)
Called(f, res, next) ==
  /\ dead' = IF ~res.ok /\ res.why = "crash" THEN dead \cup {f} ELSE dead
  /\ job' = IF res.ok
            THEN [job EXCEPT !.at = next, !.body = res.val,
                             !.mangled = @ \/ (~job.bare /\ job.api # "addresses"),
                             !.bare = @ \/ job.api # "addresses"]
            ELSE [job EXCEPT !.pc = "done", !.why = res.why]
  /\ UNCHANGED <<started, kms, bare, restarts, log>>

CallFails ==
  job' = [job EXCEPT !.pc = "done", !.why = "plugin"] /\ UNCHANGED <<env, log>>

(* ApplyRequestFilters, one filter.                                        *)
ApplyRequestFilter ==
  /\ job.pc = "request" /\ job.at <= Len(started)
  /\ LET f == started[job.at] IN
     IF f \in dead THEN CallFails
     ELSE \E res \in OnRequest(f, job.api, KeyName("topic", job.version), job.body,
                               job.bare, f \in kms) :
            Called(f, res, job.at + 1)

(* ApplyResponseFilters: from the last filter to the first.                *)
\* Fault.  In the order of requests.
ResponseFilterForward(at) == started[Len(started) + 1 - at]
ResponseFilter(at) == started[at]

ApplyResponseFilter ==
  /\ job.pc = "reply" /\ job.at >= 1
  /\ LET f == ResponseFilter(job.at) IN
     IF f \in dead THEN CallFails
     ELSE \E res \in OnResponse(f, job.api, KeyName("topic", job.version), job.body,
                                job.cut, job.bare, f \in kms) :
            Called(f, res, job.at - 1)

(* The request is written to the broker, which stores it unless what it is *)
(* sent is no Produce request any more.                                    *)
WriteRequest ==
  /\ job.pc = "request" /\ job.at > Len(started)
  /\ log' = IF job.mangled THEN log
            ELSE Append(log, [job.body[1] EXCEPT !.by = started, !.named = job.version < 13])
  /\ job' = [job EXCEPT !.pc = "done", !.why = IF job.mangled THEN "header" ELSE ""]
  /\ UNCHANGED env

WriteReply ==
  /\ job.pc = "reply" /\ job.at = 0
  /\ job' = [job EXCEPT !.pc = "done", !.why = IF job.mangled THEN "header" ELSE ""]
  /\ UNCHANGED <<env, log>>

NextRequest == job.pc = "done" /\ job' = NoJob /\ UNCHANGED <<env, log>>

-----------------------------------------------------------------------------
(* A transaction is committed: the broker writes a control batch.          *)
CommitTxn ==
  /\ Idle /\ log # <<>> /\ Len(log) < MaxLog
  /\ log' = Append(log, [kind |-> "control", recs |-> <<Value("marker")>>, by |-> <<>>,
                         named |-> TRUE])
  /\ UNCHANGED <<env, job>>

PluginDies ==
  /\ \E f \in Range(started) \ dead : dead' = dead \cup {f}
  /\ UNCHANGED <<started, kms, bare, restarts, log, job>>

KmsChanges ==
  /\ \E f \in Range(started) : kms' = IF f \in kms THEN kms \ {f} ELSE kms \cup {f}
  /\ UNCHANGED <<started, dead, bare, restarts, log, job>>

(* Client.Close kills the plugins; a new process starts them.              *)
\* Fault.  Processes that have ended are still taken for running ones' peers.
RestartKeepsDead ==
  /\ Idle /\ restarts < MaxRestarts
  /\ started' \in NewFilterChain /\ restarts' = restarts + 1
  /\ UNCHANGED <<dead, kms, bare, log, job>>
Restart ==
  /\ Idle /\ restarts < MaxRestarts
  /\ started' \in NewFilterChain /\ dead' = {} /\ restarts' = restarts + 1
  /\ UNCHANGED <<kms, bare, log, job>>

ChainNext ==
  \/ Produce \/ Fetch
  \/ ApplyRequestFilter \/ ApplyResponseFilter \/ WriteRequest \/ WriteReply \/ NextRequest
  \/ CommitTxn \/ PluginDies \/ KmsChanges \/ Restart

-----------------------------------------------------------------------------
(* Types: the chain is a selection of the plugins in their order, and only *)
(* started plugins die.                                                    *)
TypeOK ==
  /\ started \in NewFilterChain /\ dead \subseteq Range(started) /\ kms \subseteq Plugins
  /\ bare \in Bare /\ restarts \in 0..MaxRestarts /\ Len(log) <= MaxLog
  /\ job.pc \in {"idle", "request", "reply", "done"}
  /\ job.pc \in {"request", "reply"} => job.at \in 0..(Len(started) + 1)
  /\ \A i \in 1..Len(log) : log[i].kind \in {"data", "gzip", "packed", "control"}

Finished(api) == job.pc = "done" /\ job.api = api

(* The broker stores no value that a filter of the running chain has not   *)
(* encrypted: a filter that fails, dies or cannot read a batch stops the   *)
(* whole request.                                                          *)
StoredAsEncrypted ==
  \A i \in 1..Len(log) :
    log[i].kind # "control" /\ log[i].by # <<>> =>
      /\ log[i].kind = "data"
      /\ \A j \in 1..Len(log[i].recs) :
           LET v == log[i].recs[j] IN
           v.base # "nil" => [k \in 1..Len(v.layers) |-> v.layers[k].filter] = log[i].by

(* What the consumer should get: nil for a value that is empty, since the  *)
(* filters return nil for it.                                              *)
Restored(recs) ==
  [j \in 1..Len(recs) |->
     Value(IF recs[j].base = "empty" /\ recs[j].layers # <<>> THEN "nil" ELSE recs[j].base)]

(* A consumer gets all batches, and what producers have written through    *)
(* the same chain as they wrote it, or it gets nothing: and nothing only   *)
(* because of the key service, a plugin that has ended, another chain than *)
(* at the time of writing, a key by another name, or batches the filters   *)
(* do not handle.                                                          *)
RestoredOrRefused ==
  Finished("fetch") =>
    LET all == 1..Len(log)
        same(i) == log[i].by = started
    IN  CASE job.why = "" ->
               /\ Len(job.body) = Len(log)
               /\ \A i \in all : log[i].kind = "data" /\ same(i) =>
                                   job.body[i].recs = Restored(log[i].recs)
          [] job.why = "key" -> \E i \in all : ~same(i) \/ log[i].named # (job.version < 13)
          [] job.why \in {"format", "crash"} ->
               job.cut \/ \E i \in all : log[i].kind # "data" \/ ~same(i)
          [] job.why = "header" -> ~bare
          [] OTHER -> job.why \in {"kms", "plugin"}

(* As the documentation has it: messages are encrypted on Produce.  A      *)
(* request with records fails only when the key service does or a plugin   *)
(* is gone.                                                                *)
EncryptsOnProduce ==
  Finished("produce") => job.why \in {"", "kms", "plugin"}
=============================================================================
