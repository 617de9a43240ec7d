-------------------------- MODULE RewrittenReplies ---------------------------
(***************************************************************************)
(* The replies of DataPath with the codec of Responses.                    *)
(***************************************************************************)
EXTENDS DataPath, Responses

RewriteReply(r) ==
  HandleResponse(r.key, r.version, KafkaReply(r.key, r.version, r.content, r.addrs), r.fails)

-----------------------------------------------------------------------------
SameCells(a, b) ==
  Len(a) = Len(b) /\ \A i \in 1..Len(a) : a[i].w = b[i].w /\ a[i].v = b[i].v

(* A list or a string beyond what the codec takes: see MaxArrayLength and  *)
(* MaxInt16.                                                               *)
TooLong(raw) ==
  \E i \in 1..Len(raw) :
    \/ raw[i].w = "i4" /\ raw[i].v > MaxArrayLength
    \/ raw[i].w \in {"uva", "uvs"} /\ raw[i].v - 1 > MaxInt16

(* In every version of a reply with addresses, every address is replaced   *)
(* by its listener's and nothing else changes, header and tagged fields    *)
(* included.  The reply is refused exactly when that cannot be done: the   *)
(* version is unknown, one of its addresses has no listener or is none, a  *)
(* list or a string is too long, or the new reply is larger than the       *)
(* encoder allows, the broker's own being just small enough.               *)
ReplyIsFaithful ==
  Finished("addresses") =>
    LET r == job.case
        used    == IF r.key = FindCoordinator /\ r.version < 4 THEN {r.addrs[1]} ELSE Range(r.addrs)
        none(a) == a.host = "" /\ a.port <= 0
        bad(a)  == ~none(a) /\ (r.fails \/ a.host = "" \/ a.port <= 0)
        new     == [i \in 1..Len(r.addrs) |->
                      IF none(r.addrs[i]) THEN r.addrs[i] ELSE Listener(r.addrs[i])]
        body    == KafkaBody(r.key, r.version, r.content, new)
    IN  /\ job.why = "refused" <=>
             \/ r.version > (IF r.key = Metadata THEN 13 ELSE 6)
             \/ \E a \in used : bad(a)
             \/ TooLong(body) \/ PrepLength(body) > MaxRequestSize
        /\ job.why = "" => SameCells(job.body, KafkaReply(r.key, r.version, r.content, new))
        /\ job.why \in {"", "refused", "plugin"}
=============================================================================
