------------------------------ MODULE DataPath -------------------------------
(***************************************************************************)
(* What happens to the content of requests and replies between a client    *)
(* and a broker: whether a Produce request is answered (ProduceAcks), the  *)
(* chain of filter plugins (FilterChain), the layout of the records they   *)
(* rewrite (Records), and the replies whose addresses are rewritten, which *)
(* pass through the chain as well (RewrittenReplies has the codec).        *)
(***************************************************************************)
EXTENDS ProduceAcks, Records, FilterChain

CONSTANTS
  ReplyCases,    \* replies: api key, version, content, addresses, mapping fails
  Rewrite(_),    \* what handleResponse makes of a reply, or that it fails
  AcksCases,     \* Produce requests: version, lengths of ids, acks
  RecordCases    \* records the filters serialise

(* Ids are at most 32767 long, -1 for none.  Only a producer that asks for *)
(* acks has a transactional id that long: the id needs acks=all.           *)
IsLengthOfString(n) == n \in Int /\ -1 <= n /\ n <= 32767
ASSUME AcksAssumption ==
  \A a \in AcksCases :
    /\ a.version \in Nat /\ a.acks \in {-1, 0, 1} /\ a.acks0Disabled \in BOOLEAN
    /\ IsLengthOfString(a.clientID) /\ IsLengthOfString(a.txnID)
    /\ a.version >= 9 /\ a.txnID >= 255 => a.acks # 0

(* Lengths of byte slices, -1 for nil; a whole record is below 2^30 bytes, *)
(* and so is the distance of its timestamp from the batch's, in ms.        *)
IsLengthOfBytes(n) == InRange(n) /\ -1 <= n
IsRecord(r) ==
  /\ InRange(r.timestampDelta) /\ InRange(r.offsetDelta)
  /\ IsLengthOfBytes(r.key) /\ IsLengthOfBytes(r.value) /\ IsLengthOfBytes(Len(r.headers))
  /\ \A i \in 1..Len(r.headers) :
       IsLengthOfBytes(r.headers[i].key) /\ IsLengthOfBytes(r.headers[i].value)
ASSUME RecordAssumption ==
  \A r \in RecordCases : IsRecord(r) /\ RecordBytes(r) \in Nat /\ RecordBytes(r) <= MaxVarint

Fresh == Idle /\ log = <<>> /\ dead = {} /\ kms = Plugins /\ restarts = 0

-----------------------------------------------------------------------------
(* Before records are sent: the replies with addresses.                    *)
Bootstrap ==
  /\ Fresh
  /\ \E r \in ReplyCases :
       LET out == Rewrite(r)
       IN  job' = [pc |-> IF out.ok THEN "reply" ELSE "done", api |-> "addresses",
                   version |-> r.version, at |-> Len(started), cut |-> FALSE,
                   body |-> IF out.ok THEN out.val ELSE <<>>, bare |-> bare, mangled |-> FALSE,
                   why |-> IF out.ok THEN "" ELSE "refused", case |-> r]
  /\ UNCHANGED <<env, log>>

(* mustReply of the request.                                               *)
JudgeAcks ==
  /\ Fresh
  /\ \E a \in AcksCases :
       job' = [pc |-> "done", api |-> "acks", case |-> a, why |-> "",
               mustReply |-> MustReply(a.version, ProduceBytes(a.version, a.clientID, a.txnID, a.acks),
                                       a.acks0Disabled)]
  /\ UNCHANGED <<env, log>>

(* updateBatch: the record is serialised with its length in front.         *)
UpdateBatch ==
  /\ Fresh
  /\ \E r \in RecordCases :
       job' = [pc |-> "done", api |-> "record", case |-> r, why |-> "",
               length |-> CalculateRecordLength(r)]
  /\ UNCHANGED <<env, log>>

-----------------------------------------------------------------------------
Next == ChainNext \/ Bootstrap \/ JudgeAcks \/ UpdateBatch

Spec == Init /\ [][Next]_vars

-----------------------------------------------------------------------------
(* The length calculateRecordLength puts in front of a record is the one   *)
(* its bytes have, and reading it back ends the record where it ends.      *)
RecordLengthsAgree ==
  Finished("record") =>
    LET prefix == AppendUvarint(Zigzag(job.length))
    IN  /\ job.length = RecordBytes(job.case)
        /\ RecordEnd(prefix) = Len(prefix) + RecordBytes(job.case)

(* A reply with addresses is passed on as it was rewritten, through any    *)
(* filters: it is kept back only when it could not be rewritten, or when a *)
(* filter's process has ended.                                             *)
ReplyPassesUnchanged ==
  Finished("addresses") =>
    LET out == Rewrite(job.case)
    IN  CASE job.why = ""        -> out.ok /\ job.body = out.val
          [] job.why = "refused" -> ~out.ok
          [] OTHER               -> job.why = "plugin"

(* An answer is awaited exactly when the producer asks for one, whatever   *)
(* the version, although the reader knows nothing of flexible versions;    *)
(* and always when the proxy is set to assume that producers do            *)
(* (acks0Disabled, which is wrong for a producer with acks=0).             *)
AcksJudgedRight ==
  Finished("acks") =>
    job.mustReply = IF job.case.acks # 0 \/ job.case.acks0Disabled THEN "reply" ELSE "none"
=============================================================================
