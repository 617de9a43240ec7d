----------------------------- MODULE ProduceAcks -----------------------------
(***************************************************************************)
(* Whether a Produce request is answered.  mustReply reads the request up  *)
(* to its field acks, byte by byte, with a reader made for the layout      *)
(* before version 9; versions from 9 on put a byte for the tagged fields   *)
(* of the header in front and write the transactional id with a compact    *)
(* length.                                                                 *)
(***************************************************************************)
EXTENDS Integers, Sequences

Int16Of(hi, lo) == LET u == 256 * hi + lo IN IF u < 32768 THEN u ELSE u - 65536
Int16Bytes(i)   == LET u == IF i < 0 THEN i + 65536 ELSE i IN <<u \div 256, u % 256>>

Chars(n) == IF n > 0 THEN [i \in 1..n |-> 97] ELSE <<>>   \* n letters

NullableStringBytes(n) == Int16Bytes(n) \o Chars(n)

(* Up to 2^21: the length of a string is below 2^15.                       *)
UvarintBytes(u) ==
  IF u < 128 THEN <<u>>
  ELSE IF u < 16384 THEN <<128 + (u % 128), u \div 128>>
  ELSE <<128 + (u % 128), 128 + ((u \div 128) % 128), u \div 16384>>

(* From version 9 on; the byte in front is the header's, without tags.     *)
FlexibleTxnBytes(n) == <<0>> \o UvarintBytes(n + 1) \o Chars(n)

TxnBytes(version, txnID) ==
  CASE version < 3       -> <<>>
    [] version \in 3..8  -> NullableStringBytes(txnID)
    [] OTHER             -> FlexibleTxnBytes(txnID)

AcksBytes(acks) == Int16Bytes(acks) \o <<0, 0, 117, 48, 0, 0, 0, 0>>

(* What a client sends after api key and version; a length of -1 is null.  *)
ProduceBytes(version, clientID, txnID, acks) ==
  <<0, 0, 0, 9>> \o (NullableStringBytes(clientID) \o (TxnBytes(version, txnID) \o AcksBytes(acks)))

-----------------------------------------------------------------------------
(* What is left after n bytes; <<>> too when a read has failed, since the  *)
(* acks are always to follow.                                              *)
Rest(bytes, n) == SubSeq(bytes, n + 1, Len(bytes))

(* readAndDiscardNullableString.                                           *)
ReadAndDiscardNullableString(bytes) ==
  IF Len(bytes) < 2 THEN <<>>
  ELSE LET length == Int16Of(bytes[1], bytes[2])
       IN  IF length < -1 THEN <<>>
           ELSE Rest(bytes, 2 + IF length > 0 THEN length ELSE 0)

ReadAndDiscardHeaderV1Part(bytes) == ReadAndDiscardNullableString(Rest(bytes, 4))

ReadAndDiscardProduceAcks(bytes) ==
  IF Len(bytes) < 2 THEN "error"
  ELSE IF Int16Of(bytes[1], bytes[2]) = 0 THEN "none" ELSE "reply"

ReadAndDiscardProduceTxnAcks(bytes) ==
  ReadAndDiscardProduceAcks(ReadAndDiscardNullableString(bytes))

(* DefaultRequestHandler.mustReply.                                        *)
\* Fault.  The transactional id is expected from version 4 on.
MustReplyFrom4(version, bytes, acks0Disabled) ==
  LET body == ReadAndDiscardHeaderV1Part(bytes)
  IN  CASE acks0Disabled -> "reply"
        [] ~acks0Disabled /\ version \in 0..3 -> ReadAndDiscardProduceAcks(body)
        [] OTHER -> ReadAndDiscardProduceTxnAcks(body)
MustReply(version, bytes, acks0Disabled) ==
  LET body == ReadAndDiscardHeaderV1Part(bytes)
  IN  CASE acks0Disabled -> "reply"
        [] ~acks0Disabled /\ version \in 0..2 -> ReadAndDiscardProduceAcks(body)
        [] OTHER -> ReadAndDiscardProduceTxnAcks(body)
=============================================================================
