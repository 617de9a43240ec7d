----------------------------- MODULE Encryption ------------------------------
(***************************************************************************)
(* The encryption filters, vault-encryption and gcp-kms-encryption: the    *)
(* values of records are encrypted on their way to the broker and          *)
(* decrypted on their way back.  The two differ in the service that wraps  *)
(* the data key.                                                           *)
(*                                                                         *)
(* A value is what the producer wrote, "nil", "empty" or "text", and the   *)
(* layers of encryption around it, the outermost last; a layer is the      *)
(* filter and the name of the key that wraps the data key.  A batch is     *)
(* "data", "gzip" or "packed" (another compression), or "control", which   *)
(* the broker writes.                                                      *)
(***************************************************************************)
EXTENDS Integers, Sequences

Value(base)     == [base |-> base, layers |-> <<>>]
Layer(f, key)   == [filter |-> f, key |-> key]

(* Outcome of a call: the new content, or why it failed.  "crash" is a     *)
(* panic, which ends the plugin's process.                                 *)
Returns(val)  == [ok |-> TRUE, val |-> val]
Fails(reason) == [ok |-> FALSE, why |-> reason]

(* Requests and replies name the topic up to version 12 and give its id    *)
(* from then on: the name is empty, and so the key is the prefix alone.    *)
KeyName(topic, version) == IF version >= 13 THEN "KEK-" ELSE topic

-----------------------------------------------------------------------------
(* vault: encryptValue.  kmsUp: the service wraps the data key.            *)
VaultEncryptValue(key, v, kmsUp) ==
  IF kmsUp THEN Returns([v EXCEPT !.layers = Append(@, Layer("vault", key))]) ELSE Fails("kms")

(* gcp: encryptValue.                                                      *)
GcpEncryptValue(key, v, kmsUp) ==
  IF kmsUp THEN Returns([v EXCEPT !.layers = Append(@, Layer("gcp", key))]) ELSE Fails("kms")

EncryptValue(f, key, v, kmsUp) ==
  IF f = "vault" THEN VaultEncryptValue(key, v, kmsUp) ELSE GcpEncryptValue(key, v, kmsUp)

(* What is inside the outermost layer.  gcm.Open returns nil for an empty  *)
(* plaintext.                                                              *)
Opened(v) ==
  LET inner == [v EXCEPT !.layers = SubSeq(@, 1, Len(@) - 1)]
  IN  IF inner = Value("empty") THEN Value("nil") ELSE inner

(* The key service unwraps only what it has wrapped under the same key.    *)
Unwraps(f, key, v) == v.layers[Len(v.layers)] = Layer(f, key)

(* vault: decryptValue.  The version byte tells ciphertext from a value    *)
(* that was never encrypted.                                               *)
VaultDecryptValue(key, v, kmsUp) ==
  IF v.layers = <<>> THEN Fails("format")
  ELSE IF ~kmsUp THEN Fails("kms")
  ELSE IF Unwraps("vault", key, v) THEN Returns(Opened(v)) ELSE Fails("key")

(* gcp: decryptValue.                                                      *)
GcpDecryptValue(key, v, kmsUp) ==
  IF v.layers = <<>> THEN Fails("format")
  ELSE IF ~kmsUp THEN Fails("kms")
  ELSE IF Unwraps("gcp", key, v) THEN Returns(Opened(v)) ELSE Fails("key")

DecryptValue(f, key, v, kmsUp) ==
  IF f = "vault" THEN VaultDecryptValue(key, v, kmsUp) ELSE GcpDecryptValue(key, v, kmsUp)

-----------------------------------------------------------------------------
(* The results of a loop, or the failure of the first step that fails.     *)
AllOrFirst(results) ==
  IF \E i \in 1..Len(results) : ~results[i].ok
  THEN results[CHOOSE i \in 1..Len(results) :
                 ~results[i].ok /\ \A j \in 1..(i - 1) : results[j].ok]
  ELSE Returns([i \in 1..Len(results) |-> results[i].val])

(* readRecords takes what a batch contains for records although it may be  *)
(* compressed: gzip's first byte is a negative length, on which slicing    *)
(* panics; other data is too short or no record.                           *)
ReadRecords(batch) ==
  CASE batch.kind = "gzip"   -> Fails("crash")
    [] batch.kind = "packed" -> Fails("format")
    [] OTHER -> Returns(batch.recs)

(* One batch: every value but nil.                                         *)
EncryptBatch(f, key, batch, kmsUp) ==
  LET recs == ReadRecords(batch)
      new  == IF ~recs.ok THEN recs
              ELSE AllOrFirst([i \in 1..Len(recs.val) |->
                     IF recs.val[i] = Value("nil") THEN Returns(recs.val[i])
                     ELSE EncryptValue(f, key, recs.val[i], kmsUp)])
  IN  IF new.ok THEN Returns([batch EXCEPT !.recs = new.val]) ELSE new

DecryptBatch(f, key, batch, kmsUp) ==
  LET recs == ReadRecords(batch)
      new  == IF ~recs.ok THEN recs
              ELSE AllOrFirst([i \in 1..Len(recs.val) |->
                     IF recs.val[i] = Value("nil") THEN Returns(recs.val[i])
                     ELSE DecryptValue(f, key, recs.val[i], kmsUp)])
  IN  IF new.ok THEN Returns([batch EXCEPT !.recs = new.val]) ELSE new

(* All batches, or the first failure: nothing is passed on in part.        *)
\* Fault.  Records that cannot be encrypted are sent as they are.
EncryptRecordsIfPossible(f, key, batches, kmsUp) ==
  LET new == AllOrFirst([i \in 1..Len(batches) |-> EncryptBatch(f, key, batches[i], kmsUp)])
  IN  IF new.ok THEN new ELSE Returns(batches)
EncryptRecords(f, key, batches, kmsUp) ==
  AllOrFirst([i \in 1..Len(batches) |-> EncryptBatch(f, key, batches[i], kmsUp)])

(* readRecordBatches fails when the last batch is cut off.                 *)
DecryptRecords(f, key, batches, cut, kmsUp) ==
  IF cut THEN Fails("format")
  ELSE AllOrFirst([i \in 1..Len(batches) |-> DecryptBatch(f, key, batches[i], kmsUp)])

-----------------------------------------------------------------------------
(* OnRequest and OnResponse.  headerless: the body is given without the    *)
(* header, which is what the filters parse.  With a header in front the    *)
(* fields are read from the wrong offsets: parsing fails, or yields a      *)
(* message without records.                                                *)
MisparsedAs == {Fails("header"), Returns(<<>>)}

OnRequest(f, api, key, batches, headerless, kmsUp) ==
  IF api # "produce" THEN {Returns(batches)}
  ELSE IF headerless THEN {EncryptRecords(f, key, batches, kmsUp)} ELSE MisparsedAs

OnResponse(f, api, key, batches, cut, headerless, kmsUp) ==
  IF api # "fetch" THEN {Returns(batches)}
  ELSE IF headerless THEN {DecryptRecords(f, key, batches, cut, kmsUp)} ELSE MisparsedAs
=============================================================================
