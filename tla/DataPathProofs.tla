--------------------------- MODULE DataPathProofs ----------------------------
(***************************************************************************)
(* Theorems about DataPath and their proofs.                               *)
(***************************************************************************)
EXTENDS DataPath, SequenceTheorems, WellFoundedInduction, TLAPS

(* The name of the key for a batch stored by a request that named topics.  *)
KeyOf(named) == IF named THEN "topic" ELSE "KEK-"

(* v is nil, or wrapped by the filters fs one after the other.             *)
Sealed(v, fs, key) ==
  \/ v = Value("nil")
  \/ /\ v.base \in {"empty", "text"}
     /\ v = [base |-> v.base, layers |-> [k \in 1..Len(fs) |-> Layer(fs[k], key)]]

(* The same value with the layers from k + 1 on taken off.                 *)
Peeled(v, k) ==
  CASE v = Value("nil") -> v
    [] v # Value("nil") /\ k = 0 /\ v.base = "empty" /\ v.layers # <<>> -> Value("nil")
    [] OTHER -> [base |-> v.base, layers |-> SubSeq(v.layers, 1, k)]

(* b is a batch: a record of the four fields, and its records are listed.  *)
IsBatch(b) ==
  /\ b = [kind |-> b.kind, recs |-> b.recs, by |-> b.by, named |-> b.named]
  /\ Len(b.recs) \in Nat /\ b.recs = [j \in 1..Len(b.recs) |-> b.recs[j]]

Kinds == {"data", "gzip", "packed"}

(* A stored batch: the chain that stored it has sealed every value.        *)
Stored(b) ==
  /\ IsBatch(b) /\ b.named \in BOOLEAN /\ b.kind \in Kinds \cup {"control"}
  /\ b.kind = "control" => b.by = <<>>
  /\ b.kind # "control" =>
       /\ b.by \in Seq(Filters) /\ (b.by # <<>> => b.kind = "data")
       /\ \A j \in 1..Len(b.recs) : Sealed(b.recs[j], b.by, KeyOf(b.named))

LogOf(l) ==
  /\ Len(l) \in 0..MaxLog /\ l = [i \in 1..Len(l) |-> l[i]]
  /\ \A i \in 1..Len(l) : Stored(l[i])
LogInv == LogOf(log)

(* A job has the fields of a request or a reply.                           *)
Fields == {"pc", "api", "version", "at", "cut", "body", "bare", "mangled", "why"}
IsJob(j) == DOMAIN j = Fields /\ j = [x \in Fields |-> j[x]]

(* A Produce request with the filter number j.at of the chain c to come:   *)
(* those before it have sealed every value.                                *)
Requested(j, c) ==
  /\ j.at \in 1..(Len(c) + 1)
  /\ ~j.mangled =>
       /\ Len(j.body) = 1
       /\ IsBatch(j.body[1]) /\ j.body[1].kind \in Kinds
       /\ j.at > 1 => j.body[1].kind = "data"
       /\ \A i \in 1..Len(j.body[1].recs) :
            Sealed(j.body[1].recs[i], SubSeq(c, 1, j.at - 1), KeyName("topic", j.version))

(* A reply with the filter number j.at to come: the layers up to there are *)
(* left of what this chain has stored in the log l.                        *)
Replied(j, c, l) ==
  /\ j.at \in 0..Len(c)
  /\ j.mangled => Len(j.body) = 0
  /\ ~j.mangled =>
       /\ Len(j.body) = Len(l)
       /\ \A i \in 1..Len(l) :
            /\ IsBatch(j.body[i]) /\ j.body[i].kind = l[i].kind
            /\ l[i].kind = "data" /\ l[i].by = c =>
                 j.body[i].recs = [r \in 1..Len(l[i].recs) |-> Peeled(l[i].recs[r], j.at)]

(* RestoredOrRefused of a job, a chain, a log and the proxy's bare.        *)
Explained(j, c, l, b) ==
  LET same(i) == l[i].by = c
  IN  CASE j.why = "" ->
             /\ Len(j.body) = Len(l)
             /\ \A i \in 1..Len(l) : l[i].kind = "data" /\ same(i) =>
                                      j.body[i].recs = Restored(l[i].recs)
        [] j.why = "key" -> \E i \in 1..Len(l) : ~same(i) \/ l[i].named # (j.version < 13)
        [] j.why \in {"format", "crash"} ->
             j.cut \/ \E i \in 1..Len(l) : l[i].kind # "data" \/ ~same(i)
        [] j.why = "header" -> ~b
        [] OTHER -> j.why \in {"kms", "plugin"}

JobOf(j, c, l, b) ==
  \/ j = NoJob
  \/ /\ IsJob(j) /\ j.version \in Nat
     /\ j.mangled \in BOOLEAN /\ j.bare \in BOOLEAN /\ j.cut \in BOOLEAN
     /\ j.mangled \/ ~j.bare => ~b
     /\ \/ j.pc = "request" /\ j.api = "produce" /\ Len(l) < MaxLog /\ Requested(j, c)
        \/ j.pc = "reply" /\ j.api = "fetch" /\ Replied(j, c, l)
        \/ j.pc = "done" /\ j.api = "produce"
        \/ j.pc = "done" /\ j.api = "fetch" /\ Explained(j, c, l, b)
JobInv == JobOf(job, started, log, bare)

EnvInv ==
  /\ started \in NewFilterChain /\ dead \subseteq Range(started) /\ kms \subseteq Plugins
  /\ bare \in Bare /\ restarts \in 0..MaxRestarts

ChainInv == EnvInv /\ LogInv /\ JobInv

-----------------------------------------------------------------------------
(* A list with its length.                                                 *)
LEMMA ListLen ==
  ASSUME NEW n \in Nat, NEW f, DOMAIN f = 1..n, f = [i \in 1..n |-> f[i]]
  PROVE  Len(f) = n
<1> DEFINE S == {f[i] : i \in 1..n}
<1>1. f \in [1..n -> S]
  OBVIOUS
<1>2. f \in Seq(S)
  BY <1>1
<1> QED
  BY <1>1, <1>2, LenProperties

(* Of the failures in a list there is a first.                             *)
LEMMA FirstOfSet ==
  ASSUME NEW T, T \subseteq Nat, T # {}
  PROVE  \E x \in T : \A y \in T : x <= y
<1>1. PICK x \in T : \A y \in T : ~(<<y, x>> \in OpToRel(<, Nat))
  BY NatLessThanWellFounded, WFMin
<1>2. \A y \in T : y < x => <<y, x>> \in OpToRel(<, Nat)
  BY DEF OpToRel
<1>3. \A y \in T : y \in Nat /\ x \in Nat /\ ~(y < x)
  BY <1>1, <1>2
<1>4. \A y \in T : x <= y
  BY <1>3
<1> QED
  BY <1>4

LEMMA FirstFailure ==
  ASSUME NEW results, NEW n \in Nat, Len(results) = n
  PROVE  \/ /\ \A i \in 1..n : results[i].ok
            /\ AllOrFirst(results) = Returns([i \in 1..n |-> results[i].val])
         \/ \E i \in 1..n : ~results[i].ok /\ AllOrFirst(results) = results[i]
<1>1. CASE \A i \in 1..n : results[i].ok
  BY <1>1 DEF AllOrFirst
<1>2. CASE \E i \in 1..n : ~results[i].ok
  <2> DEFINE T == {i \in 1..n : ~results[i].ok}
             First(i) == i \in 1..n /\ ~results[i].ok /\ \A j \in 1..(i - 1) : results[j].ok
  <2>1. PICK x \in T : \A y \in T : x <= y
    <3>1. T \subseteq Nat /\ T # {}
      BY <1>2
    <3> HIDE DEF T
    <3> QED
      BY <3>1, FirstOfSet
  <2>2. First(x)
    <3>1. \A j \in 1..(x - 1) : j \in 1..n /\ ~(x <= j)
      OBVIOUS
    <3> QED
      BY <2>1, <3>1
  <2> DEFINE c == CHOOSE i \in 1..n : ~results[i].ok /\ \A j \in 1..(i - 1) : results[j].ok
  <2>3. c \in 1..n /\ ~results[c].ok
    BY <2>2
  <2>4. AllOrFirst(results) = results[c]
    BY <1>2 DEF AllOrFirst
  <2> QED
    BY <2>3, <2>4
<1> QED
  BY <1>1, <1>2

LEMMA Outcomes ==
  /\ \A val : Returns(val).ok /\ Returns(val).val = val
  /\ \A reason : ~Fails(reason).ok /\ Fails(reason).why = reason
BY DEF Returns, Fails

-----------------------------------------------------------------------------
(* Single values.                                                          *)
LEMMA ValueFacts ==
  /\ \A b : Value(b).base = b /\ Value(b).layers = <<>>
  /\ \A f, k : Layer(f, k).filter = f /\ Layer(f, k).key = k
BY DEF Value, Layer

LEMMA EncryptedValue ==
  ASSUME NEW f \in Filters, NEW fs \in Seq(Filters), NEW key, NEW v, NEW kmsUp,
         Sealed(v, fs, key), v # Value("nil"), EncryptValue(f, key, v, kmsUp).ok
  PROVE  Sealed(EncryptValue(f, key, v, kmsUp).val, Append(fs, f), key)
<1> DEFINE ls == [k \in 1..Len(fs) |-> Layer(fs[k], key)]
           w == [v EXCEPT !.layers = Append(@, Layer(f, key))]
<1>1. EncryptValue(f, key, v, kmsUp) = IF kmsUp THEN Returns(w) ELSE Fails("kms")
  BY DEF EncryptValue, VaultEncryptValue, GcpEncryptValue, Filters
<1>2. EncryptValue(f, key, v, kmsUp) = Returns(w)
  BY <1>1, Outcomes
<1>3. v.base \in {"empty", "text"} /\ v = [base |-> v.base, layers |-> ls]
  BY DEF Sealed
<1>4. v.layers = ls
  BY <1>3
<1>5. Append(ls, Layer(f, key)) = [k \in 1..Len(Append(fs, f)) |-> Layer(Append(fs, f)[k], key)]
  <2> DEFINE L == [filter : Filters, key : {key}]
             rs == [k \in 1..Len(Append(fs, f)) |-> Layer(Append(fs, f)[k], key)]
  <2>1. Len(fs) \in Nat /\ Len(Append(fs, f)) = Len(fs) + 1
    OBVIOUS
  <2>2. \A k \in 1..Len(fs) : Append(fs, f)[k] = fs[k]
    OBVIOUS
  <2>3. Append(fs, f)[Len(fs) + 1] = f
    OBVIOUS
  <2>4. ls \in Seq(L) /\ Len(ls) = Len(fs)
    <3>1. \A k \in 1..Len(fs) : Layer(fs[k], key) \in L
      BY DEF Layer
    <3> QED
      BY <2>1, <3>1
  <2>5. Append(ls, Layer(f, key)) = [k \in 1..(Len(fs) + 1) |->
                                       IF k = Len(fs) + 1 THEN Layer(f, key) ELSE ls[k]]
    BY <2>1, <2>4
  <2> QED
    BY <2>1, <2>2, <2>3, <2>5
<1>6. w = [base |-> v.base, layers |-> Append(ls, Layer(f, key))]
  <2>1. \A b, x, y : [[base |-> b, layers |-> x] EXCEPT !.layers = y] = [base |-> b, layers |-> y]
    OBVIOUS
  <2> HIDE DEF ls
  <2> QED
    BY <1>3, <1>4, <2>1
<1>7. w.base = v.base
  BY <1>6
<1>8. EncryptValue(f, key, v, kmsUp).val = w
  BY <1>2, Outcomes
<1> HIDE DEF w
<1>9. /\ w.base \in {"empty", "text"}
      /\ w = [base |-> w.base,
              layers |-> [k \in 1..Len(Append(fs, f)) |-> Layer(Append(fs, f)[k], key)]]
  BY <1>3, <1>5, <1>6, <1>7
<1>10. Sealed(w, Append(fs, f), key)
  BY <1>9 DEF Sealed
<1> QED
  BY <1>8, <1>10

(* A sealed value and the same with the layers above k off.                *)
LEMMA PeeledValue ==
  ASSUME NEW fs \in Seq(Filters), NEW key, NEW v, Sealed(v, fs, key), v # Value("nil"),
         NEW k \in 1..Len(fs)
  PROVE  /\ Peeled(v, k) # Value("nil") /\ v.base \in {"empty", "text"}
         /\ Peeled(v, k) = [base |-> v.base, layers |-> SubSeq(v.layers, 1, k)]
         /\ SubSeq(v.layers, 1, k) \in Seq([filter : Filters, key : {key}])
         /\ Len(SubSeq(v.layers, 1, k)) = k
         /\ SubSeq(v.layers, 1, k)[k] = Layer(fs[k], key)
         /\ SubSeq(SubSeq(v.layers, 1, k), 1, k - 1) = SubSeq(v.layers, 1, k - 1)
         /\ v.layers # <<>>
<1> DEFINE ls == [i \in 1..Len(fs) |-> Layer(fs[i], key)]
           L == [filter : Filters, key : {key}]
<1>1. v.base \in {"empty", "text"} /\ v = [base |-> v.base, layers |-> ls]
  BY DEF Sealed
<1>2. v.layers = ls
  BY <1>1
<1>3. ls \in Seq(L) /\ Len(ls) = Len(fs) /\ Len(fs) \in Nat
  <2>1. \A i \in 1..Len(fs) : Layer(fs[i], key) \in L
    BY DEF Layer
  <2> QED
    BY <2>1
<1>4. ls[k] = Layer(fs[k], key)
  OBVIOUS
<1> HIDE DEF ls, L
<1>5. SubSeq(ls, 1, k) \in Seq(L) /\ Len(SubSeq(ls, 1, k)) = k /\ SubSeq(ls, 1, k)[k] = ls[k]
  BY <1>3
<1>6. SubSeq(SubSeq(ls, 1, k), 1, k - 1) = SubSeq(ls, 1, k - 1)
  <2>1. SubSeq(ls, 1, k) = [i \in 1..k |-> ls[i]]
    BY <1>3
  <2>2. SubSeq(ls, 1, k - 1) = [i \in 1..(k - 1) |-> ls[i]]
    BY <1>3
  <2>3. SubSeq(SubSeq(ls, 1, k), 1, k - 1) = [i \in 1..(k - 1) |-> SubSeq(ls, 1, k)[i]]
    BY <1>5
  <2> QED
    BY <2>1, <2>2, <2>3
<1>7. ls # <<>>
  BY <1>3
<1>8. Peeled(v, k) = [base |-> v.base, layers |-> SubSeq(v.layers, 1, k)]
  BY DEF Peeled
<1>9. Peeled(v, k) # Value("nil")
  BY <1>1, <1>8, ValueFacts
<1> QED
  BY <1>1, <1>2, <1>4, <1>5, <1>6, <1>7, <1>8, <1>9 DEF L

(* The outcome r of decrypting v, sealed up to layer k with key, when the  *)
(* filter's key is other.                                                  *)
TakesLayer(r, v, k, key, other) ==
  \/ r.ok /\ r.val = Peeled(v, k - 1)
  \/ ~r.ok /\ r.why = "kms"
  \/ ~r.ok /\ r.why = "key" /\ other # key

LEMMA DecryptedValue ==
  ASSUME NEW fs \in Seq(Filters), NEW key, NEW v, Sealed(v, fs, key), v # Value("nil"),
         NEW k \in 1..Len(fs), NEW other, NEW kmsUp,
         NEW r, r = DecryptValue(fs[k], other, Peeled(v, k), kmsUp)
  PROVE  TakesLayer(r, v, k, key, other)
<1> DEFINE w == Peeled(v, k)
           ls == SubSeq(v.layers, 1, k)
<1>1. /\ v.base \in {"empty", "text"} /\ w = [base |-> v.base, layers |-> ls]
      /\ ls \in Seq([filter : Filters, key : {key}]) /\ Len(ls) = k /\ ls[k] = Layer(fs[k], key)
      /\ SubSeq(ls, 1, k - 1) = SubSeq(v.layers, 1, k - 1) /\ v.layers # <<>>
  BY PeeledValue
<1>2. fs[k] \in Filters /\ k \in Nat /\ k >= 1
  OBVIOUS
<1> HIDE DEF ls, w
<1>3. w.layers = ls /\ w.base = v.base /\ ls # <<>>
  BY <1>1, <1>2
<1>4. r = IF ~kmsUp THEN Fails("kms")
          ELSE IF Unwraps(fs[k], other, w) THEN Returns(Opened(w)) ELSE Fails("key")
  BY <1>2, <1>3 DEF DecryptValue, VaultDecryptValue, GcpDecryptValue, Filters, w
<1>5. Unwraps(fs[k], other, w) <=> other = key
  <2>1. Unwraps(fs[k], other, w) <=> Layer(fs[k], key) = Layer(fs[k], other)
    BY <1>1, <1>3 DEF Unwraps
  <2>2. Layer(fs[k], key) = Layer(fs[k], other) => key = other
    BY ValueFacts
  <2> QED
    BY <2>1, <2>2
<1>6. Opened(w) = Peeled(v, k - 1)
  <2> DEFINE inner == [w EXCEPT !.layers = SubSeq(@, 1, Len(@) - 1)]
             rest == SubSeq(v.layers, 1, k - 1)
  <2>1. inner = [base |-> v.base, layers |-> rest]
    <3>1. \A b, x, y : [[base |-> b, layers |-> x] EXCEPT !.layers = y] = [base |-> b, layers |-> y]
      OBVIOUS
    <3>2. SubSeq(w.layers, 1, Len(w.layers) - 1) = rest
      BY <1>1, <1>3
    <3> HIDE DEF rest
    <3>3. inner = [w EXCEPT !.layers = rest]
      BY <3>2
    <3> HIDE DEF inner
    <3>4. [w EXCEPT !.layers = rest] = [base |-> v.base, layers |-> rest]
      BY <1>1, <3>1
    <3> QED
      BY <3>3, <3>4
  <2>2. Opened(w) = IF inner = Value("empty") THEN Value("nil") ELSE inner
    BY DEF Opened
  <2>3. rest = <<>> <=> k = 1
    <3> DEFINE L == [filter : Filters, key : {key}]
    <3>1. ls \in Seq(L) /\ Len(ls) = k /\ rest = SubSeq(ls, 1, k - 1)
      BY <1>1
    <3> HIDE DEF L, rest
    <3>2. Len(rest) = k - 1 /\ rest \in Seq(L)
      BY <1>2, <3>1
    <3> QED
      BY <1>2, <3>2
  <2> HIDE DEF rest
  <2>4. inner = Value("empty") <=> k = 1 /\ v.base = "empty"
    BY <2>1, <2>3, ValueFacts DEF Value
  <2>5. Peeled(v, k - 1) = IF k = 1 /\ v.base = "empty" THEN Value("nil")
                           ELSE [base |-> v.base, layers |-> rest]
    <3>1. k - 1 = 0 <=> k = 1
      BY <1>2
    <3> QED
      BY <1>1, <3>1 DEF Peeled, rest
  <2> QED
    BY <2>1, <2>2, <2>4, <2>5
<1> QED
  BY <1>4, <1>5, <1>6, Outcomes DEF TakesLayer

-----------------------------------------------------------------------------
(* Whole batches.                                                          *)
LEMMA ReadFacts ==
  ASSUME NEW b
  PROVE  /\ b.kind = "gzip" => ReadRecords(b) = Fails("crash")
         /\ b.kind = "packed" => ReadRecords(b) = Fails("format")
         /\ b.kind \notin {"gzip", "packed"} => ReadRecords(b) = Returns(b.recs)
BY DEF ReadRecords

(* A batch with other records is a batch.                                  *)
LEMMA OtherRecords ==
  ASSUME NEW b, IsBatch(b), NEW n \in Nat, NEW recs, recs = [j \in 1..n |-> recs[j]]
  PROVE  LET c == [b EXCEPT !.recs = recs]
         IN  /\ IsBatch(c) /\ c.kind = b.kind /\ c.recs = recs /\ Len(c.recs) = n
             /\ c.by = b.by /\ c.named = b.named
<1> DEFINE c == [b EXCEPT !.recs = recs]
           D == {"kind", "recs", "by", "named"}
<1>1. b = [kind |-> b.kind, recs |-> b.recs, by |-> b.by, named |-> b.named]
  BY DEF IsBatch
<1>2. DOMAIN b = D /\ b = [x \in D |-> b[x]]
  BY <1>1
<1>3. DOMAIN c = D /\ c = [x \in D |-> c[x]]
  BY <1>2
<1>4. c.kind = b.kind /\ c.recs = recs /\ c.by = b.by /\ c.named = b.named
  BY <1>2
<1> HIDE DEF c
<1>5. c = [kind |-> c.kind, recs |-> c.recs, by |-> c.by, named |-> c.named]
  BY <1>3
<1>6. DOMAIN recs = 1..n
  OBVIOUS
<1>7. Len(recs) = n
  BY <1>6, ListLen
<1>8. IsBatch(c)
  BY <1>4, <1>7, <1>5 DEF IsBatch
<1> QED
  BY <1>4, <1>7, <1>8 DEF c

LEMMA EncryptedBatch ==
  ASSUME NEW f \in Filters, NEW fs \in Seq(Filters), NEW key, NEW kmsUp, NEW b, IsBatch(b),
         b.kind \in Kinds, \A j \in 1..Len(b.recs) : Sealed(b.recs[j], fs, key),
         EncryptBatch(f, key, b, kmsUp).ok
  PROVE  LET c == EncryptBatch(f, key, b, kmsUp).val
         IN  /\ IsBatch(c) /\ c.kind = "data"
             /\ \A j \in 1..Len(c.recs) : Sealed(c.recs[j], Append(fs, f), key)
<1> DEFINE n == Len(b.recs)
           results == [i \in 1..n |->
                         IF b.recs[i] = Value("nil") THEN Returns(b.recs[i])
                         ELSE EncryptValue(f, key, b.recs[i], kmsUp)]
           new == AllOrFirst(results)
           r == EncryptBatch(f, key, b, kmsUp)
<1>1. n \in Nat
  BY DEF IsBatch
<1>2. b.kind = "data"
  <2>1. b.kind # "gzip" /\ b.kind # "packed"
    BY ReadFacts, Outcomes DEF EncryptBatch
  <2> QED
    BY <2>1 DEF Kinds
<1>3. ReadRecords(b) = Returns(b.recs)
  BY <1>2, ReadFacts
<1>4. ReadRecords(b).ok /\ ReadRecords(b).val = b.recs
  BY <1>3, Outcomes
<1>5. r = IF new.ok THEN Returns([b EXCEPT !.recs = new.val]) ELSE new
  BY <1>4 DEF EncryptBatch
<1>6. Len(results) = n
  BY <1>1, ListLen
<1>7. \A i \in 1..n : results[i] = IF b.recs[i] = Value("nil") THEN Returns(b.recs[i])
                                  ELSE EncryptValue(f, key, b.recs[i], kmsUp)
  OBVIOUS
<1> HIDE DEF results, n
<1>8. \/ (\A i \in 1..n : results[i].ok) /\ new = Returns([i \in 1..n |-> results[i].val])
      \/ ~new.ok
  BY <1>1, <1>6, FirstFailure
<1> HIDE DEF new
<1>9. (\A i \in 1..n : results[i].ok) /\ new = Returns([i \in 1..n |-> results[i].val])
  BY <1>5, <1>8
<1> DEFINE recs == [i \in 1..n |-> results[i].val]
           c == [b EXCEPT !.recs = recs]
<1>10. r.val = c
  <2>1. new.ok /\ new.val = recs
    BY <1>9, Outcomes
  <2> HIDE DEF recs, r
  <2>2. r = Returns(c)
    BY <1>5, <2>1
  <2> QED
    BY <2>2, Outcomes
<1>11. recs = [j \in 1..n |-> recs[j]]
  OBVIOUS
<1>12. \A j \in 1..n : Sealed(recs[j], Append(fs, f), key)
  <2> SUFFICES ASSUME NEW j \in 1..n PROVE Sealed(results[j].val, Append(fs, f), key)
    OBVIOUS
  <2>1. CASE b.recs[j] = Value("nil")
    BY <1>7, <2>1, Outcomes DEF Sealed
  <2>2. CASE b.recs[j] # Value("nil")
    <3>1. results[j] = EncryptValue(f, key, b.recs[j], kmsUp) /\ results[j].ok
      BY <1>7, <1>9, <2>2
    <3>2. Sealed(b.recs[j], fs, key)
      BY DEF n
    <3> QED
      BY <2>2, <3>1, <3>2, EncryptedValue
  <2> QED
    BY <2>1, <2>2
<1> HIDE DEF recs
<1>13. IsBatch(c) /\ c.kind = b.kind /\ c.recs = recs /\ Len(c.recs) = n
  BY <1>1, <1>11, OtherRecords
<1> QED
  BY <1>2, <1>10, <1>12, <1>13

(* Why decryption fails; a batch it succeeds for keeps its kind.           *)
LEMMA DecryptedAny ==
  ASSUME NEW f, NEW key, NEW kmsUp, NEW b, IsBatch(b)
  PROVE  LET r == DecryptBatch(f, key, b, kmsUp)
         IN  \/ r.ok /\ IsBatch(r.val) /\ r.val.kind = b.kind
             \/ ~r.ok /\ r.why \in {"crash", "format", "kms", "key"}
<1> DEFINE n == Len(b.recs)
           results == [i \in 1..n |->
                         IF b.recs[i] = Value("nil") THEN Returns(b.recs[i])
                         ELSE DecryptValue(f, key, b.recs[i], kmsUp)]
           new == AllOrFirst(results)
           r == DecryptBatch(f, key, b, kmsUp)
<1>1. n \in Nat
  BY DEF IsBatch
<1>2. CASE b.kind \in {"gzip", "packed"}
  <2>1. ReadRecords(b) \in {Fails("crash"), Fails("format")}
    BY <1>2, ReadFacts
  <2>2. r = ReadRecords(b)
    BY <2>1, Outcomes DEF DecryptBatch
  <2> QED
    BY <2>1, <2>2, Outcomes
<1>3. CASE b.kind \notin {"gzip", "packed"}
  <2>1. ReadRecords(b).ok /\ ReadRecords(b).val = b.recs
    BY <1>3, ReadFacts, Outcomes
  <2>2. r = IF new.ok THEN Returns([b EXCEPT !.recs = new.val]) ELSE new
    BY <2>1 DEF DecryptBatch
  <2>3. Len(results) = n
    BY <1>1, ListLen
  <2>4. \A i \in 1..n : results[i] = IF b.recs[i] = Value("nil") THEN Returns(b.recs[i])
                                    ELSE DecryptValue(f, key, b.recs[i], kmsUp)
    OBVIOUS
  <2> HIDE DEF results, n
  <2>5. \/ (\A i \in 1..n : results[i].ok) /\ new = Returns([i \in 1..n |-> results[i].val])
        \/ \E i \in 1..n : ~results[i].ok /\ new = results[i]
    BY <1>1, <2>3, FirstFailure
  <2>6. \A i \in 1..n : results[i].ok \/ (~results[i].ok /\ results[i].why \in {"format", "kms", "key"})
    <3>1. \A v : LET d == DecryptValue(f, key, v, kmsUp)
                 IN  \/ \E x : d = Returns(x)
                     \/ \E x \in {"format", "kms", "key"} : d = Fails(x)
      BY DEF DecryptValue, VaultDecryptValue, GcpDecryptValue
    <3> QED
      BY <2>4, <3>1, Outcomes
  <2> HIDE DEF new
  <2>7. CASE ~new.ok
    BY <2>2, <2>5, <2>6, <2>7, Outcomes
  <2>8. CASE new.ok
    <3> DEFINE recs == [i \in 1..n |-> results[i].val]
    <3>1. r = Returns([b EXCEPT !.recs = recs])
      BY <2>2, <2>5, <2>8, Outcomes
    <3>2. recs = [j \in 1..n |-> recs[j]]
      OBVIOUS
    <3> HIDE DEF recs
    <3> DEFINE c == [b EXCEPT !.recs = recs]
    <3>3. IsBatch(c) /\ c.kind = b.kind
      BY <1>1, <3>2, OtherRecords
    <3> HIDE DEF c
    <3>4. r.ok /\ r.val = c
      BY <3>1, Outcomes DEF c
    <3> QED
      BY <3>3, <3>4
  <2> QED
    BY <2>7, <2>8
<1> QED
  BY <1>2, <1>3

(* The outcome r of decrypting a batch of the values orig.                 *)
TakesLayers(r, orig, n, k, key, other) ==
  \/ r.ok /\ r.val.recs = [j \in 1..n |-> Peeled(orig[j], k - 1)]
  \/ ~r.ok /\ r.why = "kms"
  \/ ~r.ok /\ r.why = "key" /\ other # key

(* A batch of this chain: the next layer comes off, or the key service is  *)
(* gone, or the key has another name.                                      *)
LEMMA DecryptedOwn ==
  ASSUME NEW fs \in Seq(Filters), NEW key, NEW k \in 1..Len(fs), NEW other, NEW kmsUp,
         NEW n \in Nat, NEW orig, \A j \in 1..n : Sealed(orig[j], fs, key),
         NEW b, IsBatch(b), b.kind = "data", b.recs = [j \in 1..n |-> Peeled(orig[j], k)],
         NEW r, r = DecryptBatch(fs[k], other, b, kmsUp)
  PROVE  TakesLayers(r, orig, n, k, key, other)
<1> DEFINE results == [i \in 1..n |->
                         IF b.recs[i] = Value("nil") THEN Returns(b.recs[i])
                         ELSE DecryptValue(fs[k], other, b.recs[i], kmsUp)]
           new == AllOrFirst(results)
<1>1. Len(b.recs) = n
  <2>1. DOMAIN b.recs = 1..n /\ b.recs = [j \in 1..n |-> b.recs[j]]
    OBVIOUS
  <2> QED
    BY <2>1, ListLen
<1>2. ReadRecords(b).ok /\ ReadRecords(b).val = b.recs
  BY ReadFacts, Outcomes
<1>3. r = IF new.ok THEN Returns([b EXCEPT !.recs = new.val]) ELSE new
  BY <1>1, <1>2 DEF DecryptBatch
<1>4. Len(results) = n
  BY ListLen
<1>5. \A i \in 1..n : b.recs[i] = Peeled(orig[i], k)
  OBVIOUS
<1>6. \A i \in 1..n : results[i] = IF Peeled(orig[i], k) = Value("nil") THEN Returns(Peeled(orig[i], k))
                                  ELSE DecryptValue(fs[k], other, Peeled(orig[i], k), kmsUp)
  BY <1>5
<1> HIDE DEF results
<1>7. ASSUME NEW i \in 1..n
      PROVE  \/ results[i].ok /\ results[i].val = Peeled(orig[i], k - 1)
             \/ ~results[i].ok /\ results[i].why = "kms"
             \/ ~results[i].ok /\ results[i].why = "key" /\ other # key
  <2>1. CASE orig[i] = Value("nil")
    <3>1. Peeled(orig[i], k) = Value("nil") /\ Peeled(orig[i], k - 1) = Value("nil")
      BY <2>1 DEF Peeled
    <3> QED
      BY <1>6, <3>1, Outcomes
  <2>2. CASE orig[i] # Value("nil")
    <3>1. results[i] = DecryptValue(fs[k], other, Peeled(orig[i], k), kmsUp)
      BY <1>6, <2>2, PeeledValue
    <3>2. Sealed(orig[i], fs, key)
      OBVIOUS
    <3>3. TakesLayer(results[i], orig[i], k, key, other)
      BY <2>2, <3>1, <3>2, DecryptedValue
    <3> QED
      BY <3>3 DEF TakesLayer
  <2> QED
    BY <2>1, <2>2
<1>8. \/ (\A i \in 1..n : results[i].ok) /\ new = Returns([i \in 1..n |-> results[i].val])
      \/ \E i \in 1..n : ~results[i].ok /\ new = results[i]
  BY <1>4, FirstFailure
<1> HIDE DEF new
<1>9. CASE \E i \in 1..n : ~results[i].ok /\ new = results[i]
  BY <1>3, <1>7, <1>9 DEF TakesLayers
<1>10. CASE (\A i \in 1..n : results[i].ok) /\ new = Returns([i \in 1..n |-> results[i].val])
  <2> DEFINE recs == [i \in 1..n |-> results[i].val]
  <2>1. r = Returns([b EXCEPT !.recs = recs])
    BY <1>3, <1>10, Outcomes
  <2>2. recs = [j \in 1..n |-> Peeled(orig[j], k - 1)]
    BY <1>7, <1>10
  <2>3. recs = [j \in 1..n |-> recs[j]]
    OBVIOUS
  <2> HIDE DEF recs
  <2> DEFINE c == [b EXCEPT !.recs = recs]
  <2>4. c.recs = recs
    BY <2>3, OtherRecords
  <2> HIDE DEF c
  <2>5. r.ok /\ r.val = c
    BY <2>1, Outcomes DEF c
  <2> QED
    BY <2>2, <2>4, <2>5 DEF TakesLayers
<1> QED
  BY <1>8, <1>9, <1>10

-----------------------------------------------------------------------------
(* Whole messages.                                                         *)
LEMMA EncryptedBody ==
  ASSUME NEW f \in Filters, NEW fs \in Seq(Filters), NEW key, NEW kmsUp, NEW body, Len(body) = 1,
         IsBatch(body[1]), body[1].kind \in Kinds,
         \A j \in 1..Len(body[1].recs) : Sealed(body[1].recs[j], fs, key),
         NEW r, r = EncryptRecords(f, key, body, kmsUp), r.ok
  PROVE  /\ Len(r.val) = 1 /\ IsBatch(r.val[1]) /\ r.val[1].kind = "data"
         /\ \A j \in 1..Len(r.val[1].recs) : Sealed(r.val[1].recs[j], Append(fs, f), key)
<1> DEFINE results == [i \in 1..1 |-> EncryptBatch(f, key, body[i], kmsUp)]
           new == [i \in 1..1 |-> results[i].val]
<1>1. r = AllOrFirst(results)
  BY DEF EncryptRecords
<1>2. Len(results) = 1
  BY ListLen
<1>3. results[1] = EncryptBatch(f, key, body[1], kmsUp)
  OBVIOUS
<1> HIDE DEF results
<1>4. \/ (\A i \in 1..1 : results[i].ok) /\ r = Returns(new)
      \/ ~r.ok
  BY <1>1, <1>2, FirstFailure
<1>5. results[1].ok /\ r = Returns(new)
  BY <1>4
<1>6. new[1] = results[1].val
  OBVIOUS
<1>7. Len(new) = 1
  BY ListLen
<1> HIDE DEF new
<1>8. r.val = new
  BY <1>5, Outcomes
<1> DEFINE b == body[1]
<1>9. IsBatch(b) /\ b.kind \in Kinds /\ \A j \in 1..Len(b.recs) : Sealed(b.recs[j], fs, key)
  OBVIOUS
<1>10. results[1] = EncryptBatch(f, key, b, kmsUp)
  BY <1>3
<1> HIDE DEF b
<1>11. EncryptBatch(f, key, b, kmsUp).ok
  BY <1>5, <1>10
<1> DEFINE c == EncryptBatch(f, key, b, kmsUp).val
<1>12. IsBatch(c) /\ c.kind = "data" /\ \A j \in 1..Len(c.recs) : Sealed(c.recs[j], Append(fs, f), key)
  BY <1>9, <1>11, EncryptedBatch
<1>13. r.val[1] = c
  BY <1>6, <1>8, <1>10
<1> HIDE DEF c
<1> QED
  BY <1>7, <1>8, <1>12, <1>13

(* The keys of two versions differ when only one of them names topics.     *)
LEMMA OtherKey ==
  ASSUME NEW version \in Nat, NEW named \in BOOLEAN, KeyName("topic", version) # KeyOf(named)
  PROVE  named # (version < 13)
<1>1. version < 13 <=> ~(version >= 13)
  OBVIOUS
<1> QED
  BY <1>1 DEF KeyName, KeyOf

(* Batch number i of a reply that has been peeled down to layer k.         *)
PeeledBatch(b, s, c, k) ==
  /\ IsBatch(b) /\ b.kind = s.kind
  /\ s.kind = "data" /\ s.by = c =>
       b.recs = [r \in 1..Len(s.recs) |-> Peeled(s.recs[r], k)]

LEMMA DecryptedStored ==
  ASSUME NEW c \in Seq(Filters), NEW k \in 1..Len(c), NEW s, Stored(s), NEW version \in Nat,
         NEW kmsUp, NEW b, PeeledBatch(b, s, c, k),
         NEW r, r = DecryptBatch(c[k], KeyName("topic", version), b, kmsUp)
  PROVE  \/ r.ok /\ PeeledBatch(r.val, s, c, k - 1)
         \/ ~r.ok /\ r.why = "kms"
         \/ ~r.ok /\ r.why = "key" /\ (s.by # c \/ s.named # (version < 13))
         \/ ~r.ok /\ r.why \in {"format", "crash"} /\ (s.kind # "data" \/ s.by # c)
<1> DEFINE other == KeyName("topic", version)
           key == KeyOf(s.named)
<1>1. IsBatch(b) /\ b.kind = s.kind
  BY DEF PeeledBatch
<1>2. \/ r.ok /\ IsBatch(r.val) /\ r.val.kind = b.kind
      \/ ~r.ok /\ r.why \in {"crash", "format", "kms", "key"}
  BY <1>1, DecryptedAny
<1>3. CASE s.by # c
  BY <1>1, <1>2, <1>3 DEF PeeledBatch
<1>4. CASE s.by = c
  <2>1. c # <<>>
    OBVIOUS
  <2>2. /\ s.kind = "data" /\ s.named \in BOOLEAN /\ Len(s.recs) \in Nat
        /\ \A j \in 1..Len(s.recs) : Sealed(s.recs[j], c, key)
    BY <1>4, <2>1 DEF Stored, IsBatch
  <2>3. b.kind = "data" /\ b.recs = [j \in 1..Len(s.recs) |-> Peeled(s.recs[j], k)]
    BY <1>1, <1>4, <2>2 DEF PeeledBatch
  <2> DEFINE orig == s.recs
             n == Len(orig)
  <2>4. /\ n \in Nat /\ (\A j \in 1..n : Sealed(orig[j], c, key))
        /\ b.recs = [j \in 1..n |-> Peeled(orig[j], k)]
    BY <2>2, <2>3
  <2> HIDE DEF n, orig, key, other
  <2>5. r = DecryptBatch(c[k], other, b, kmsUp)
    BY DEF other
  <2>6. TakesLayers(r, orig, n, k, key, other)
    BY <1>1, <2>3, <2>4, <2>5, DecryptedOwn
  <2>7. other # key => s.named # (version < 13)
    BY <2>2, OtherKey DEF other, key
  <2> QED
    BY <1>1, <1>2, <2>6, <2>7 DEF TakesLayers, PeeledBatch, n, orig
<1> QED
  BY <1>3, <1>4

(* The outcome r of decrypting a reply with the log's first n batches.     *)
TakesLayerOff(r, l, n, c, k, version) ==
  \/ r.ok /\ Len(r.val) = n /\ \A i \in 1..n : PeeledBatch(r.val[i], l[i], c, k - 1)
  \/ ~r.ok /\ r.why = "kms"
  \/ ~r.ok /\ r.why = "key" /\ \E i \in 1..n : l[i].by # c \/ l[i].named # (version < 13)
  \/ ~r.ok /\ r.why \in {"format", "crash"} /\ \E i \in 1..n : l[i].kind # "data" \/ l[i].by # c

LEMMA DecryptedBody ==
  ASSUME NEW c \in Seq(Filters), NEW k \in 1..Len(c), NEW n \in Nat, NEW l,
         \A i \in 1..n : Stored(l[i]), NEW version \in Nat, NEW kmsUp, NEW body, Len(body) = n,
         \A i \in 1..n : PeeledBatch(body[i], l[i], c, k), NEW cut, ~cut,
         NEW r, r = DecryptRecords(c[k], KeyName("topic", version), body, cut, kmsUp)
  PROVE  TakesLayerOff(r, l, n, c, k, version)
<1> DEFINE results == [i \in 1..n |-> DecryptBatch(c[k], KeyName("topic", version), body[i], kmsUp)]
           new == [i \in 1..n |-> results[i].val]
<1>1. r = AllOrFirst(results)
  BY DEF DecryptRecords
<1>2. Len(results) = n
  BY ListLen
<1>3. \A i \in 1..n : results[i] = DecryptBatch(c[k], KeyName("topic", version), body[i], kmsUp)
  OBVIOUS
<1> HIDE DEF results
<1>4. \/ (\A i \in 1..n : results[i].ok) /\ r = Returns(new)
      \/ \E i \in 1..n : ~results[i].ok /\ r = results[i]
  BY <1>1, <1>2, FirstFailure
<1>5. ASSUME NEW i \in 1..n
      PROVE  \/ results[i].ok /\ PeeledBatch(results[i].val, l[i], c, k - 1)
             \/ ~results[i].ok /\ results[i].why = "kms"
             \/ ~results[i].ok /\ results[i].why = "key" /\ (l[i].by # c \/ l[i].named # (version < 13))
             \/ ~results[i].ok /\ results[i].why \in {"format", "crash"} /\ (l[i].kind # "data" \/ l[i].by # c)
  <2> DEFINE s == l[i]
             b == body[i]
             d == results[i]
  <2>1. Stored(s) /\ PeeledBatch(b, s, c, k)
    OBVIOUS
  <2>2. d = DecryptBatch(c[k], KeyName("topic", version), b, kmsUp)
    BY <1>3
  <2> HIDE DEF s, b, d
  <2>3. \/ d.ok /\ PeeledBatch(d.val, s, c, k - 1)
        \/ ~d.ok /\ d.why = "kms"
        \/ ~d.ok /\ d.why = "key" /\ (s.by # c \/ s.named # (version < 13))
        \/ ~d.ok /\ d.why \in {"format", "crash"} /\ (s.kind # "data" \/ s.by # c)
    BY <2>1, <2>2, DecryptedStored
  <2> QED
    BY <2>3 DEF s, d
<1>6. CASE \E i \in 1..n : ~results[i].ok /\ r = results[i]
  BY <1>5, <1>6 DEF TakesLayerOff
<1>7. CASE (\A i \in 1..n : results[i].ok) /\ r = Returns(new)
  <2>1. Len(new) = n
    BY ListLen
  <2>2. \A i \in 1..n : PeeledBatch(new[i], l[i], c, k - 1)
    BY <1>5, <1>7
  <2> HIDE DEF new
  <2>3. r.ok /\ r.val = new
    BY <1>7, Outcomes
  <2> QED
    BY <2>1, <2>2, <2>3 DEF TakesLayerOff
<1> QED
  BY <1>4, <1>6, <1>7

-----------------------------------------------------------------------------
(* The chain and the job.                                                  *)
LEMMA ChainFacts ==
  ASSUME NEW c \in NewFilterChain
  PROVE  /\ c \in Seq(Filters) /\ Len(c) \in Nat /\ Range(c) \subseteq Plugins
         /\ \A k \in 1..Len(c) : c[k] \in Filters /\ c[k] \in Range(c)
<1>1. Plugins \subseteq Filters
  BY ChainAssumption DEF Plugins, Range
<1>2. Len(Configured) \in Nat
  BY ChainAssumption
<1>3. PICK n \in 0..Len(Configured) : c \in [1..n -> Plugins]
  BY DEF NewFilterChain
<1>4. n \in Nat
  BY <1>2
<1>5. c \in Seq(Plugins) /\ Len(c) = n
  BY <1>3, <1>4
<1> QED
  BY <1>1, <1>3, <1>4, <1>5 DEF Range

(* k is the job j when it has ended for the reason y.                      *)
Ends(k, j, y) ==
  /\ IsJob(k) /\ k.pc = "done" /\ k.why = y
  /\ k.api = j.api /\ k.version = j.version /\ k.at = j.at /\ k.cut = j.cut
  /\ k.body = j.body /\ k.bare = j.bare /\ k.mangled = j.mangled

(* k is the job j passed on to the filter t with the content w.            *)
Passes(k, j, t, w, m, x) ==
  /\ IsJob(k) /\ k.pc = j.pc /\ k.why = j.why
  /\ k.api = j.api /\ k.version = j.version /\ k.at = t /\ k.cut = j.cut
  /\ k.body = w /\ k.bare = x /\ k.mangled = m

LEMMA EndedJob ==
  ASSUME NEW j, IsJob(j), NEW y, NEW k, k = [j EXCEPT !.pc = "done", !.why = y]
  PROVE  Ends(k, j, y)
<1>1. DOMAIN k = Fields
  BY DEF IsJob
<1>2. k = [x \in Fields |-> k[x]]
  BY <1>1 DEF IsJob
<1>3. /\ k.pc = "done" /\ k.why = y
      /\ k.api = j.api /\ k.version = j.version /\ k.at = j.at /\ k.cut = j.cut
      /\ k.body = j.body /\ k.bare = j.bare /\ k.mangled = j.mangled
  BY DEF IsJob, Fields
<1> QED
  BY <1>1, <1>2, <1>3 DEF IsJob, Ends

LEMMA PassedJob ==
  ASSUME NEW j, IsJob(j), NEW t, NEW w, NEW m, NEW x,
         NEW k, k = [j EXCEPT !.at = t, !.body = w, !.mangled = m, !.bare = x]
  PROVE  Passes(k, j, t, w, m, x)
<1>1. DOMAIN k = Fields
  BY DEF IsJob
<1>2. k = [f \in Fields |-> k[f]]
  BY <1>1 DEF IsJob
<1>3. /\ k.pc = j.pc /\ k.why = j.why
      /\ k.api = j.api /\ k.version = j.version /\ k.at = t /\ k.cut = j.cut
      /\ k.body = w /\ k.bare = x /\ k.mangled = m
  BY DEF IsJob, Fields
<1> QED
  BY <1>1, <1>2, <1>3 DEF IsJob, Passes

LEMMA JobFacts ==
  ASSUME JobInv
  PROVE  /\ Idle => job = NoJob
         /\ job.pc \in {"idle", "request", "reply", "done"}
         /\ job.pc # "idle" =>
              /\ IsJob(job) /\ job.version \in Nat
              /\ job.mangled \in BOOLEAN /\ job.bare \in BOOLEAN /\ job.cut \in BOOLEAN
              /\ job.mangled \/ ~job.bare => ~bare
         /\ job.pc = "request" => /\ job.api = "produce" /\ Len(log) < MaxLog
                                  /\ Requested(job, started)
         /\ job.pc = "reply" => job.api = "fetch" /\ Replied(job, started, log)
         /\ job.pc = "done" /\ job.api = "fetch" => Explained(job, started, log, bare)
<1>1. NoJob.pc = "idle"
  BY DEF NoJob
<1> QED
  BY <1>1 DEF JobInv, JobOf, Idle

-----------------------------------------------------------------------------
(* The invariant holds initially, and every step keeps it.                 *)
LEMMA ChainInit == Init => ChainInv
<1> SUFFICES ASSUME Init PROVE ChainInv
  OBVIOUS
<1>1. EnvInv
  BY ChainAssumption DEF Init, EnvInv
<1>2. LogOf(<<>>)
  <2>1. Len(<<>>) = 0 /\ 1..0 = {}
    OBVIOUS
  <2>2. <<>> = [i \in 1..0 |-> <<>>[i]]
    OBVIOUS
  <2> QED
    BY <2>1, <2>2, ChainAssumption DEF LogOf
<1>3. JobInv
  BY DEF Init, JobInv, JobOf
<1> QED
  BY <1>1, <1>2, <1>3 DEF Init, ChainInv, LogInv

LEMMA ProduceStep == ASSUME ChainInv, Produce PROVE ChainInv'
<1>1. EnvInv' /\ LogInv' /\ started' = started /\ log' = log /\ bare' = bare
  BY DEF ChainInv, Produce, env, EnvInv, LogInv
<1>2. PICK b \in Batches, v \in Versions :
        job' = [pc |-> "request", api |-> "produce", version |-> v, at |-> 1, cut |-> FALSE,
                body |-> <<b>>, bare |-> bare, mangled |-> FALSE, why |-> ""]
  BY DEF Produce
<1>3. /\ IsJob(job') /\ job'.pc = "request" /\ job'.api = "produce" /\ job'.version = v
      /\ job'.at = 1 /\ job'.cut = FALSE /\ job'.body = <<b>> /\ job'.bare = bare
      /\ job'.mangled = FALSE
  <2> DEFINE no == FALSE
             k == job'
  <2>1. k = [pc |-> "request", api |-> "produce", version |-> v, at |-> 1, cut |-> no,
             body |-> <<b>>, bare |-> bare, mangled |-> no, why |-> ""]
    BY <1>2, Zenon
  <2> HIDE DEF no, k
  <2>2. /\ k.pc = "request" /\ k.api = "produce" /\ k.version = v
        /\ k.at = 1 /\ k.cut = no /\ k.body = <<b>> /\ k.bare = bare /\ k.mangled = no
    BY <2>1
  <2>3. DOMAIN k = Fields
    BY <2>1 DEF Fields
  <2>4. k = [x \in Fields |-> k[x]]
    BY <2>1 DEF Fields
  <2>5. IsJob(k)
    BY <2>3, <2>4 DEF IsJob
  <2> QED
    BY <2>2, <2>5, Zenon DEF no, k
<1>4. v \in Nat /\ bare \in BOOLEAN
  BY ChainAssumption DEF ChainInv, EnvInv
<1>5. started \in Seq(Filters) /\ Len(started) \in Nat
  BY ChainFacts DEF ChainInv, EnvInv
<1>6. Len(log) < MaxLog
  BY DEF Produce
<1>7. /\ b \in [kind : Kinds, recs : Seq({Value("nil"), Value("empty"), Value("text")}),
                by : {<<>>}, named : {TRUE}]
  BY ChainAssumption DEF Kinds
<1>8. IsBatch(b) /\ b.kind \in Kinds
  <2>1. b = [kind |-> b.kind, recs |-> b.recs, by |-> b.by, named |-> b.named] /\ b.kind \in Kinds
    BY <1>7
  <2>2. b.recs \in Seq({Value("nil"), Value("empty"), Value("text")})
    BY <1>7
  <2>3. Len(b.recs) \in Nat /\ b.recs = [j \in 1..Len(b.recs) |-> b.recs[j]]
    BY <2>2
  <2> QED
    BY <2>1, <2>3 DEF IsBatch
<1>9. ASSUME NEW j \in 1..Len(b.recs), NEW key
      PROVE  Sealed(b.recs[j], SubSeq(started, 1, 1 - 1), key)
  <2>1. b.recs[j] \in {Value("nil"), Value("empty"), Value("text")}
    BY <1>7
  <2>2. SubSeq(started, 1, 1 - 1) = <<>>
    BY <1>5
  <2> DEFINE w == b.recs[j]
             ls == [k \in 1..Len(<<>>) |-> Layer(<<>>[k], key)]
  <2>3. ls = <<>>
    <3>1. Len(<<>>) = 0 /\ 1..0 = {}
      OBVIOUS
    <3> QED
      BY <3>1
  <2> HIDE DEF w, ls
  <2>4. w = Value("nil") \/ (w.base \in {"empty", "text"} /\ w = [base |-> w.base, layers |-> ls])
    BY <2>1, <2>3, ValueFacts DEF Value, w
  <2> QED
    BY <2>2, <2>4 DEF Sealed, w, ls
<1>10. Requested(job', started)
  <2>1. job'.at \in 1..(Len(started) + 1) /\ ~(job'.at > 1)
    BY <1>3, <1>5
  <2>2. Len(job'.body) = 1 /\ job'.body[1] = b
    BY <1>3
  <2> QED
    BY <1>3, <1>8, <1>9, <2>1, <2>2 DEF Requested
<1>11. job'.mangled \in BOOLEAN /\ job'.cut \in BOOLEAN /\ ~job'.mangled
  BY <1>3, Zenon
<1>12. JobOf(job', started, log, bare)
  BY <1>3, <1>4, <1>6, <1>10, <1>11 DEF JobOf
<1> QED
  BY <1>1, <1>12 DEF ChainInv, JobInv

(* What this chain has stored has all of its layers.                       *)
LEMMA WholeValue ==
  ASSUME NEW fs \in Seq(Filters), NEW key, NEW v, Sealed(v, fs, key)
  PROVE  Peeled(v, Len(fs)) = v
<1>1. CASE v = Value("nil")
  BY <1>1 DEF Peeled
<1>2. CASE v # Value("nil")
  <2> DEFINE ls == [k \in 1..Len(fs) |-> Layer(fs[k], key)]
             L == [filter : Filters, key : {key}]
  <2>1. v = [base |-> v.base, layers |-> ls]
    BY <1>2 DEF Sealed
  <2>2. v.layers = ls
    BY <2>1
  <2>3. Len(fs) \in Nat /\ ls \in Seq(L) /\ Len(ls) = Len(fs)
    <3>1. \A k \in 1..Len(fs) : Layer(fs[k], key) \in L
      BY DEF Layer
    <3> QED
      BY <3>1
  <2> HIDE DEF ls, L
  <2>4. Len(fs) = 0 => ls = <<>>
    BY <2>3
  <2>5. SubSeq(ls, 1, Len(fs)) = ls
    BY <2>3
  <2>6. Peeled(v, Len(fs)) = [base |-> v.base, layers |-> SubSeq(v.layers, 1, Len(fs))]
    BY <1>2, <2>2, <2>4 DEF Peeled
  <2> QED
    BY <2>1, <2>2, <2>5, <2>6
<1> QED
  BY <1>1, <1>2

(* Without any layer it is what the producer has written.                  *)
LEMMA BareValue ==
  ASSUME NEW fs \in Seq(Filters), NEW key, NEW v, Sealed(v, fs, key)
  PROVE  Peeled(v, 0) = Value(IF v.base = "empty" /\ v.layers # <<>> THEN "nil" ELSE v.base)
<1>1. CASE v = Value("nil")
  BY <1>1, ValueFacts DEF Peeled
<1>2. CASE v # Value("nil")
  <2> DEFINE ls == [k \in 1..Len(fs) |-> Layer(fs[k], key)]
             L == [filter : Filters, key : {key}]
  <2>1. v = [base |-> v.base, layers |-> ls]
    BY <1>2 DEF Sealed
  <2>2. v.layers = ls
    BY <2>1
  <2>3. ls \in Seq(L)
    <3>1. \A k \in 1..Len(fs) : Layer(fs[k], key) \in L
      BY DEF Layer
    <3> QED
      BY <3>1
  <2> HIDE DEF ls, L
  <2>4. SubSeq(ls, 1, 0) = <<>>
    BY <2>3
  <2>5. Peeled(v, 0) = IF v.base = "empty" /\ v.layers # <<>> THEN Value("nil")
                       ELSE [base |-> v.base, layers |-> SubSeq(v.layers, 1, 0)]
    BY <1>2 DEF Peeled
  <2> QED
    BY <2>2, <2>4, <2>5 DEF Value
<1> QED
  BY <1>1, <1>2

LEMMA FetchStep == ASSUME ChainInv, Fetch PROVE ChainInv'
<1>1. EnvInv' /\ LogInv' /\ started' = started /\ log' = log /\ bare' = bare
  BY DEF ChainInv, Fetch, env, EnvInv, LogInv
<1>2. PICK c \in BOOLEAN, v \in Versions :
        job' = [pc |-> "reply", api |-> "fetch", version |-> v, at |-> Len(started), cut |-> c,
                body |-> log, bare |-> bare, mangled |-> FALSE, why |-> ""]
  BY DEF Fetch
<1>3. /\ IsJob(job') /\ job'.pc = "reply" /\ job'.api = "fetch" /\ job'.version = v
      /\ job'.at = Len(started) /\ job'.cut = c /\ job'.body = log /\ job'.bare = bare
      /\ job'.mangled = FALSE
  <2> DEFINE no == FALSE
             k == job'
  <2>1. k = [pc |-> "reply", api |-> "fetch", version |-> v, at |-> Len(started), cut |-> c,
             body |-> log, bare |-> bare, mangled |-> no, why |-> ""]
    BY <1>2, Zenon
  <2>2. \E d : d = c
    OBVIOUS
  <2>3. PICK d : d = c
    BY <2>2
  <2>4. k = [pc |-> "reply", api |-> "fetch", version |-> v, at |-> Len(started), cut |-> d,
             body |-> log, bare |-> bare, mangled |-> no, why |-> ""]
    BY <2>1, <2>3, Zenon
  <2> HIDE DEF no, k
  <2>5. /\ k.pc = "reply" /\ k.api = "fetch" /\ k.version = v /\ k.at = Len(started)
        /\ k.cut = d /\ k.body = log /\ k.bare = bare /\ k.mangled = no
    BY <2>4
  <2>6. DOMAIN k = Fields
    BY <2>4 DEF Fields
  <2>7. k = [x \in Fields |-> k[x]]
    BY <2>4 DEF Fields
  <2>8. IsJob(k)
    BY <2>6, <2>7 DEF IsJob
  <2> QED
    BY <2>5, <2>8, <2>3, Zenon DEF no, k
<1>4. v \in Nat /\ bare \in BOOLEAN
  BY ChainAssumption DEF ChainInv, EnvInv
<1>5. started \in Seq(Filters) /\ Len(started) \in Nat
  BY ChainFacts DEF ChainInv, EnvInv
<1>6. ASSUME NEW i \in 1..Len(log)
      PROVE  /\ IsBatch(log[i])
             /\ log[i].kind = "data" /\ log[i].by = started =>
                  log[i].recs = [r \in 1..Len(log[i].recs) |-> Peeled(log[i].recs[r], Len(started))]
  <2> DEFINE s == log[i]
  <2>1. Stored(s)
    BY DEF ChainInv, LogInv, LogOf
  <2> HIDE DEF s
  <2>2. IsBatch(s) /\ s.recs = [r \in 1..Len(s.recs) |-> s.recs[r]]
    BY <2>1 DEF Stored, IsBatch
  <2>3. ASSUME s.kind = "data", s.by = started, NEW r \in 1..Len(s.recs)
        PROVE  Peeled(s.recs[r], Len(started)) = s.recs[r]
    <3>1. Sealed(s.recs[r], started, KeyOf(s.named))
      BY <2>1, <2>3 DEF Stored
    <3> QED
      BY <1>5, <3>1, WholeValue
  <2> QED
    BY <2>2, <2>3 DEF s
<1>7. Replied(job', started, log)
  <2>1. job'.at \in 0..Len(started) /\ job'.at = Len(started) /\ job'.body = log /\ ~job'.mangled
    BY <1>3, <1>5
  <2> QED
    BY <1>6, <2>1 DEF Replied
<1>8. job'.mangled \in BOOLEAN /\ job'.cut \in BOOLEAN /\ ~job'.mangled
  BY <1>3, Zenon
<1>9. JobOf(job', started, log, bare)
  BY <1>3, <1>4, <1>7, <1>8 DEF JobOf
<1> QED
  BY <1>1, <1>9 DEF ChainInv, JobInv

LEMMA WriteReplyStep == ASSUME ChainInv, WriteReply PROVE ChainInv'
<1>1. EnvInv' /\ LogInv' /\ started' = started /\ log' = log /\ bare' = bare
  BY DEF ChainInv, WriteReply, env, EnvInv, LogInv
<1>2. job.pc = "reply" /\ job.at = 0
  BY DEF WriteReply
<1>3. /\ IsJob(job) /\ job.version \in Nat
      /\ job.mangled \in BOOLEAN /\ job.bare \in BOOLEAN /\ job.cut \in BOOLEAN
      /\ job.mangled \/ ~job.bare => ~bare
      /\ job.api = "fetch" /\ Replied(job, started, log)
  BY <1>2, JobFacts DEF ChainInv
<1> DEFINE y == IF job.mangled THEN "header" ELSE ""
<1>4. job' = [job EXCEPT !.pc = "done", !.why = y]
  BY DEF WriteReply
<1> HIDE DEF y
<1>5. Ends(job', job, y)
  BY <1>3, <1>4, EndedJob
<1>6. started \in Seq(Filters)
  BY ChainFacts DEF ChainInv, EnvInv
<1>7. ASSUME job.mangled PROVE Explained(job', started, log, bare)
  <2>1. y = "header" /\ ~bare
    BY <1>3, <1>7 DEF y
  <2> QED
    BY <1>5, <2>1 DEF Explained, Ends
<1>8. ASSUME ~job.mangled PROVE Explained(job', started, log, bare)
  <2>1. y = ""
    BY <1>8 DEF y
  <2>2. /\ Len(job.body) = Len(log)
        /\ \A i \in 1..Len(log) : log[i].kind = "data" /\ log[i].by = started =>
             job.body[i].recs = [r \in 1..Len(log[i].recs) |-> Peeled(log[i].recs[r], 0)]
    BY <1>2, <1>3, <1>8 DEF Replied
  <2>3. ASSUME NEW i \in 1..Len(log), log[i].kind = "data", log[i].by = started
        PROVE  job.body[i].recs = Restored(log[i].recs)
    <3> DEFINE s == log[i]
    <3>1. Stored(s)
      BY DEF ChainInv, LogInv, LogOf
    <3>2. \A r \in 1..Len(s.recs) : Sealed(s.recs[r], started, KeyOf(s.named))
      BY <2>3, <3>1 DEF Stored
    <3>3. \A r \in 1..Len(s.recs) :
            Peeled(s.recs[r], 0) = Value(IF s.recs[r].base = "empty" /\ s.recs[r].layers # <<>>
                                         THEN "nil" ELSE s.recs[r].base)
      BY <1>6, <3>2, BareValue
    <3>4. job.body[i].recs = [r \in 1..Len(s.recs) |-> Peeled(s.recs[r], 0)]
      BY <2>2, <2>3
    <3> HIDE DEF s
    <3> QED
      BY <3>3, <3>4 DEF Restored, s
  <2> QED
    BY <1>5, <2>1, <2>2, <2>3 DEF Explained, Ends
<1>9. JobOf(job', started, log, bare)
  BY <1>3, <1>5, <1>7, <1>8 DEF JobOf, Ends
<1> QED
  BY <1>1, <1>9 DEF ChainInv, JobInv

(* The log with one more stored batch.                                     *)
LEMMA LongerLog ==
  ASSUME NEW l, LogOf(l), Len(l) < MaxLog, NEW b, Stored(b)
  PROVE  LogOf(Append(l, b))
<1> DEFINE S == {l[i] : i \in 1..Len(l)} \cup {b}
<1>1. Len(l) \in Nat /\ MaxLog \in Nat /\ l = [i \in 1..Len(l) |-> l[i]]
  BY ChainAssumption DEF LogOf
<1>2. l \in Seq(S) /\ b \in S
  <2>1. l \in [1..Len(l) -> S]
    BY <1>1
  <2> QED
    BY <1>1, <2>1
<1> HIDE DEF S
<1>3. /\ Append(l, b) \in Seq(S) /\ Len(Append(l, b)) = Len(l) + 1
      /\ \A i \in 1..Len(l) : Append(l, b)[i] = l[i]
      /\ Append(l, b)[Len(l) + 1] = b
  BY <1>2
<1>4. Append(l, b) = [i \in 1..Len(Append(l, b)) |-> Append(l, b)[i]]
  <2> DEFINE a == Append(l, b)
  <2>1. a \in Seq(S)
    BY <1>3
  <2> HIDE DEF a
  <2>2. a = [i \in 1..Len(a) |-> a[i]]
    BY <2>1
  <2> QED
    BY <2>2 DEF a
<1>5. \A i \in 1..(Len(l) + 1) : i \in 1..Len(l) \/ i = Len(l) + 1
  BY <1>1
<1>6. \A i \in 1..(Len(l) + 1) : Stored(Append(l, b)[i])
  BY <1>3, <1>5 DEF LogOf
<1>7. Len(l) + 1 \in 0..MaxLog
  BY <1>1
<1> QED
  BY <1>3, <1>4, <1>6, <1>7 DEF LogOf

(* A batch as the broker stores it.                                        *)
StoredBy(c, b, y, z) ==
  IsBatch(c) /\ c.kind = b.kind /\ c.recs = b.recs /\ c.by = y /\ c.named = z

LEMMA AsStored ==
  ASSUME NEW b, IsBatch(b), NEW y, NEW z, NEW c, c = [b EXCEPT !.by = y, !.named = z]
  PROVE  StoredBy(c, b, y, z)
<1> DEFINE D == {"kind", "recs", "by", "named"}
<1>1. b = [kind |-> b.kind, recs |-> b.recs, by |-> b.by, named |-> b.named]
  BY DEF IsBatch
<1>2. DOMAIN b = D /\ b = [x \in D |-> b[x]]
  BY <1>1
<1>3. DOMAIN c = D /\ c = [x \in D |-> c[x]]
  BY <1>2
<1>4. c.kind = b.kind /\ c.recs = b.recs /\ c.by = y /\ c.named = z
  BY <1>2
<1>5. c = [kind |-> c.kind, recs |-> c.recs, by |-> c.by, named |-> c.named]
  BY <1>3
<1> QED
  BY <1>4, <1>5 DEF IsBatch, StoredBy

LEMMA WriteRequestStep == ASSUME ChainInv, WriteRequest PROVE ChainInv'
<1>1. EnvInv' /\ started' = started /\ bare' = bare
  BY DEF ChainInv, WriteRequest, env, EnvInv
<1>2. job.pc = "request" /\ job.at > Len(started)
  BY DEF WriteRequest
<1>3. /\ IsJob(job) /\ job.version \in Nat
      /\ job.mangled \in BOOLEAN /\ job.bare \in BOOLEAN /\ job.cut \in BOOLEAN
      /\ job.mangled \/ ~job.bare => ~bare
      /\ job.api = "produce" /\ Len(log) < MaxLog /\ Requested(job, started)
  BY <1>2, JobFacts DEF ChainInv
<1> DEFINE y == IF job.mangled THEN "header" ELSE ""
<1>4. job' = [job EXCEPT !.pc = "done", !.why = y]
  BY DEF WriteRequest
<1> HIDE DEF y
<1>5. Ends(job', job, y)
  BY <1>3, <1>4, EndedJob
<1>6. JobOf(job', started', log', bare')
  BY <1>1, <1>3, <1>5 DEF JobOf, Ends
<1>7. ASSUME ~job.mangled PROVE LogOf(log')
  <2> DEFINE named == job.version < 13
             n == Len(started)
             b == job.body[1]
             s == [b EXCEPT !.by = started, !.named = named]
  <2>1. started \in Seq(Filters) /\ n \in Nat
    BY ChainFacts DEF ChainInv, EnvInv
  <2>2. /\ job.at \in 1..(n + 1) /\ IsBatch(b) /\ b.kind \in Kinds
        /\ job.at > 1 => b.kind = "data"
        /\ \A i \in 1..Len(b.recs) :
             Sealed(b.recs[i], SubSeq(started, 1, job.at - 1), KeyName("topic", job.version))
    BY <1>3, <1>7 DEF Requested
  <2>3. job.at = n + 1
    BY <1>2, <2>1, <2>2
  <2>4. SubSeq(started, 1, job.at - 1) = started
    BY <2>1, <2>3
  <2>5. started # <<>> => job.at > 1
    BY <2>1, <2>3
  <2>6. KeyName("topic", job.version) = KeyOf(named)
    <3>1. job.version < 13 <=> ~(job.version >= 13)
      BY <1>3
    <3> QED
      BY <3>1 DEF KeyName, KeyOf
  <2>7. log' = Append(log, s)
    BY <1>7 DEF WriteRequest
  <2>8. named \in BOOLEAN
    OBVIOUS
  <2> HIDE DEF named, b, s
  <2>9. s = [b EXCEPT !.by = started, !.named = named]
    BY DEF s
  <2>10. StoredBy(s, b, started, named)
    BY <2>2, <2>9, AsStored
  <2>11. Stored(s)
    <3>1. \A i \in 1..Len(s.recs) : Sealed(s.recs[i], started, KeyOf(named))
      BY <2>2, <2>4, <2>6, <2>10 DEF StoredBy
    <3>2. s.kind \in Kinds /\ s.kind # "control" /\ (started # <<>> => s.kind = "data")
      BY <2>2, <2>5, <2>10 DEF Kinds, StoredBy
    <3>3. s.named \in BOOLEAN
      BY <2>8, <2>10, Zenon DEF StoredBy
    <3> QED
      BY <2>1, <2>10, <3>1, <3>2, <3>3 DEF Stored, StoredBy
  <2> QED
    BY <1>3, <2>7, <2>11, LongerLog DEF ChainInv, LogInv
<1>8. ASSUME job.mangled PROVE LogOf(log')
  BY <1>8 DEF ChainInv, LogInv, WriteRequest
<1> QED
  BY <1>1, <1>3, <1>6, <1>7, <1>8 DEF ChainInv, LogInv, JobInv

LEMMA CommitTxnStep == ASSUME ChainInv, CommitTxn PROVE ChainInv'
<1>1. EnvInv'
  BY DEF ChainInv, CommitTxn, env, EnvInv
<1>2. JobInv'
  BY JobFacts DEF ChainInv, CommitTxn, JobInv, JobOf
<1> DEFINE s == [kind |-> "control", recs |-> <<Value("marker")>>, by |-> <<>>, named |-> TRUE]
<1>3. log' = Append(log, s) /\ Len(log) < MaxLog
  BY DEF CommitTxn
<1>4. Stored(s)
  <2> DEFINE yes == TRUE
             t == [kind |-> "control", recs |-> <<Value("marker")>>, by |-> <<>>, named |-> yes]
  <2>1. s = t /\ yes \in BOOLEAN
    BY Zenon
  <2> HIDE DEF yes
  <2>2. /\ t.kind = "control" /\ t.recs = <<Value("marker")>> /\ t.by = <<>> /\ t.named = yes
    OBVIOUS
  <2>3. Len(<<Value("marker")>>) = 1
    OBVIOUS
  <2>4. <<Value("marker")>> = [j \in 1..1 |-> <<Value("marker")>>[j]]
    OBVIOUS
  <2>5. IsBatch(t)
    BY <2>2, <2>3, <2>4 DEF IsBatch
  <2> HIDE DEF t
  <2>6. Stored(t)
    BY <2>1, <2>2, <2>5, Zenon DEF Stored
  <2> HIDE DEF s
  <2> QED
    BY <2>1, <2>6
<1> HIDE DEF s
<1>5. LogInv'
  BY <1>3, <1>4, LongerLog DEF ChainInv, LogInv
<1> QED
  BY <1>1, <1>2, <1>5 DEF ChainInv

LEMMA NextRequestStep == ASSUME ChainInv, NextRequest PROVE ChainInv'
BY DEF ChainInv, NextRequest, env, EnvInv, LogInv, JobInv, JobOf

LEMMA PluginDiesStep == ASSUME ChainInv, PluginDies PROVE ChainInv'
<1>1. EnvInv'
  BY DEF ChainInv, PluginDies, EnvInv
<1> QED
  BY <1>1 DEF ChainInv, PluginDies, LogInv, JobInv

LEMMA KmsChangesStep == ASSUME ChainInv, KmsChanges PROVE ChainInv'
<1>1. Range(started) \subseteq Plugins
  BY ChainFacts DEF ChainInv, EnvInv
<1>2. EnvInv'
  BY <1>1 DEF ChainInv, KmsChanges, EnvInv
<1> QED
  BY <1>2 DEF ChainInv, KmsChanges, LogInv, JobInv

LEMMA RestartStep == ASSUME ChainInv, Restart PROVE ChainInv'
<1>1. EnvInv'
  BY ChainAssumption DEF ChainInv, Restart, EnvInv
<1>2. JobInv'
  BY JobFacts DEF ChainInv, Restart, JobInv, JobOf
<1> QED
  BY <1>1, <1>2 DEF ChainInv, Restart, LogInv

-----------------------------------------------------------------------------
(* A call of a plugin: what the job becomes, and who is dead.              *)
LEMMA CalledJob ==
  ASSUME NEW f, NEW res, NEW next, IsJob(job), job.api # "addresses", Called(f, res, next)
  PROVE  /\ res.ok => Passes(job', job, next, res.val, job.mangled \/ ~job.bare, TRUE)
         /\ ~res.ok => Ends(job', job, res.why)
         /\ dead' \subseteq dead \cup {f}
         /\ started' = started /\ kms' = kms /\ bare' = bare /\ restarts' = restarts
         /\ log' = log
<1>1. ASSUME ~res.ok PROVE Ends(job', job, res.why)
  <2>1. job' = [job EXCEPT !.pc = "done", !.why = res.why]
    BY <1>1 DEF Called
  <2> QED
    BY <2>1, EndedJob
<1>2. ASSUME res.ok PROVE Passes(job', job, next, res.val, job.mangled \/ ~job.bare, TRUE)
  <2> DEFINE m == job.mangled \/ (~job.bare /\ job.api # "addresses")
             x == job.bare \/ job.api # "addresses"
  <2>1. job' = [job EXCEPT !.at = next, !.body = res.val, !.mangled = m, !.bare = x]
    BY <1>2 DEF Called
  <2>2. m = (job.mangled \/ ~job.bare) /\ x = TRUE
    BY Zenon
  <2> HIDE DEF m, x
  <2>3. Passes(job', job, next, res.val, m, x)
    BY <2>1, PassedJob
  <2> QED
    BY <2>2, <2>3, Zenon
<1> QED
  BY <1>1, <1>2 DEF Called

(* The filter's process has ended.                                         *)
LEMMA CallFailsStep ==
  ASSUME ChainInv, job.pc \in {"request", "reply"}, CallFails
  PROVE  ChainInv'
<1>1. EnvInv' /\ LogInv' /\ started' = started /\ log' = log /\ bare' = bare
  BY DEF ChainInv, CallFails, env, EnvInv, LogInv
<1>2. /\ IsJob(job) /\ job.version \in Nat /\ job.api \in {"produce", "fetch"}
      /\ job.mangled \in BOOLEAN /\ job.bare \in BOOLEAN /\ job.cut \in BOOLEAN
      /\ job.mangled \/ ~job.bare => ~bare
  BY JobFacts DEF ChainInv
<1>3. job' = [job EXCEPT !.pc = "done", !.why = "plugin"]
  BY DEF CallFails
<1>4. Ends(job', job, "plugin")
  BY <1>2, <1>3, EndedJob
<1>5. Explained(job', started, log, bare)
  BY <1>4 DEF Ends, Explained
<1>6. JobOf(job', started, log, bare)
  BY <1>2, <1>4, <1>5 DEF JobOf, Ends
<1> QED
  BY <1>1, <1>6 DEF ChainInv, JobInv

(* The proxy's plugins after a call.                                       *)
LEMMA EnvAfterCall ==
  ASSUME EnvInv, NEW f \in Range(started), dead' \subseteq dead \cup {f},
         started' = started, kms' = kms, bare' = bare, restarts' = restarts
  PROVE  EnvInv'
BY DEF EnvInv

LEMMA RequestFilterStep == ASSUME ChainInv, ApplyRequestFilter PROVE ChainInv'
<1> DEFINE f == started[job.at]
           n == Len(started)
           key == KeyName("topic", job.version)
           up == f \in kms
<1>1. job.pc = "request" /\ job.at <= n
  BY DEF ApplyRequestFilter
<1>2. /\ IsJob(job) /\ job.version \in Nat
      /\ job.mangled \in BOOLEAN /\ job.bare \in BOOLEAN /\ job.cut \in BOOLEAN
      /\ job.mangled \/ ~job.bare => ~bare
      /\ job.api = "produce" /\ Len(log) < MaxLog /\ Requested(job, started)
  BY <1>1, JobFacts DEF ChainInv
<1>3. started \in Seq(Filters) /\ n \in Nat
  BY ChainFacts DEF ChainInv, EnvInv
<1>4. job.at \in 1..n
  BY <1>1, <1>2, <1>3 DEF Requested
<1>5. f \in Filters /\ f \in Range(started)
  BY <1>4, ChainFacts DEF ChainInv, EnvInv
<1>6. CASE f \in dead
  BY <1>1, <1>6, CallFailsStep DEF ApplyRequestFilter
<1>7. CASE f \notin dead
  <2>1. PICK res \in OnRequest(f, job.api, key, job.body, job.bare, up) :
          Called(f, res, job.at + 1)
    BY <1>7 DEF ApplyRequestFilter
  <2>2. /\ res.ok => Passes(job', job, job.at + 1, res.val, job.mangled \/ ~job.bare, TRUE)
        /\ ~res.ok => Ends(job', job, res.why)
        /\ dead' \subseteq dead \cup {f}
        /\ started' = started /\ kms' = kms /\ bare' = bare /\ restarts' = restarts
        /\ log' = log
    BY <1>2, <2>1, CalledJob
  <2>3. EnvInv' /\ LogInv'
    BY <1>5, <2>2, EnvAfterCall DEF ChainInv, LogInv
  <2>4. CASE ~res.ok
    <3>1. JobOf(job', started, log, bare)
      BY <1>2, <2>2, <2>4 DEF JobOf, Ends
    <3> QED
      BY <2>2, <2>3, <3>1 DEF ChainInv, JobInv
  <2>5. CASE res.ok
    <3>1. Passes(job', job, job.at + 1, res.val, job.mangled \/ ~job.bare, TRUE)
      BY <2>2, <2>5
    <3>2. /\ job'.mangled \in BOOLEAN /\ job'.bare \in BOOLEAN /\ job'.bare
          /\ job'.mangled => job.mangled \/ ~job.bare
          /\ ~job'.mangled => ~job.mangled /\ job.bare
      BY <3>1, Zenon DEF Passes
    <3>3. /\ IsJob(job') /\ job'.pc = "request" /\ job'.api = "produce"
          /\ job'.version = job.version /\ job'.cut = job.cut
          /\ job'.at = job.at + 1 /\ job'.body = res.val
      BY <1>1, <1>2, <3>1 DEF Passes
    <3>4. job'.at \in 1..(n + 1)
      BY <1>3, <1>4, <3>3
    <3>5. ASSUME ~job'.mangled
          PROVE  /\ Len(job'.body) = 1 /\ IsBatch(job'.body[1]) /\ job'.body[1].kind = "data"
                 /\ \A i \in 1..Len(job'.body[1].recs) :
                      Sealed(job'.body[1].recs[i], SubSeq(started, 1, job'.at - 1),
                             KeyName("topic", job'.version))
      <4> DEFINE fs == SubSeq(started, 1, job.at - 1)
      <4>1. /\ Len(job.body) = 1 /\ IsBatch(job.body[1]) /\ job.body[1].kind \in Kinds
            /\ \A i \in 1..Len(job.body[1].recs) : Sealed(job.body[1].recs[i], fs, key)
        BY <1>2, <3>2, <3>5 DEF Requested
      <4>2. res = EncryptRecords(f, key, job.body, up)
        BY <1>2, <2>1, <3>2, <3>5 DEF OnRequest
      <4>3. fs \in Seq(Filters) /\ Append(fs, f) = SubSeq(started, 1, job'.at - 1)
        <5>1. fs = [i \in 1..(job.at - 1) |-> started[i]] /\ fs \in Seq(Filters) /\ Len(fs) = job.at - 1
          BY <1>3, <1>4
        <5>2. job'.at - 1 = job.at
          BY <1>4, <3>3
        <5>3. SubSeq(started, 1, job.at) = [i \in 1..job.at |-> started[i]]
          BY <1>3, <1>4
        <5>4. Append(fs, f) = [i \in 1..job.at |-> IF i = job.at THEN f ELSE fs[i]]
          <6> HIDE DEF fs, f
          <6> QED
            BY <1>4, <1>5, <5>1
        <5>5. \A i \in 1..job.at : (IF i = job.at THEN f ELSE fs[i]) = started[i]
          BY <1>4, <5>1
        <5> HIDE DEF fs, f
        <5>6. Append(fs, f) = [i \in 1..job.at |-> started[i]]
          BY <5>4, <5>5
        <5> QED
          BY <5>1, <5>2, <5>3, <5>6
      <4> HIDE DEF fs, f, key, up
      <4>4. /\ Len(res.val) = 1 /\ IsBatch(res.val[1]) /\ res.val[1].kind = "data"
            /\ \A j \in 1..Len(res.val[1].recs) : Sealed(res.val[1].recs[j], Append(fs, f), key)
        BY <1>5, <2>5, <4>1, <4>2, <4>3, EncryptedBody
      <4>5. key = KeyName("topic", job'.version)
        BY <3>3 DEF key
      <4> QED
        BY <3>3, <4>3, <4>4, <4>5
    <3>6. Requested(job', started)
      BY <3>4, <3>5 DEF Requested, Kinds
    <3>7. job'.mangled \/ ~job'.bare => ~bare
      BY <1>2, <3>2
    <3>8. JobOf(job', started, log, bare)
      BY <1>2, <3>2, <3>3, <3>6, <3>7 DEF JobOf
    <3> QED
      BY <2>2, <2>3, <3>8 DEF ChainInv, JobInv
  <2> QED
    BY <2>4, <2>5
<1> QED
  BY <1>6, <1>7

(* A filter decrypts a reply: the next layer is off, or the failure has    *)
(* one of the reasons RestoredOrRefused allows.                            *)
LEMMA Decrypts ==
  ASSUME ChainInv, job.pc = "reply", job.at \in 1..Len(started), job.bare, NEW up,
         NEW res, res = DecryptRecords(started[job.at], KeyName("topic", job.version), job.body,
                                       job.cut, up)
  PROVE  /\ res.ok =>
              /\ job.mangled => Len(res.val) = 0
              /\ ~job.mangled =>
                   /\ Len(res.val) = Len(log)
                   /\ \A i \in 1..Len(log) : PeeledBatch(res.val[i], log[i], started, job.at - 1)
         /\ ~res.ok =>
              \/ res.why = "kms"
              \/ /\ res.why = "key"
                 /\ \E i \in 1..Len(log) : log[i].by # started \/ log[i].named # (job.version < 13)
              \/ /\ res.why \in {"format", "crash"}
                 /\ job.cut \/ \E i \in 1..Len(log) : log[i].kind # "data" \/ log[i].by # started
<1> DEFINE key == KeyName("topic", job.version)
           body == job.body
           version == job.version
           k == job.at
<1>1. version \in Nat /\ job.cut \in BOOLEAN /\ job.mangled \in BOOLEAN /\ Replied(job, started, log)
  BY JobFacts DEF ChainInv
<1>2. started \in Seq(Filters) /\ Len(started) \in Nat
  BY ChainFacts DEF ChainInv, EnvInv
<1>3. Len(log) \in Nat /\ \A i \in 1..Len(log) : Stored(log[i])
  BY DEF ChainInv, LogInv, LogOf
<1>4. CASE job.cut
  <2>1. res = Fails("format")
    BY <1>4 DEF DecryptRecords
  <2> QED
    BY <1>4, <2>1, Outcomes
<1>5. CASE ~job.cut
  <2>1. res = DecryptRecords(started[k], key, body, job.cut, up)
    OBVIOUS
  <2>2. CASE job.mangled
    <3>1. Len(body) = 0
      BY <1>1, <2>2 DEF Replied
    <3> DEFINE results == [i \in 1..0 |-> DecryptBatch(started[k], key, body[i], up)]
               new == [i \in 1..0 |-> results[i].val]
    <3>2. res = AllOrFirst(results)
      BY <1>5, <2>1, <3>1 DEF DecryptRecords
    <3>3. Len(results) = 0 /\ ~\E i \in 1..0 : ~results[i].ok
      BY ListLen
    <3> HIDE DEF results
    <3>4. res = Returns([i \in 1..Len(results) |-> results[i].val])
      BY <3>2, <3>3 DEF AllOrFirst
    <3>5. res = Returns(new)
      BY <3>3, <3>4
    <3>6. Len(new) = 0
      BY ListLen
    <3> HIDE DEF new
    <3> QED
      BY <2>2, <3>5, <3>6, Outcomes
  <2>3. CASE ~job.mangled
    <3> DEFINE l == log
               n == Len(log)
               c == started
    <3>1. Len(body) = n /\ \A i \in 1..n : PeeledBatch(body[i], l[i], c, k)
      BY <1>1, <2>3 DEF Replied, PeeledBatch
    <3>2. /\ n \in Nat /\ (\A i \in 1..n : Stored(l[i])) /\ c \in Seq(Filters) /\ k \in 1..Len(c)
          /\ version \in Nat
      BY <1>1, <1>2, <1>3
    <3> DEFINE cut == job.cut
    <3>3. res = DecryptRecords(c[k], KeyName("topic", version), body, cut, up) /\ ~cut
      BY <1>5, <2>1
    <3> HIDE DEF l, n, c, k, body, version, cut
    <3>4. TakesLayerOff(res, l, n, c, k, version)
      BY <3>1, <3>2, <3>3, DecryptedBody
    <3> QED
      BY <2>3, <3>4 DEF TakesLayerOff, l, n, c, k, version
  <2> QED
    BY <1>1, <2>2, <2>3
<1> QED
  BY <1>1, <1>4, <1>5

LEMMA ResponseFilterStep == ASSUME ChainInv, ApplyResponseFilter PROVE ChainInv'
<1> DEFINE f == started[job.at]
           n == Len(started)
           key == KeyName("topic", job.version)
           up == f \in kms
<1>1. job.pc = "reply" /\ job.at >= 1
  BY DEF ApplyResponseFilter
<1>2. /\ IsJob(job) /\ job.version \in Nat
      /\ job.mangled \in BOOLEAN /\ job.bare \in BOOLEAN /\ job.cut \in BOOLEAN
      /\ job.mangled \/ ~job.bare => ~bare
      /\ job.api = "fetch" /\ Replied(job, started, log)
  BY <1>1, JobFacts DEF ChainInv
<1>3. started \in Seq(Filters) /\ n \in Nat
  BY ChainFacts DEF ChainInv, EnvInv
<1>4. job.at \in 1..n
  BY <1>1, <1>2, <1>3 DEF Replied
<1>5. f \in Range(started)
  BY <1>4, ChainFacts DEF ChainInv, EnvInv
<1>6. CASE f \in dead
  BY <1>1, <1>6, CallFailsStep DEF ApplyResponseFilter, ResponseFilter
<1>7. CASE f \notin dead
  <2>1. PICK res \in OnResponse(f, job.api, key, job.body, job.cut, job.bare, up) :
          Called(f, res, job.at - 1)
    BY <1>7 DEF ApplyResponseFilter, ResponseFilter
  <2>2. /\ res.ok => Passes(job', job, job.at - 1, res.val, job.mangled \/ ~job.bare, TRUE)
        /\ ~res.ok => Ends(job', job, res.why)
        /\ dead' \subseteq dead \cup {f}
        /\ started' = started /\ kms' = kms /\ bare' = bare /\ restarts' = restarts
        /\ log' = log
    BY <1>2, <2>1, CalledJob
  <2>3. EnvInv' /\ LogInv'
    BY <1>5, <2>2, EnvAfterCall DEF ChainInv, LogInv
  <2>4. ASSUME job.bare PROVE res = DecryptRecords(f, key, job.body, job.cut, up)
    BY <1>2, <2>1, <2>4 DEF OnResponse
  <2>5. ASSUME ~job.bare PROVE res = Fails("header") \/ res = Returns(<<>>)
    BY <1>2, <2>1, <2>5 DEF OnResponse, MisparsedAs
  <2>6. CASE ~res.ok
    <3>1. Ends(job', job, res.why)
      BY <2>2, <2>6
    <3>2. CASE ~job.bare
      <4>1. res.why = "header" /\ ~bare
        BY <1>2, <2>5, <2>6, <3>2, Outcomes
      <4>2. Explained(job', started, log, bare)
        BY <3>1, <4>1 DEF Explained, Ends
      <4>3. JobOf(job', started, log, bare)
        BY <1>2, <3>1, <4>2 DEF JobOf, Ends
      <4> QED
        BY <2>2, <2>3, <4>3 DEF ChainInv, JobInv
    <3>3. CASE job.bare
      <4> HIDE DEF up
      <4>1. res = DecryptRecords(started[job.at], KeyName("topic", job.version), job.body,
                                 job.cut, up)
        BY <2>4, <3>3
      <4>2. \/ res.why = "kms"
            \/ /\ res.why = "key"
               /\ \E i \in 1..Len(log) : log[i].by # started \/ log[i].named # (job.version < 13)
            \/ /\ res.why \in {"format", "crash"}
               /\ job.cut \/ \E i \in 1..Len(log) : log[i].kind # "data" \/ log[i].by # started
        BY <1>1, <1>4, <2>6, <3>3, <4>1, Decrypts
      <4>3. Explained(job', started, log, bare)
        <5>1. job'.why = res.why /\ job'.cut = job.cut /\ job'.version = job.version
          BY <3>1 DEF Ends
        <5> QED
          BY <4>2, <5>1 DEF Explained
      <4>4. JobOf(job', started, log, bare)
        BY <1>2, <3>1, <4>3 DEF JobOf, Ends
      <4> QED
        BY <2>2, <2>3, <4>4 DEF ChainInv, JobInv
    <3> QED
      BY <3>2, <3>3
  <2>7. CASE res.ok
    <3>1. Passes(job', job, job.at - 1, res.val, job.mangled \/ ~job.bare, TRUE)
      BY <2>2, <2>7
    <3>2. /\ job'.mangled \in BOOLEAN /\ job'.bare \in BOOLEAN /\ job'.bare
          /\ job'.mangled => job.mangled \/ ~job.bare
          /\ ~job'.mangled => ~job.mangled /\ job.bare
      BY <3>1, Zenon DEF Passes
    <3>3. /\ IsJob(job') /\ job'.pc = "reply" /\ job'.api = "fetch"
          /\ job'.version = job.version /\ job'.cut = job.cut
          /\ job'.at = job.at - 1 /\ job'.body = res.val
      BY <1>1, <1>2, <3>1 DEF Passes
    <3>4. job'.at \in 0..n
      BY <1>3, <1>4, <3>3
    <3>5. CASE ~job.bare
      <4>1. res = Returns(<<>>)
        BY <2>5, <2>7, <3>5, Outcomes
      <4>2. Len(res.val) = 0
        BY <4>1, Outcomes
      <4>3. job'.mangled
        BY <3>2, <3>5
      <4> QED
        <5>1. Replied(job', started, log)
          BY <3>3, <3>4, <4>2, <4>3 DEF Replied
        <5>2. job'.mangled \/ ~job'.bare => ~bare
          BY <1>2, <3>2
        <5>3. JobOf(job', started, log, bare)
          BY <1>2, <3>2, <3>3, <5>1, <5>2 DEF JobOf
        <5> QED
          BY <2>2, <2>3, <5>3 DEF ChainInv, JobInv
    <3>6. CASE job.bare
      <4> HIDE DEF up
      <4>1. res = DecryptRecords(started[job.at], KeyName("topic", job.version), job.body,
                                 job.cut, up)
        BY <2>4, <3>6
      <4>2. /\ job.mangled => Len(res.val) = 0
            /\ ~job.mangled =>
                 /\ Len(res.val) = Len(log)
                 /\ \A i \in 1..Len(log) : PeeledBatch(res.val[i], log[i], started, job.at - 1)
        BY <1>1, <1>4, <2>7, <3>6, <4>1, Decrypts
      <4>3. job'.mangled => job.mangled
        BY <3>2, <3>6
      <4>4. Replied(job', started, log)
        BY <3>2, <3>3, <3>4, <4>2, <4>3 DEF Replied, PeeledBatch
      <4>5. job'.mangled \/ ~job'.bare => ~bare
        BY <1>2, <3>2
      <4>6. JobOf(job', started, log, bare)
        BY <1>2, <3>2, <3>3, <4>4, <4>5 DEF JobOf
      <4> QED
        BY <2>2, <2>3, <4>6 DEF ChainInv, JobInv
    <3> QED
      BY <1>2, <3>5, <3>6
  <2> QED
    BY <2>6, <2>7
<1> QED
  BY <1>6, <1>7

-----------------------------------------------------------------------------
LEMMA ChainStep == ASSUME ChainInv, [ChainNext]_vars PROVE ChainInv'
<1>1. ASSUME UNCHANGED vars PROVE ChainInv'
  BY <1>1 DEF vars, env, ChainInv, EnvInv, LogInv, JobInv
<1>2. ASSUME ChainNext PROVE ChainInv'
  BY <1>2, ProduceStep, FetchStep, RequestFilterStep, ResponseFilterStep, WriteRequestStep,
     WriteReplyStep, NextRequestStep, CommitTxnStep, PluginDiesStep, KmsChangesStep, RestartStep
     DEF ChainNext
<1> QED
  BY <1>1, <1>2

-----------------------------------------------------------------------------
(* Whether a Produce request is answered: the reader of the acks.          *)
Byte == 0..255

LEMMA DivMod256 ==
  ASSUME NEW u \in Nat, u < 65536
  PROVE  /\ u \div 256 \in Byte /\ u % 256 \in Byte
         /\ 256 * (u \div 256) + (u % 256) = u
BY SMT DEF Byte

LEMMA Int16RoundTrip ==
  ASSUME NEW i \in Int, -1 <= i, i <= 32767
  PROVE  /\ Int16Bytes(i) \in Seq(Byte) /\ Len(Int16Bytes(i)) = 2
         /\ Int16Of(Int16Bytes(i)[1], Int16Bytes(i)[2]) = i
<1> DEFINE u == IF i < 0 THEN i + 65536 ELSE i
<1>1. u \in Nat /\ u < 65536
  BY SMT
<1>2. Int16Bytes(i) = <<u \div 256, u % 256>>
  BY DEF Int16Bytes
<1>3. (IF u < 32768 THEN u ELSE u - 65536) = i
  BY SMT
<1> HIDE DEF u
<1>4. /\ u \div 256 \in Byte /\ u % 256 \in Byte
      /\ 256 * (u \div 256) + (u % 256) = u
  BY <1>1, DivMod256
<1>5. Int16Of(u \div 256, u % 256) = i
  BY <1>3, <1>4 DEF Int16Of
<1> QED
  BY <1>2, <1>4, <1>5

LEMMA CharsAre ==
  ASSUME NEW n \in Int, -1 <= n
  PROVE  /\ Chars(n) \in Seq(Byte)
         /\ Len(Chars(n)) = IF n > 0 THEN n ELSE 0
         /\ \A i \in 1..Len(Chars(n)) : Chars(n)[i] = 97
<1>1. CASE n > 0
  <2>1. Chars(n) = [i \in 1..n |-> 97]
    BY <1>1 DEF Chars
  <2>2. n \in Nat /\ 97 \in Byte
    BY <1>1 DEF Byte
  <2>3. Chars(n) \in [1..n -> Byte]
    BY <2>1, <2>2
  <2>4. Chars(n) \in Seq(Byte) /\ Len(Chars(n)) = n
    BY <2>2, <2>3
  <2> QED BY <1>1, <2>1, <2>4
<1>2. CASE ~(n > 0)
  BY <1>2 DEF Chars
<1> QED BY <1>1, <1>2

LEMMA ConcatAt ==
  ASSUME NEW a \in Seq(Byte), NEW b \in Seq(Byte)
  PROVE  /\ a \o b \in Seq(Byte) /\ Len(a \o b) = Len(a) + Len(b)
         /\ \A i \in 1..Len(a) : (a \o b)[i] = a[i]
         /\ \A i \in 1..Len(b) : (a \o b)[Len(a) + i] = b[i]
OBVIOUS

(* Reading over what stands in front leaves what follows.                  *)
LEMMA RestOfConcat ==
  ASSUME NEW a \in Seq(Byte), NEW b \in Seq(Byte)
  PROVE  Rest(a \o b, Len(a)) = b
<1> DEFINE s == a \o b
<1>1. s \in Seq(Byte) /\ Len(s) = Len(a) + Len(b)
  OBVIOUS
<1>2. \A i \in 1..Len(b) : s[Len(a) + i] = b[i]
  OBVIOUS
<1> HIDE DEF s
<1> DEFINE r == SubSeq(s, Len(a) + 1, Len(s))
<1>3. r \in Seq(Byte) /\ Len(r) = Len(b)
  BY <1>1
<1>4. \A i \in 1..Len(b) : r[i] = s[Len(a) + i]
  BY <1>1
<1>5. r = b
  BY <1>2, <1>3, <1>4, SeqEqual
<1> QED
  BY <1>5 DEF Rest, s

LEMMA NullableStringBytesAre ==
  ASSUME NEW n \in Int, -1 <= n, n <= 32767
  PROVE  /\ NullableStringBytes(n) \in Seq(Byte)
         /\ Len(NullableStringBytes(n)) = 2 + (IF n > 0 THEN n ELSE 0)
         /\ Int16Of(NullableStringBytes(n)[1], NullableStringBytes(n)[2]) = n
<1> DEFINE a == Int16Bytes(n)
           b == Chars(n)
<1>1. a \in Seq(Byte) /\ Len(a) = 2 /\ Int16Of(a[1], a[2]) = n
  BY Int16RoundTrip
<1>2. b \in Seq(Byte) /\ Len(b) = IF n > 0 THEN n ELSE 0
  BY CharsAre
<1> HIDE DEF a, b
<1>3. /\ a \o b \in Seq(Byte) /\ Len(a \o b) = Len(a) + Len(b)
      /\ \A i \in 1..Len(a) : (a \o b)[i] = a[i]
  <2>1. a \in Seq(Byte) /\ b \in Seq(Byte) BY <1>1, <1>2
  <2> QED BY <2>1, ConcatAt
<1>4. (a \o b)[1] = a[1] /\ (a \o b)[2] = a[2]
  BY <1>1, <1>3
<1> QED
  BY <1>1, <1>2, <1>3, <1>4 DEF NullableStringBytes, a, b

(* A nullable string is read over.                                         *)
LEMMA StringIsSkipped ==
  ASSUME NEW n \in Int, -1 <= n, n <= 32767, NEW s \in Seq(Byte)
  PROVE  ReadAndDiscardNullableString(NullableStringBytes(n) \o s) = s
<1> DEFINE a == NullableStringBytes(n)
<1>1. /\ a \in Seq(Byte) /\ Len(a) = 2 + (IF n > 0 THEN n ELSE 0)
      /\ Int16Of(a[1], a[2]) = n
  BY NullableStringBytesAre
<1> HIDE DEF a
<1>2. Len(a \o s) >= 2 /\ (a \o s)[1] = a[1] /\ (a \o s)[2] = a[2]
  BY <1>1
<1>3. Rest(a \o s, Len(a)) = s
  <2>1. a \in Seq(Byte) BY <1>1
  <2> QED BY <2>1, RestOfConcat
<1>4. ReadAndDiscardNullableString(a \o s) = s
  BY <1>1, <1>2, <1>3 DEF ReadAndDiscardNullableString
<1> QED
  BY <1>4 DEF a

LEMMA AcksBytesAre ==
  ASSUME NEW k \in {-1, 0, 1}
  PROVE  /\ AcksBytes(k) \in Seq(Byte) /\ Len(AcksBytes(k)) = 10
         /\ Int16Of(AcksBytes(k)[1], AcksBytes(k)[2]) = k
         /\ AcksBytes(k)[3] = 0
         /\ (AcksBytes(k)[2] = 0) = (k = 0)
<1> DEFINE t == <<0, 0, 117, 48, 0, 0, 0, 0>>
           a == Int16Bytes(k)
<1>1. a \in Seq(Byte) /\ Len(a) = 2 /\ Int16Of(a[1], a[2]) = k
  BY Int16RoundTrip
<1>2. t \in Seq(Byte) /\ Len(t) = 8 /\ t[1] = 0
  BY DEF Byte
<1>3. (a[2] = 0) = (k = 0)
  <2>1. Int16Bytes(-1) = <<255, 255>> /\ Int16Bytes(0) = <<0, 0>> /\ Int16Bytes(1) = <<0, 1>>
    BY SMT DEF Int16Bytes
  <2> QED BY <2>1
<1> HIDE DEF a, t
<1>4. /\ a \o t \in Seq(Byte) /\ Len(a \o t) = 10
      /\ (a \o t)[1] = a[1] /\ (a \o t)[2] = a[2] /\ (a \o t)[3] = t[1]
  <2>1. /\ a \o t \in Seq(Byte) /\ Len(a \o t) = Len(a) + Len(t)
        /\ \A i \in 1..Len(a) : (a \o t)[i] = a[i]
        /\ \A i \in 1..Len(t) : (a \o t)[Len(a) + i] = t[i]
    BY <1>1, <1>2, ConcatAt
  <2>2. Len(a) = 2 /\ Len(t) = 8
    BY <1>1, <1>2
  <2>3. 1 \in 1..Len(a) /\ 2 \in 1..Len(a) /\ 1 \in 1..Len(t) /\ Len(a) + 1 = 3
    BY <2>2
  <2> QED BY <2>1, <2>2, <2>3
<1>5. AcksBytes(k) = a \o t
  BY DEF AcksBytes, a, t
<1> QED
  BY <1>1, <1>2, <1>3, <1>4, <1>5

LEMMA UvarintBytesAre ==
  ASSUME NEW u \in Nat, u <= 32768
  PROVE  /\ UvarintBytes(u) \in Seq(Byte)
         /\ Len(UvarintBytes(u)) = IF u < 128 THEN 1 ELSE IF u < 16384 THEN 2 ELSE 3
         /\ UvarintBytes(u)[1] = IF u < 128 THEN u ELSE 128 + (u % 128)
<1>1. u % 128 \in 0..127 /\ u \div 128 \in 0..256 /\ u \div 16384 \in 0..2
  BY SMT
<1>2. (u \div 128) % 128 \in 0..127
  BY <1>1, SMT
<1>3. CASE u < 128
  <2>1. UvarintBytes(u) = <<u>>
    BY <1>3 DEF UvarintBytes
  <2> QED BY <1>3, <2>1 DEF Byte
<1>4. CASE u \in 128..16383
  <2>1. UvarintBytes(u) = <<128 + (u % 128), u \div 128>>
    BY <1>4 DEF UvarintBytes
  <2>2. u \div 128 \in 0..127
    BY <1>4, SMT
  <2> HIDE <1>2
  <2> QED BY <1>1, <1>4, <2>1, <2>2 DEF Byte
<1>5. CASE u >= 16384
  <2>1. UvarintBytes(u) = <<128 + (u % 128), 128 + ((u \div 128) % 128), u \div 16384>>
    BY <1>5 DEF UvarintBytes
  <2> QED BY <1>1, <1>2, <1>5, <2>1 DEF Byte
<1> QED BY <1>3, <1>4, <1>5

(* What stands before the acks from version 9 on: a byte for the tagged    *)
(* fields of the header, the compact length and the id.                    *)
LEMMA FlexibleTxnBytesAre ==
  ASSUME NEW t \in Int, -1 <= t, t <= 32767
  PROVE  /\ FlexibleTxnBytes(t) \in Seq(Byte)
         /\ Len(FlexibleTxnBytes(t)) = 1 + Len(UvarintBytes(t + 1)) + (IF t > 0 THEN t ELSE 0)
         /\ FlexibleTxnBytes(t)[1] = 0 /\ FlexibleTxnBytes(t)[2] = UvarintBytes(t + 1)[1]
         /\ \A i \in (2 + Len(UvarintBytes(t + 1)))..Len(FlexibleTxnBytes(t)) :
              FlexibleTxnBytes(t)[i] = 97
<1> DEFINE U == UvarintBytes(t + 1)
           C == Chars(t)
           Z == <<0>>
<1>1. t + 1 \in Nat /\ t + 1 <= 32768
  OBVIOUS
<1>2. U \in Seq(Byte) /\ Len(U) \in 1..3
  BY <1>1, UvarintBytesAre
<1>3. C \in Seq(Byte) /\ Len(C) = (IF t > 0 THEN t ELSE 0) /\ \A i \in 1..Len(C) : C[i] = 97
  BY CharsAre
<1>4. Z \in Seq(Byte) /\ Len(Z) = 1 /\ Z[1] = 0
  BY DEF Byte
<1> HIDE DEF U, C, Z
<1> DEFINE ZU == Z \o U
<1>5. ZU \in Seq(Byte) /\ Len(ZU) = 1 + Len(U) /\ ZU[1] = 0 /\ ZU[2] = U[1]
  <2>1. /\ ZU \in Seq(Byte) /\ Len(ZU) = Len(Z) + Len(U)
        /\ \A i \in 1..Len(Z) : ZU[i] = Z[i]
        /\ \A i \in 1..Len(U) : ZU[Len(Z) + i] = U[i]
    <3>1. Z \in Seq(Byte) /\ U \in Seq(Byte) BY <1>2, <1>4
    <3> QED BY <3>1, ConcatAt
  <2>2. 1 \in 1..Len(Z) /\ 1 \in 1..Len(U) /\ Len(Z) + 1 = 2
    BY <1>2, <1>4
  <2> QED BY <1>4, <2>1, <2>2
<1> HIDE DEF ZU
<1> DEFINE F == ZU \o C
<1>6. /\ F \in Seq(Byte) /\ Len(F) = Len(ZU) + Len(C)
      /\ \A i \in 1..Len(ZU) : F[i] = ZU[i]
      /\ \A i \in 1..Len(C) : F[Len(ZU) + i] = C[i]
  <2>1. ZU \in Seq(Byte) /\ C \in Seq(Byte)
    BY <1>3, <1>5
  <2> QED BY <2>1, ConcatAt
<1>7. FlexibleTxnBytes(t) = F
  BY DEF FlexibleTxnBytes, F, ZU, U, C, Z
<1> HIDE DEF F
<1>8. F[1] = 0 /\ F[2] = U[1]
  BY <1>2, <1>5, <1>6
<1>9. ASSUME NEW i \in (2 + Len(U))..Len(F) PROVE F[i] = 97
  <2>1. Len(C) \in Nat /\ Len(ZU) \in Nat /\ Len(U) \in Nat
    BY <1>2, <1>3, <1>5
  <2>2. i - Len(ZU) \in 1..Len(C) /\ Len(ZU) + (i - Len(ZU)) = i
    BY <1>5, <1>6, <2>1
  <2> DEFINE j == i - Len(ZU)
  <2>3. j \in 1..Len(C) /\ Len(ZU) + j = i
    BY <2>2
  <2> HIDE DEF j
  <2>4. C[j] = 97
    BY <1>3, <2>3
  <2>5. F[Len(ZU) + j] = C[j]
    BY <1>6, <2>3
  <2> QED BY <2>3, <2>4, <2>5
<1>10. Len(F) = 1 + Len(U) + (IF t > 0 THEN t ELSE 0)
  BY <1>3, <1>5, <1>6
<1>11. F \in Seq(Byte)
  BY <1>6
<1> QED
  BY <1>7, <1>8, <1>9, <1>10, <1>11 DEF U

JudgedFrom(s, L) ==
  ReadAndDiscardProduceTxnAcks(s) = IF Int16Of(s[3 + L], s[4 + L]) = 0 THEN "none" ELSE "reply"

(* A first byte 0 and a second L: the acks are looked for L bytes on.      *)
LEMMA SkipsL ==
  ASSUME NEW s \in Seq(Byte), NEW L \in 0..255, s[1] = 0, s[2] = L, 4 + L <= Len(s)
  PROVE  JudgedFrom(s, L)
<1> DEFINE r == SubSeq(s, 3 + L, Len(s))
<1>1. Len(s) \in Nat /\ L \in Nat
  OBVIOUS
<1>2. r \in Seq(Byte) /\ Len(r) = Len(s) - L - 2
  BY <1>1
<1>3. r[1] = s[3 + L] /\ r[2] = s[4 + L]
  BY <1>1
<1>4. ReadAndDiscardNullableString(s) = r
  <2>1. Int16Of(s[1], s[2]) = L
    BY DEF Int16Of
  <2>2. ReadAndDiscardNullableString(s) = Rest(s, 2 + IF L > 0 THEN L ELSE 0)
    BY <1>1, <2>1 DEF ReadAndDiscardNullableString
  <2>3. 2 + (IF L > 0 THEN L ELSE 0) = 2 + L
    BY <1>1
  <2>4. Rest(s, 2 + L) = SubSeq(s, (2 + L) + 1, Len(s)) /\ (2 + L) + 1 = 3 + L
    BY <1>1 DEF Rest
  <2> QED BY <2>2, <2>3, <2>4
<1>5. ~(Len(r) < 2)
  BY <1>1, <1>2
<1> HIDE DEF r
<1> QED
  BY <1>3, <1>4, <1>5 DEF JudgedFrom, ReadAndDiscardProduceTxnAcks, ReadAndDiscardProduceAcks

(* From version 9 on the reader takes the byte of the tagged fields and    *)
(* the first byte of the compact length for a length.  Behind as many      *)
(* bytes it finds the acks, the second byte of the acks and a zero, or     *)
(* letters of the transactional id.                                        *)
LEMMA AcksFoundInFlexible ==
  ASSUME NEW t \in Int, -1 <= t, t <= 32767, NEW k \in {-1, 0, 1}, t >= 255 => k # 0
  PROVE  ReadAndDiscardProduceTxnAcks(FlexibleTxnBytes(t) \o AcksBytes(k))
           = IF k # 0 THEN "reply" ELSE "none"
<1> DEFINE u == t + 1
           P == FlexibleTxnBytes(t)
           U == UvarintBytes(u)
           A == AcksBytes(k)
           s == P \o A
           L == U[1]
           n == Len(P)
<1>1. u \in Nat /\ u <= 32768 /\ t = u - 1
  OBVIOUS
<1>2. /\ P \in Seq(Byte) /\ n = 1 + Len(U) + (IF t > 0 THEN t ELSE 0)
      /\ P[1] = 0 /\ P[2] = L
      /\ \A i \in (2 + Len(U))..n : P[i] = 97
  BY FlexibleTxnBytesAre
<1> HIDE DEF u
<1>3. /\ Len(U) = IF u < 128 THEN 1 ELSE IF u < 16384 THEN 2 ELSE 3
      /\ L = IF u < 128 THEN u ELSE 128 + (u % 128)
  BY <1>1, UvarintBytesAre
<1>4. /\ A \in Seq(Byte) /\ Len(A) = 10 /\ Int16Of(A[1], A[2]) = k
      /\ A[3] = 0 /\ (A[2] = 0) = (k = 0)
  BY AcksBytesAre
<1>5. u % 128 \in 0..127 /\ (u \in 128..255 => u % 128 = u - 128)
  BY <1>1, SMT
<1> HIDE DEF P, U, A, L, n
<1>6. L \in 0..255 /\ Len(U) \in 1..3 /\ n \in Nat /\ n >= 2 /\ L <= n
  BY <1>1, <1>2, <1>3, <1>5
<1>7. A \in Seq(Byte) /\ P \in Seq(Byte) /\ n = Len(P)
  BY <1>2, <1>4 DEF n
<1>8. /\ s \in Seq(Byte) /\ Len(s) = n + Len(A)
      /\ \A i \in 1..n : s[i] = P[i]
      /\ \A i \in 1..Len(A) : s[n + i] = A[i]
  BY <1>7, ConcatAt
<1> HIDE DEF s
<1>9. Len(A) = 10
  BY <1>4
<1>10. Len(s) = n + 10 /\ s[n + 1] = A[1] /\ s[n + 2] = A[2] /\ s[n + 3] = A[3]
  <2>1. 1 \in 1..Len(A) /\ 2 \in 1..Len(A) /\ 3 \in 1..Len(A)
    BY <1>9
  <2> QED BY <1>8, <1>9, <2>1
<1>11. s[1] = 0 /\ s[2] = L
  <2>1. 1 \in 1..n /\ 2 \in 1..n
    BY <1>6
  <2> QED BY <1>2, <1>8, <2>1
<1>12. JudgedFrom(s, L)
  <2>1. L \in 0..255 /\ 4 + L <= Len(s) /\ s \in Seq(Byte)
    BY <1>6, <1>8, <1>10
  <2>2. s \in Seq(Byte) /\ L \in 0..255
    BY <2>1
  <2>3. s[1] = 0 /\ s[2] = L /\ 4 + L <= Len(s)
    BY <1>11, <2>1
  <2> QED BY <2>2, <2>3, SkipsL, SMTT(60)
<1>13. (Int16Of(s[3 + L], s[4 + L]) = 0) = (k = 0)
  <2>1. CASE u = 0
    <3>1. 3 + L = n + 1 /\ 4 + L = n + 2
      BY <1>1, <1>2, <1>3, <2>1
    <3> QED BY <1>4, <1>10, <3>1
  <2>2. CASE 1 <= u /\ u <= 127
    <3>1. 3 + L = n + 2 /\ 4 + L = n + 3
      BY <1>1, <1>2, <1>3, <2>2
    <3>2. A[2] \in Byte
      <4>1. 2 \in 1..Len(A) BY <1>9
      <4> QED BY <1>7, <4>1, ElementOfSeq
    <3>3. (Int16Of(A[2], 0) = 0) = (A[2] = 0)
      BY <3>2 DEF Int16Of, Byte
    <3> QED BY <1>4, <1>10, <3>1, <3>3
  <2>3. CASE 128 <= u /\ u <= 255
    <3>1. 3 + L = n + 1 /\ 4 + L = n + 2
      BY <1>1, <1>2, <1>3, <1>5, <2>3
    <3> QED BY <1>4, <1>10, <3>1
  <2>4. CASE 256 <= u
    <3>1. 3 + L \in (2 + Len(U))..n /\ 3 + L \in 1..n /\ 4 + L \in 1..Len(s)
      BY <1>1, <1>2, <1>3, <1>5, <1>6, <1>10, <2>4
    <3>2. s[3 + L] = 97
      BY <1>2, <1>8, <3>1
    <3>3. s[4 + L] \in Byte
      BY <1>8, <3>1
    <3>4. Int16Of(97, s[4 + L]) # 0
      BY <3>3 DEF Int16Of, Byte
    <3>5. k # 0
      BY <1>1, <2>4
    <3> QED BY <3>2, <3>4, <3>5
  <2> QED BY <1>1, <2>1, <2>2, <2>3, <2>4
<1>14. ReadAndDiscardProduceTxnAcks(s) = IF k # 0 THEN "reply" ELSE "none"
  BY <1>12, <1>13 DEF JudgedFrom
<1> QED
  BY <1>14 DEF s, P, A

Judged(acks, disabled) == IF acks # 0 \/ disabled THEN "reply" ELSE "none"

(* The numbers of a request, as facts of their own.                        *)
IsAcks(k)   == k \in {-1, 0, 1}
IsBytes(s)  == s \in Seq(Byte)

LEMMA PartsAreBytes ==
  ASSUME NEW version \in Nat, NEW t, IsLengthOfString(t), NEW k, IsAcks(k)
  PROVE  IsBytes(TxnBytes(version, t)) /\ IsBytes(AcksBytes(k)) /\ IsBytes(NullableStringBytes(t))
<1>1. t \in Int /\ -1 <= t /\ t <= 32767
  BY DEF IsLengthOfString
<1>2. FlexibleTxnBytes(t) \in Seq(Byte)
  BY <1>1, FlexibleTxnBytesAre
<1>3. NullableStringBytes(t) \in Seq(Byte)
  BY <1>1, NullableStringBytesAre
<1>4. k \in {-1, 0, 1}
  BY DEF IsAcks
<1>5. AcksBytes(k) \in Seq(Byte)
  BY <1>4, AcksBytesAre
<1>6. TxnBytes(version, t) \in Seq(Byte)
  BY <1>2, <1>3 DEF TxnBytes
<1> QED
  BY <1>3, <1>5, <1>6 DEF IsBytes

LEMMA BytesJoined == ASSUME NEW a, IsBytes(a), NEW b, IsBytes(b) PROVE IsBytes(a \o b)
BY ConcatAt DEF IsBytes

LEMMA StringSkipped ==
  ASSUME NEW n, IsLengthOfString(n), NEW s, IsBytes(s)
  PROVE  ReadAndDiscardNullableString(NullableStringBytes(n) \o s) = s
<1>1. n \in Int /\ -1 <= n /\ n <= 32767 /\ s \in Seq(Byte)
  BY DEF IsLengthOfString, IsBytes
<1> QED BY <1>1, StringIsSkipped

LEMMA FourSkipped ==
  ASSUME NEW s, IsBytes(s)
  PROVE  Rest(<<0, 0, 0, 9>> \o s, 4) = s
<1> DEFINE H == <<0, 0, 0, 9>>
<1>1. H \in Seq(Byte) /\ Len(H) = 4 /\ s \in Seq(Byte)
  BY DEF Byte, IsBytes
<1> HIDE DEF H
<1>2. Rest(H \o s, Len(H)) = s
  BY <1>1, RestOfConcat
<1>3. Rest(H \o s, 4) = s
  BY <1>1, <1>2
<1> QED BY <1>3 DEF H

(* mustReply reads over the correlation id and the client id.              *)
LEMMA HeaderIsSkipped ==
  ASSUME NEW version \in Nat, NEW c, IsLengthOfString(c), NEW t, IsLengthOfString(t), NEW k, IsAcks(k)
  PROVE  ReadAndDiscardHeaderV1Part(ProduceBytes(version, c, t, k))
           = TxnBytes(version, t) \o AcksBytes(k)
<1> DEFINE N == NullableStringBytes(c)
           B == TxnBytes(version, t) \o AcksBytes(k)
<1>1. IsBytes(N) /\ IsBytes(B)
  BY PartsAreBytes, BytesJoined
<1>2. ReadAndDiscardNullableString(N \o B) = B
  BY <1>1, StringSkipped
<1>3. ProduceBytes(version, c, t, k) = <<0, 0, 0, 9>> \o (N \o B)
  BY DEF ProduceBytes
<1>4. Rest(<<0, 0, 0, 9>> \o (N \o B), 4) = N \o B
  BY <1>1, BytesJoined, FourSkipped
<1> QED
  BY <1>2, <1>3, <1>4, Zenon DEF ReadAndDiscardHeaderV1Part

LEMMA AcksFoundAtOnce ==
  ASSUME NEW k, IsAcks(k)
  PROVE  ReadAndDiscardProduceAcks(AcksBytes(k)) = Judged(k, FALSE)
<1>1. k \in {-1, 0, 1}
  BY DEF IsAcks
<1>2. Len(AcksBytes(k)) = 10 /\ Int16Of(AcksBytes(k)[1], AcksBytes(k)[2]) = k
  BY <1>1, AcksBytesAre
<1> QED BY <1>1, <1>2 DEF ReadAndDiscardProduceAcks, Judged

(* mustReply is right about every Produce request.                         *)
LEMMA MustReplyIsRight ==
  ASSUME NEW version \in Nat, NEW c, IsLengthOfString(c), NEW t, IsLengthOfString(t), NEW k, IsAcks(k),
         NEW d \in BOOLEAN, version >= 9 /\ t >= 255 => k # 0
  PROVE  MustReply(version, ProduceBytes(version, c, t, k), d) = Judged(k, d)
<1> DEFINE P == ProduceBytes(version, c, t, k)
           B == ReadAndDiscardHeaderV1Part(P)
           T == TxnBytes(version, t)
           A == AcksBytes(k)
<1>1. B = T \o A
  BY HeaderIsSkipped, Zenon
<1>2. IsBytes(A) /\ ReadAndDiscardProduceAcks(A) = Judged(k, FALSE)
  BY PartsAreBytes, AcksFoundAtOnce, Zenon
<1>3. CASE d
  BY <1>3 DEF MustReply, Judged
<1>4. CASE ~d /\ version < 3
  <2>1. T = <<>>
    BY <1>4 DEF TxnBytes
  <2>2. B = A
    <3> HIDE DEF A, T, B
    <3>1. A \in Seq(Byte) BY <1>2 DEF IsBytes
    <3> QED BY <1>1, <2>1, <3>1
  <2>3. version \in 0..2
    BY <1>4
  <2>4. MustReply(version, P, d) = ReadAndDiscardProduceAcks(B)
    BY <1>4, <2>3 DEF MustReply
  <2>5. Judged(k, d) = Judged(k, FALSE)
    BY <1>4
  <2> QED BY <1>2, <2>2, <2>4, <2>5
<1>5. CASE ~d /\ version >= 3
  <2>1. MustReply(version, P, d) = ReadAndDiscardProduceTxnAcks(B)
    <3>1. ~(version \in 0..2) BY <1>5
    <3> QED BY <1>5, <3>1 DEF MustReply
  <2>2. Judged(k, d) = Judged(k, FALSE)
    BY <1>5
  <2>3. CASE version \in 3..8
    <3>1. T = NullableStringBytes(t)
      BY <2>3 DEF TxnBytes
    <3>2. ReadAndDiscardNullableString(NullableStringBytes(t) \o A) = A
      BY <1>2, StringSkipped, Zenon
    <3>3. ReadAndDiscardProduceTxnAcks(B) = ReadAndDiscardProduceAcks(A)
      BY <1>1, <3>1, <3>2, Zenon DEF ReadAndDiscardProduceTxnAcks
    <3> QED BY <1>2, <2>1, <2>2, <3>3, Zenon
  <2>4. CASE version >= 9
    <3>1. T = FlexibleTxnBytes(t)
      BY <2>4 DEF TxnBytes
    <3>2. ReadAndDiscardProduceTxnAcks(FlexibleTxnBytes(t) \o A) = Judged(k, FALSE)
      <4>1. t >= 255 => k # 0 BY <2>4
      <4>2. t \in Int /\ -1 <= t /\ t <= 32767 /\ k \in {-1, 0, 1}
        BY DEF IsLengthOfString, IsAcks
      <4>3. ReadAndDiscardProduceTxnAcks(FlexibleTxnBytes(t) \o AcksBytes(k))
              = IF k # 0 THEN "reply" ELSE "none"
        BY <4>1, <4>2, AcksFoundInFlexible
      <4> QED BY <4>3, Zenon DEF Judged
    <3> QED BY <1>1, <2>1, <2>2, <3>1, <3>2, Zenon
  <2> QED BY <1>5, <2>3, <2>4
<1> QED BY <1>3, <1>4, <1>5

-----------------------------------------------------------------------------
(* The layout of records: varints and their lengths.                       *)
(* The zigzag codes of the numbers in range.                               *)
MaxCode == 2147483647
IsCode(u) == u \in Nat /\ u <= MaxCode

LEMMA PowersTable ==
  /\ Powers2[1] = 1 /\ Powers2[2] = 2 /\ Powers2[3] = 4 /\ Powers2[4] = 8 /\ Powers2[5] = 16
  /\ Powers2[6] = 32 /\ Powers2[7] = 64 /\ Powers2[8] = 128 /\ Powers2[9] = 256
  /\ Powers2[10] = 512 /\ Powers2[11] = 1024 /\ Powers2[12] = 2048 /\ Powers2[13] = 4096
  /\ Powers2[14] = 8192 /\ Powers2[15] = 16384 /\ Powers2[16] = 32768 /\ Powers2[17] = 65536
  /\ Powers2[18] = 131072 /\ Powers2[19] = 262144 /\ Powers2[20] = 524288
  /\ Powers2[21] = 1048576 /\ Powers2[22] = 2097152 /\ Powers2[23] = 4194304
  /\ Powers2[24] = 8388608 /\ Powers2[25] = 16777216 /\ Powers2[26] = 33554432
  /\ Powers2[27] = 67108864 /\ Powers2[28] = 134217728 /\ Powers2[29] = 268435456
  /\ Powers2[30] = 536870912 /\ Powers2[31] = 1073741824
BY SMT DEF Powers2

LEMMA LensTable ==
  /\ \A k \in 0..7   : UvarintLens[k + 1] = 1
  /\ \A k \in 8..14  : UvarintLens[k + 1] = 2
  /\ \A k \in 15..21 : UvarintLens[k + 1] = 3
  /\ \A k \in 22..28 : UvarintLens[k + 1] = 4
  /\ \A k \in 29..32 : UvarintLens[k + 1] = 5
BY SMT DEF UvarintLens

Powers128Are == 
  /\ Powers128[1] = 1 /\ Powers128[2] = 128 /\ Powers128[3] = 16384
  /\ Powers128[4] = 2097152 /\ Powers128[5] = 268435456
LEMMA Powers128Table == Powers128Are
BY SMT DEF Powers128, Powers128Are

HasGroups(u, n) == (n < 5 => u < Powers128[n + 1]) /\ (n > 1 => u >= Powers128[n])

LEMMA GroupsAre ==
  ASSUME NEW u \in Nat
  PROVE  Groups(u) \in 1..5 /\ HasGroups(u, Groups(u))
<1>1. \E n \in 1..5 : HasGroups(u, n)
  <2>1. CASE u < 128
    <3>1. HasGroups(u, 1) BY SMT, <2>1, Powers128Table DEF HasGroups, Powers128Are
    <3> QED BY <3>1, SMT
  <2>2. CASE 128 <= u /\ u < 16384
    <3>1. HasGroups(u, 2) BY SMT, <2>2, Powers128Table DEF HasGroups, Powers128Are
    <3> QED BY <3>1, SMT
  <2>3. CASE 16384 <= u /\ u < 2097152
    <3>1. HasGroups(u, 3) BY SMT, <2>3, Powers128Table DEF HasGroups, Powers128Are
    <3> QED BY <3>1, SMT
  <2>4. CASE 2097152 <= u /\ u < 268435456
    <3>1. HasGroups(u, 4) BY SMT, <2>4, Powers128Table DEF HasGroups, Powers128Are
    <3> QED BY <3>1, SMT
  <2>5. CASE 268435456 <= u
    <3>1. HasGroups(u, 5) BY SMT, <2>5, Powers128Table DEF HasGroups, Powers128Are
    <3> QED BY <3>1, SMT
  <2> QED BY SMT, <2>1, <2>2, <2>3, <2>4, <2>5
<1>2. Groups(u) = CHOOSE n \in 1..5 : HasGroups(u, n)
  BY Zenon DEF Groups, HasGroups
<1> QED BY <1>1, <1>2, Zenon

(* The number of groups by the size of the number.                         *)
GroupsBySize(u, n) ==
  n = IF u < 128 THEN 1 ELSE IF u < 16384 THEN 2 ELSE IF u < 2097152 THEN 3
      ELSE IF u < 268435456 THEN 4 ELSE 5
LEMMA GroupsSize ==
  ASSUME NEW u \in Nat PROVE GroupsBySize(u, Groups(u))
<1> DEFINE n == Groups(u)
<1>1. n \in 1..5 /\ HasGroups(u, n)
  BY GroupsAre, Zenon
<1> HIDE DEF n
<1>2. n = 1 \/ n = 2 \/ n = 3 \/ n = 4 \/ n = 5
  BY <1>1, SMT
<1>3. GroupsBySize(u, n)
  BY SMT, <1>1, <1>2, Powers128Table DEF GroupsBySize, HasGroups, Powers128Are
<1> QED BY <1>3, Zenon DEF n

HasBits(u, k) == (k < 31 => u < Powers2[k + 1]) /\ (k > 0 => u >= Powers2[k])

(* Every code has a length in bits.                                        *)
LEMMA SomeBits ==
  ASSUME NEW u, IsCode(u)
  PROVE  \E k \in 0..31 : HasBits(u, k)
<1>1. u \in Nat
  BY Zenon DEF IsCode
<1>2. CASE u < 1
  <2>1. HasBits(u, 0) BY SMT, <1>1, <1>2, PowersTable DEF HasBits
  <2> QED BY <2>1, SMT
<1>3. CASE 1 <= u /\ u < 2
  <2>1. HasBits(u, 1) BY SMT, <1>1, <1>3, PowersTable DEF HasBits
  <2> QED BY <2>1, SMT
<1>4. CASE 2 <= u /\ u < 4
  <2>1. HasBits(u, 2) BY SMT, <1>1, <1>4, PowersTable DEF HasBits
  <2> QED BY <2>1, SMT
<1>5. CASE 4 <= u /\ u < 8
  <2>1. HasBits(u, 3) BY SMT, <1>1, <1>5, PowersTable DEF HasBits
  <2> QED BY <2>1, SMT
<1>6. CASE 8 <= u /\ u < 16
  <2>1. HasBits(u, 4) BY SMT, <1>1, <1>6, PowersTable DEF HasBits
  <2> QED BY <2>1, SMT
<1>7. CASE 16 <= u /\ u < 32
  <2>1. HasBits(u, 5) BY SMT, <1>1, <1>7, PowersTable DEF HasBits
  <2> QED BY <2>1, SMT
<1>8. CASE 32 <= u /\ u < 64
  <2>1. HasBits(u, 6) BY SMT, <1>1, <1>8, PowersTable DEF HasBits
  <2> QED BY <2>1, SMT
<1>9. CASE 64 <= u /\ u < 128
  <2>1. HasBits(u, 7) BY SMT, <1>1, <1>9, PowersTable DEF HasBits
  <2> QED BY <2>1, SMT
<1>10. CASE 128 <= u /\ u < 256
  <2>1. HasBits(u, 8) BY SMT, <1>1, <1>10, PowersTable DEF HasBits
  <2> QED BY <2>1, SMT
<1>11. CASE 256 <= u /\ u < 512
  <2>1. HasBits(u, 9) BY SMT, <1>1, <1>11, PowersTable DEF HasBits
  <2> QED BY <2>1, SMT
<1>12. CASE 512 <= u /\ u < 1024
  <2>1. HasBits(u, 10) BY SMT, <1>1, <1>12, PowersTable DEF HasBits
  <2> QED BY <2>1, SMT
<1>13. CASE 1024 <= u /\ u < 2048
  <2>1. HasBits(u, 11) BY SMT, <1>1, <1>13, PowersTable DEF HasBits
  <2> QED BY <2>1, SMT
<1>14. CASE 2048 <= u /\ u < 4096
  <2>1. HasBits(u, 12) BY SMT, <1>1, <1>14, PowersTable DEF HasBits
  <2> QED BY <2>1, SMT
<1>15. CASE 4096 <= u /\ u < 8192
  <2>1. HasBits(u, 13) BY SMT, <1>1, <1>15, PowersTable DEF HasBits
  <2> QED BY <2>1, SMT
<1>16. CASE 8192 <= u /\ u < 16384
  <2>1. HasBits(u, 14) BY SMT, <1>1, <1>16, PowersTable DEF HasBits
  <2> QED BY <2>1, SMT
<1>17. CASE 16384 <= u /\ u < 32768
  <2>1. HasBits(u, 15) BY SMT, <1>1, <1>17, PowersTable DEF HasBits
  <2> QED BY <2>1, SMT
<1>18. CASE 32768 <= u /\ u < 65536
  <2>1. HasBits(u, 16) BY SMT, <1>1, <1>18, PowersTable DEF HasBits
  <2> QED BY <2>1, SMT
<1>19. CASE 65536 <= u /\ u < 131072
  <2>1. HasBits(u, 17) BY SMT, <1>1, <1>19, PowersTable DEF HasBits
  <2> QED BY <2>1, SMT
<1>20. CASE 131072 <= u /\ u < 262144
  <2>1. HasBits(u, 18) BY SMT, <1>1, <1>20, PowersTable DEF HasBits
  <2> QED BY <2>1, SMT
<1>21. CASE 262144 <= u /\ u < 524288
  <2>1. HasBits(u, 19) BY SMT, <1>1, <1>21, PowersTable DEF HasBits
  <2> QED BY <2>1, SMT
<1>22. CASE 524288 <= u /\ u < 1048576
  <2>1. HasBits(u, 20) BY SMT, <1>1, <1>22, PowersTable DEF HasBits
  <2> QED BY <2>1, SMT
<1>23. CASE 1048576 <= u /\ u < 2097152
  <2>1. HasBits(u, 21) BY SMT, <1>1, <1>23, PowersTable DEF HasBits
  <2> QED BY <2>1, SMT
<1>24. CASE 2097152 <= u /\ u < 4194304
  <2>1. HasBits(u, 22) BY SMT, <1>1, <1>24, PowersTable DEF HasBits
  <2> QED BY <2>1, SMT
<1>25. CASE 4194304 <= u /\ u < 8388608
  <2>1. HasBits(u, 23) BY SMT, <1>1, <1>25, PowersTable DEF HasBits
  <2> QED BY <2>1, SMT
<1>26. CASE 8388608 <= u /\ u < 16777216
  <2>1. HasBits(u, 24) BY SMT, <1>1, <1>26, PowersTable DEF HasBits
  <2> QED BY <2>1, SMT
<1>27. CASE 16777216 <= u /\ u < 33554432
  <2>1. HasBits(u, 25) BY SMT, <1>1, <1>27, PowersTable DEF HasBits
  <2> QED BY <2>1, SMT
<1>28. CASE 33554432 <= u /\ u < 67108864
  <2>1. HasBits(u, 26) BY SMT, <1>1, <1>28, PowersTable DEF HasBits
  <2> QED BY <2>1, SMT
<1>29. CASE 67108864 <= u /\ u < 134217728
  <2>1. HasBits(u, 27) BY SMT, <1>1, <1>29, PowersTable DEF HasBits
  <2> QED BY <2>1, SMT
<1>30. CASE 134217728 <= u /\ u < 268435456
  <2>1. HasBits(u, 28) BY SMT, <1>1, <1>30, PowersTable DEF HasBits
  <2> QED BY <2>1, SMT
<1>31. CASE 268435456 <= u /\ u < 536870912
  <2>1. HasBits(u, 29) BY SMT, <1>1, <1>31, PowersTable DEF HasBits
  <2> QED BY <2>1, SMT
<1>32. CASE 536870912 <= u /\ u < 1073741824
  <2>1. HasBits(u, 30) BY SMT, <1>1, <1>32, PowersTable DEF HasBits
  <2> QED BY <2>1, SMT
<1>33. CASE 1073741824 <= u
  <2>1. HasBits(u, 31) BY SMT, <1>1, <1>33, PowersTable DEF HasBits
  <2> QED BY <2>1, SMT
<1> QED
  BY SMT, <1>1, <1>2, <1>3, <1>4, <1>5, <1>6, <1>7, <1>8, <1>9, <1>10, <1>11, <1>12, <1>13, <1>14, <1>15, <1>16, <1>17, <1>18, <1>19, <1>20, <1>21, <1>22, <1>23, <1>24, <1>25, <1>26, <1>27, <1>28, <1>29, <1>30, <1>31, <1>32, <1>33

LEMMA BitsLenAre ==
  ASSUME NEW u, IsCode(u)
  PROVE  BitsLen(u) \in 0..31 /\ HasBits(u, BitsLen(u))
<1>1. BitsLen(u) = CHOOSE k \in 0..31 : HasBits(u, k)
  BY Zenon DEF BitsLen, HasBits
<1> QED BY <1>1, SomeBits, Zenon

LEMMA LargePowers ==
  /\ \A k \in 8..31  : Powers2[k] >= 128
  /\ \A k \in 15..31 : Powers2[k] >= 16384
  /\ \A k \in 22..31 : Powers2[k] >= 2097152
  /\ \A k \in 29..31 : Powers2[k] >= 268435456
BY SMT DEF Powers2
LEMMA SmallPowers ==
  /\ \A k \in 1..8  : Powers2[k] <= 128
  /\ \A k \in 1..15 : Powers2[k] <= 16384
  /\ \A k \in 1..22 : Powers2[k] <= 2097152
  /\ \A k \in 1..29 : Powers2[k] <= 268435456
BY SMT DEF Powers2

(* uvarintLens has the number of groups for the number of bits.            *)
LEMMA LensOfBits ==
  ASSUME NEW u, IsCode(u)
  PROVE  UvarintLens[BitsLen(u) + 1] = Groups(u)
<1> DEFINE k == BitsLen(u)
           n == Groups(u)
<1>1. u \in Nat
  BY Zenon DEF IsCode
<1>2. k \in 0..31 /\ HasBits(u, k)
  BY BitsLenAre, Zenon
<1>3. GroupsBySize(u, n)
  BY <1>1, GroupsSize, Zenon
<1> SUFFICES UvarintLens[k + 1] = n
  BY Zenon
<1> HIDE DEF k, n
<1>4. k \in 0..31 /\ (k < 31 => u < Powers2[k + 1]) /\ (k > 0 => u >= Powers2[k])
  BY <1>2, Zenon DEF HasBits
<1>5. k \in 0..31 /\ (k < 31 => Powers2[k + 1] \in Nat) /\ (k > 0 => Powers2[k] \in Nat)
  BY SMT, <1>2 DEF Powers2
<1>6. CASE k \in 0..7
  <2>1. k + 1 \in 1..8 /\ k < 31 BY <1>6, SMT
  <2>2. u < 128
    BY SMT, <1>1, <1>4, <1>5, <2>1, SmallPowers
  <2> QED BY SMT, <1>3, <1>6, <2>2, LensTable DEF GroupsBySize
<1>7. CASE k \in 8..14
  <2>1. k + 1 \in 1..15 /\ k < 31 /\ k > 0 /\ k \in 8..31 BY <1>7, SMT
  <2>2. u < 16384 /\ u >= 128
    BY SMT, <1>1, <1>4, <1>5, <2>1, SmallPowers, LargePowers
  <2> QED BY SMT, <1>1, <1>3, <1>7, <2>2, LensTable DEF GroupsBySize
<1>8. CASE k \in 15..21
  <2>1. k + 1 \in 1..22 /\ k < 31 /\ k > 0 /\ k \in 15..31 BY <1>8, SMT
  <2>2. u < 2097152 /\ u >= 16384
    BY SMT, <1>1, <1>4, <1>5, <2>1, SmallPowers, LargePowers
  <2> QED BY SMT, <1>1, <1>3, <1>8, <2>2, LensTable DEF GroupsBySize
<1>9. CASE k \in 22..28
  <2>1. k + 1 \in 1..29 /\ k < 31 /\ k > 0 /\ k \in 22..31 BY <1>9, SMT
  <2>2. u < 268435456 /\ u >= 2097152
    BY SMT, <1>1, <1>4, <1>5, <2>1, SmallPowers, LargePowers
  <2> QED BY SMT, <1>1, <1>3, <1>9, <2>2, LensTable DEF GroupsBySize
<1>10. CASE k \in 29..31
  <2>1. k > 0 BY <1>10, SMT
  <2>2. u >= 268435456
    BY SMT, <1>1, <1>4, <1>5, <1>10, <2>1, LargePowers
  <2> QED BY SMT, <1>1, <1>3, <1>10, <2>2, LensTable DEF GroupsBySize
<1> QED BY SMT, <1>4, <1>6, <1>7, <1>8, <1>9, <1>10

-----------------------------------------------------------------------------
(* Digits to base 128: what is left after each.                            *)
LEMMA Digits ==
  ASSUME NEW u \in Nat
  PROVE  /\ u \div 128 \in Nat /\ u % 128 \in 0..127 /\ u = 128 * (u \div 128) + (u % 128)
BY SMT

LEMMA DivTwice ==
  ASSUME NEW u \in Nat
  PROVE  /\ u \div 1 = u
         /\ u \div 16384 = (u \div 128) \div 128
         /\ u \div 2097152 = (u \div 16384) \div 128
         /\ u \div 268435456 = (u \div 2097152) \div 128
<1>1. u \div 1 = u
  BY SMT
<1>2. u \div 16384 = (u \div 128) \div 128
  BY SMT
<1>3. u \div 2097152 = (u \div 16384) \div 128
  BY SMT
<1>4. u \div 268435456 = (u \div 2097152) \div 128
  BY SMT
<1> QED BY <1>1, <1>2, <1>3, <1>4, SMT

Digit(u, i) == (u \div Powers128[i]) % 128
Part(u, i, n) == IF i <= n THEN Digit(u, i) * Powers128[i] ELSE 0

(* The groups of a number make up the number.                              *)
LEMMA GroupsMakeUp ==
  ASSUME NEW u, IsCode(u), NEW n, GroupsBySize(u, n)
  PROVE  Part(u, 1, n) + Part(u, 2, n) + Part(u, 3, n) + Part(u, 4, n) + Part(u, 5, n) = u
<1>1. u \in Nat /\ u <= MaxCode
  BY Zenon DEF IsCode
<1> DEFINE q1 == u \div 128
           q2 == u \div 16384
           q3 == u \div 2097152
           q4 == u \div 268435456
<1>2. q1 \in Nat /\ u % 128 \in 0..127 /\ u = 128 * q1 + (u % 128)
  BY SMT, <1>1, Digits
<1>3. q2 = q1 \div 128 /\ q3 = q2 \div 128 /\ q4 = q3 \div 128
  BY SMT, <1>1, DivTwice
<1>4. /\ Part(u, 1, n) = IF 1 <= n THEN (u % 128) ELSE 0
      /\ Part(u, 2, n) = IF 2 <= n THEN 128 * (q1 % 128) ELSE 0
      /\ Part(u, 3, n) = IF 3 <= n THEN 16384 * (q2 % 128) ELSE 0
      /\ Part(u, 4, n) = IF 4 <= n THEN 2097152 * (q3 % 128) ELSE 0
      /\ Part(u, 5, n) = IF 5 <= n THEN 268435456 * (q4 % 128) ELSE 0
  <2>1. u \div 1 = u
    BY SMT, <1>1, DivTwice
  <2> QED
    BY SMT, <1>1, <2>1, Powers128Table DEF Part, Digit, Powers128Are
<1> HIDE DEF q1, q2, q3, q4
<1>5. q2 \in Nat /\ q1 % 128 \in 0..127 /\ q1 = 128 * q2 + (q1 % 128)
  BY SMT, <1>2, <1>3, Digits
<1>6. q3 \in Nat /\ q2 % 128 \in 0..127 /\ q2 = 128 * q3 + (q2 % 128)
  BY SMT, <1>3, <1>5, Digits
<1>7. q4 \in Nat /\ q3 % 128 \in 0..127 /\ q3 = 128 * q4 + (q3 % 128)
  <2>1. q3 \in Nat /\ q4 = q3 \div 128
    BY SMT, <1>3, <1>6
  <2> QED BY SMT, <2>1, Digits
<1>8. q4 < 128
  BY SMT, <1>1, <1>2, <1>5, <1>6, <1>7 DEF MaxCode
<1>9. q4 % 128 = q4
  BY SMT, <1>7, <1>8
<1> DEFINE r0 == u % 128
           r1 == q1 % 128
           r2 == q2 % 128
           r3 == q3 % 128
<1>10. /\ r0 \in Nat /\ r1 \in Nat /\ r2 \in Nat /\ r3 \in Nat
       /\ u = 128 * q1 + r0 /\ q1 = 128 * q2 + r1 /\ q2 = 128 * q3 + r2 /\ q3 = 128 * q4 + r3
  BY SMT, <1>2, <1>5, <1>6, <1>7
<1>11. /\ Part(u, 1, n) = IF 1 <= n THEN r0 ELSE 0
       /\ Part(u, 2, n) = IF 2 <= n THEN 128 * r1 ELSE 0
       /\ Part(u, 3, n) = IF 3 <= n THEN 16384 * r2 ELSE 0
       /\ Part(u, 4, n) = IF 4 <= n THEN 2097152 * r3 ELSE 0
       /\ Part(u, 5, n) = IF 5 <= n THEN 268435456 * q4 ELSE 0
  BY SMT, <1>4, <1>9
<1> HIDE DEF r0, r1, r2, r3
<1>12. q1 \in Nat /\ q2 \in Nat /\ q3 \in Nat /\ q4 \in Nat
  BY SMT, <1>2, <1>5, <1>6, <1>7
<1> QED
  BY SMT, <1>1, <1>10, <1>11, <1>12 DEF GroupsBySize

(* The bytes of a number: all but the last have the highest bit.           *)
LEMMA AppendedBytes ==
  ASSUME NEW u, IsCode(u)
  PROVE  /\ Len(AppendUvarint(u)) = Groups(u)
         /\ \A i \in 1..Groups(u) :
              /\ AppendUvarint(u)[i] % 128 = Digit(u, i)
              /\ (AppendUvarint(u)[i] < 128) = (i = Groups(u))
<1> DEFINE n == Groups(u)
           f == AppendUvarint(u)
           d(i) == Digit(u, i)
<1>1. u \in Nat
  BY Zenon DEF IsCode
<1>2. n \in 1..5 /\ n \in Nat
  BY SMT, <1>1, GroupsAre
<1>3. f = [i \in 1..n |-> d(i) + (IF i < n THEN 128 ELSE 0)]
  BY Zenon DEF AppendUvarint, Digit
<1>4. \A i \in 1..5 : d(i) \in 0..127
  <2> SUFFICES ASSUME NEW i \in 1..5 PROVE Digit(u, i) \in 0..127
    BY Zenon
  <2>1. i = 1 \/ i = 2 \/ i = 3 \/ i = 4 \/ i = 5
    BY SMT
  <2>2. Powers128[i] \in Nat /\ Powers128[i] > 0
    BY SMT, <2>1, Powers128Table DEF Powers128Are
  <2>3. u \div Powers128[i] \in Nat
    BY SMT, <1>1, <2>1, Powers128Table DEF Powers128Are
  <2> QED BY SMT, <2>3, Digits DEF Digit
<1> HIDE DEF n, d
<1>5. Len(f) = n
  <2>1. DOMAIN f = 1..n /\ f = [i \in 1..n |-> f[i]]
    BY <1>3, Zenon
  <2> QED BY <1>2, <2>1, ListLen, Zenon
<1>6. \A i \in 1..n : f[i] = d(i) + (IF i < n THEN 128 ELSE 0)
  BY <1>3, Zenon
<1> HIDE DEF f
<1>7. ASSUME NEW i \in 1..n PROVE f[i] % 128 = d(i) /\ (f[i] < 128) = (i = n)
  <2> DEFINE y == d(i)
  <2>1. i \in 1..5 /\ y \in 0..127
    BY SMT, <1>2, <1>4
  <2>2. f[i] = y + (IF i < n THEN 128 ELSE 0)
    BY <1>6, Zenon
  <2> HIDE DEF y
  <2>3. f[i] % 128 = y /\ (f[i] < 128) = (i = n)
    BY SMT, <1>2, <2>1, <2>2
  <2> QED BY <2>3, Zenon DEF y
<1> QED BY <1>5, <1>7, Zenon DEF n, f, d

(* uvarintDecode reads back what was appended.                             *)
LEMMA DecodesUvarint ==
  ASSUME NEW u, IsCode(u)
  PROVE  UvarintDecode(AppendUvarint(u)) = <<u, Groups(u)>>
<1> DEFINE n == Groups(u)
           f == AppendUvarint(u)
<1>1. u \in Nat
  BY Zenon DEF IsCode
<1>2. n \in 1..5 /\ GroupsBySize(u, n)
  BY <1>1, GroupsAre, GroupsSize, Zenon
<1>3. Len(f) = n /\ \A i \in 1..n : f[i] % 128 = Digit(u, i) /\ (f[i] < 128) = (i = n)
  BY AppendedBytes, Zenon
<1> SUFFICES UvarintDecode(f) = <<u, n>>
  BY Zenon
<1> HIDE DEF n, f
<1>4. {i \in 1..Len(f) : f[i] < 128} = {n}
  BY SMT, <1>2, <1>3
<1>5. Min({n}) = n
  BY SMT, <1>2 DEF Min
<1>6. UvarintEnd(f) = n
  BY <1>4, <1>5, Zenon DEF SelectInSeq, UvarintEnd
<1> DEFINE G(i) == GroupAt(f, i)
<1>7. UvarintDecode(f) = <<G(1) + G(2) + G(3) + G(4) + G(5), n>>
  BY <1>2, <1>6, Zenon DEF UvarintDecode
<1>8. ASSUME NEW i \in 1..5 PROVE G(i) = Part(u, i, n)
  BY SMT, <1>2, <1>3, <1>6 DEF Part, GroupAt
<1>9. G(1) + G(2) + G(3) + G(4) + G(5) = u
  <2>1. Part(u, 1, n) + Part(u, 2, n) + Part(u, 3, n) + Part(u, 4, n) + Part(u, 5, n) = u
    BY <1>2, GroupsMakeUp, Zenon
  <2> HIDE DEF G
  <2>2. /\ G(1) = Part(u, 1, n) /\ G(2) = Part(u, 2, n) /\ G(3) = Part(u, 3, n)
        /\ G(4) = Part(u, 4, n) /\ G(5) = Part(u, 5, n)
    BY SMT, <1>8
  <2> QED BY SMT, <2>1, <2>2
<1> QED BY <1>7, <1>9, Zenon

-----------------------------------------------------------------------------
LEMMA ZigzagIsCode ==
  ASSUME NEW i, InRange(i)
  PROVE  IsCode(Zigzag(i))
BY SMT DEF InRange, MaxVarint, MaxCode, IsCode, Zigzag

(* calculateRecordLength takes a number for as long as it is.              *)
LEMMA VarintLenIsRight ==
  ASSUME NEW i, InRange(i)
  PROVE  VarintLen(i) = VarintBytes(i)
<1>1. IsCode(Zigzag(i))
  BY ZigzagIsCode, Zenon
<1>2. UvarintLens[BitsLen(Zigzag(i)) + 1] = Groups(Zigzag(i))
  BY <1>1, LensOfBits, Zenon
<1>3. Len(AppendUvarint(Zigzag(i))) = Groups(Zigzag(i))
  BY <1>1, AppendedBytes, Zenon
<1> QED BY <1>2, <1>3, Zenon DEF VarintLen, VarintBytes

LEMMA VarintBytesLenIsRight ==
  ASSUME NEW n, IsLengthOfBytes(n)
  PROVE  VarintBytesLen(n) = BytesBytes(n)
<1>0. InRange(n) /\ -1 <= n
  BY Zenon DEF IsLengthOfBytes
<1>1. VarintLen(n) = VarintBytes(n)
  BY <1>0, VarintLenIsRight, Zenon
<1>2. n \in Int /\ VarintBytes(n) \in Nat
  <2>1. IsCode(Zigzag(n)) BY <1>0, ZigzagIsCode, Zenon
  <2>2. Zigzag(n) \in Nat BY <2>1, Zenon DEF IsCode
  <2>3. Groups(Zigzag(n)) \in 1..5
    BY <2>2, GroupsAre, Zenon
  <2>4. VarintBytes(n) = Groups(Zigzag(n))
    BY <2>1, AppendedBytes, Zenon DEF VarintBytes
  <2>5. VarintBytes(n) \in Nat
    BY SMT, <2>3, <2>4
  <2> QED BY <1>0, <2>5, Zenon DEF InRange
<1> QED
  BY SMT, <1>0, <1>1, <1>2 DEF VarintBytesLen, BytesBytes

(* The decoder gives back a length of a record and where it ends.          *)
LEMMA RecordEndIsRight ==
  ASSUME NEW i \in Nat, i <= MaxVarint
  PROVE  RecordEnd(AppendUvarint(Zigzag(i))) = Len(AppendUvarint(Zigzag(i))) + i
<1> DEFINE u == Zigzag(i)
           f == AppendUvarint(u)
<1>1. InRange(i) /\ u = 2 * i
  BY SMT DEF InRange, MaxVarint, Zigzag
<1>2. IsCode(u)
  BY <1>1, ZigzagIsCode, Zenon
<1>3. u \in Nat
  BY <1>2, Zenon DEF IsCode
<1>4. UvarintDecode(f) = <<u, Groups(u)>> /\ Len(f) = Groups(u)
  BY <1>2, DecodesUvarint, AppendedBytes, Zenon
<1>5. Groups(u) \in Nat
  BY SMT, <1>3, GroupsAre
<1> SUFFICES RecordEnd(f) = Len(f) + i
  BY Zenon
<1> DEFINE n == Groups(u)
<1> HIDE DEF u, f, n
<1>6. UvarintDecode(f)[1] = u /\ UvarintDecode(f)[2] = n
  BY <1>4, SMT DEF n
<1>7. u % 2 = 0 /\ u \div 2 = i
  BY SMT, <1>1
<1>8. VarintDecode(f) = <<i, n>>
  BY <1>6, <1>7, SMT DEF VarintDecode
<1>9. RecordEnd(f) = i + n
  BY <1>8, SMT DEF RecordEnd
<1> QED BY <1>4, <1>5, <1>9, SMT DEF n

(* What calculateRecordLength adds up is what the record takes.            *)
LEMMA CalculatedIsRight ==
  ASSUME NEW r, IsRecord(r)
  PROVE  CalculateRecordLength(r) = RecordBytes(r)
<1> DEFINE h == [i \in 1..Len(r.headers) |->
                   VarintBytesLen(r.headers[i].key) + VarintBytesLen(r.headers[i].value)]
           g == [i \in 1..Len(r.headers) |->
                   BytesBytes(r.headers[i].key) + BytesBytes(r.headers[i].value)]
<1>1. /\ VarintLen(r.timestampDelta) = VarintBytes(r.timestampDelta)
      /\ VarintLen(r.offsetDelta) = VarintBytes(r.offsetDelta)
      /\ VarintLen(Len(r.headers)) = VarintBytes(Len(r.headers))
  BY VarintLenIsRight, Zenon DEF IsRecord, IsLengthOfBytes
<1>2. VarintBytesLen(r.key) = BytesBytes(r.key) /\ VarintBytesLen(r.value) = BytesBytes(r.value)
  BY VarintBytesLenIsRight, Zenon DEF IsRecord
<1>3. \A i \in 1..Len(r.headers) :
        VarintBytesLen(r.headers[i].key) + VarintBytesLen(r.headers[i].value)
          = BytesBytes(r.headers[i].key) + BytesBytes(r.headers[i].value)
  <2> TAKE i \in 1..Len(r.headers)
  <2>1. IsLengthOfBytes(r.headers[i].key) /\ IsLengthOfBytes(r.headers[i].value)
    BY Zenon DEF IsRecord
  <2>2. VarintBytesLen(r.headers[i].key) = BytesBytes(r.headers[i].key)
    BY <2>1, VarintBytesLenIsRight, Zenon
  <2>3. VarintBytesLen(r.headers[i].value) = BytesBytes(r.headers[i].value)
    BY <2>1, VarintBytesLenIsRight, Zenon
  <2> QED BY <2>2, <2>3, Zenon
<1>4. h = g
  BY <1>3, Zenon
<1> HIDE DEF h, g
<1>5. SumOf(h) = SumOf(g)
  BY <1>4, Zenon
<1> QED
  BY <1>1, <1>2, <1>5, Zenon DEF CalculateRecordLength, RecordBytes, h, g

-----------------------------------------------------------------------------
(* The jobs DataPath adds.  A reply with addresses on its way, or what has *)
(* become of it: no filter changes it.                                     *)
ReplyFields == Fields \cup {"case"}
PassedOn(j) ==
  CASE j.why = ""        -> Rewrite(j.case).ok /\ j.body = Rewrite(j.case).val
    [] j.why = "refused" -> ~Rewrite(j.case).ok
    [] OTHER             -> j.why = "plugin"
Forwarded(j, c) ==
  /\ DOMAIN j = ReplyFields /\ j = [x \in ReplyFields |-> j[x]]
  /\ j.api = "addresses" /\ j.mangled = FALSE
  /\ \/ /\ j.pc = "reply" /\ j.at \in 0..Len(c) /\ j.why = ""
        /\ Rewrite(j.case).ok /\ j.body = Rewrite(j.case).val
     \/ j.pc = "done" /\ PassedOn(j)

AcksJob(j) ==
  /\ j.pc = "done" /\ j.api = "acks" /\ j.case \in AcksCases
  /\ j.mustReply = MustReply(j.case.version,
                             ProduceBytes(j.case.version, j.case.clientID, j.case.txnID, j.case.acks),
                             j.case.acks0Disabled)
RecordJob(j) ==
  /\ j.pc = "done" /\ j.api = "record" /\ j.case \in RecordCases
  /\ j.length = CalculateRecordLength(j.case)

OtherJob(j, c) == Forwarded(j, c) \/ AcksJob(j) \/ RecordJob(j)

(* The inductive invariant of the data path: the one of the chain, or one  *)
(* of these jobs is followed.                                              *)
DataInv == EnvInv /\ LogInv /\ (JobInv \/ OtherJob(job, started))

LEMMA OtherFacts ==
  ASSUME NEW c, OtherJob(job, c)
  PROVE  /\ job.pc \in {"reply", "done"} /\ job.api \in {"addresses", "acks", "record"}
         /\ job.pc = "reply" => Forwarded(job, c)
         /\ job.api = "addresses" => Forwarded(job, c)
         /\ job.api = "acks" => AcksJob(job)
         /\ job.api = "record" => RecordJob(job)
BY DEF OtherJob, Forwarded, AcksJob, RecordJob

(* A job of the chain is none of these, and the other way round.           *)
LEMMA ChainApis ==
  ASSUME JobInv PROVE job.api \in {"none", "produce", "fetch"}
<1>1. NoJob.api = "none"
  BY DEF NoJob
<1> QED BY <1>1 DEF JobInv, JobOf

-----------------------------------------------------------------------------
LEMMA BootstrapStep == ASSUME DataInv, Bootstrap PROVE DataInv'
<1>1. EnvInv' /\ LogInv' /\ started' = started
  BY DEF DataInv, Bootstrap, env, EnvInv, LogInv
<1>2. PICK r \in ReplyCases :
        job' = [pc |-> IF Rewrite(r).ok THEN "reply" ELSE "done", api |-> "addresses",
                version |-> r.version, at |-> Len(started), cut |-> FALSE,
                body |-> IF Rewrite(r).ok THEN Rewrite(r).val ELSE <<>>, bare |-> bare,
                mangled |-> FALSE, why |-> IF Rewrite(r).ok THEN "" ELSE "refused", case |-> r]
  BY DEF Bootstrap
<1>3. /\ DOMAIN job' = ReplyFields /\ job' = [x \in ReplyFields |-> job'[x]]
      /\ job'.api = "addresses" /\ job'.mangled = FALSE
      /\ job'.at = Len(started) /\ job'.case = r
      /\ job'.pc = IF Rewrite(r).ok THEN "reply" ELSE "done"
      /\ job'.why = IF Rewrite(r).ok THEN "" ELSE "refused"
      /\ job'.body = IF Rewrite(r).ok THEN Rewrite(r).val ELSE <<>>
  BY <1>2 DEF ReplyFields, Fields
<1>4. Len(started) \in 0..Len(started)
  <2>1. Len(started) \in Nat
    BY ChainFacts DEF DataInv, EnvInv
  <2> QED BY <2>1
<1>5. Forwarded(job', started)
  BY <1>3, <1>4 DEF Forwarded, PassedOn
<1> QED
  BY <1>1, <1>5 DEF DataInv, OtherJob

LEMMA JudgeAcksStep == ASSUME DataInv, JudgeAcks PROVE DataInv'
<1>1. EnvInv' /\ LogInv'
  BY DEF DataInv, JudgeAcks, env, EnvInv, LogInv
<1> DEFINE M(a) == MustReply(a.version, ProduceBytes(a.version, a.clientID, a.txnID, a.acks),
                            a.acks0Disabled)
<1>2. AcksJob(job')
  <2>1. PICK a \in AcksCases :
          job' = [pc |-> "done", api |-> "acks", case |-> a, why |-> "", mustReply |-> M(a)]
    BY DEF JudgeAcks
  <2> HIDE DEF M
  <2>2. /\ job'.pc = "done" /\ job'.api = "acks" /\ job'.case = a /\ job'.mustReply = M(a)
    BY <2>1
  <2>3. job'.case \in AcksCases /\ job'.mustReply = M(job'.case)
    BY <2>2
  <2> QED BY <2>2, <2>3 DEF AcksJob, M
<1> QED
  BY <1>1, <1>2 DEF DataInv, OtherJob

LEMMA UpdateBatchStep == ASSUME DataInv, UpdateBatch PROVE DataInv'
<1>1. EnvInv' /\ LogInv'
  BY DEF DataInv, UpdateBatch, env, EnvInv, LogInv
<1>2. RecordJob(job')
  <2>1. PICK r \in RecordCases :
          job' = [pc |-> "done", api |-> "record", case |-> r, why |-> "",
                  length |-> CalculateRecordLength(r)]
    BY DEF UpdateBatch
  <2>2. /\ job'.pc = "done" /\ job'.api = "record" /\ job'.case = r
        /\ job'.length = CalculateRecordLength(r)
    BY <2>1
  <2> QED BY <2>2 DEF RecordJob
<1> QED
  BY <1>1, <1>2 DEF DataInv, OtherJob

(* A filter returns a reply with addresses as it is.                       *)
LEMMA OtherResponseFilterStep ==
  ASSUME DataInv, OtherJob(job, started), ApplyResponseFilter
  PROVE  DataInv'
<1> DEFINE f == started[job.at]
<1>1. job.pc = "reply" /\ job.at >= 1
  BY DEF ApplyResponseFilter
<1>2. /\ DOMAIN job = ReplyFields /\ job = [x \in ReplyFields |-> job[x]]
      /\ job.api = "addresses" /\ job.mangled = FALSE
      /\ job.at \in 0..Len(started) /\ job.why = ""
      /\ Rewrite(job.case).ok /\ job.body = Rewrite(job.case).val
  BY <1>1, OtherFacts DEF Forwarded
<1>3. Len(started) \in Nat
  BY ChainFacts DEF DataInv, EnvInv
<1>4. job.at \in 1..Len(started)
  <2>1. job.at \in 0..Len(started)
    BY <1>2
  <2> QED BY <1>1, <1>3, <2>1
<1>5. f \in Range(started)
  BY <1>4, ChainFacts DEF DataInv, EnvInv
<1>6. CASE f \in dead
  <2>1. CallFails
    BY <1>6 DEF ApplyResponseFilter, ResponseFilter
  <2>2. EnvInv' /\ LogInv' /\ started' = started
    BY <2>1 DEF DataInv, CallFails, env, EnvInv, LogInv
  <2>3. job' = [job EXCEPT !.pc = "done", !.why = "plugin"]
    BY <2>1 DEF CallFails
  <2>4. /\ DOMAIN job' = ReplyFields /\ job' = [x \in ReplyFields |-> job'[x]]
        /\ job'.pc = "done" /\ job'.why = "plugin"
        /\ job'.api = job.api /\ job'.mangled = job.mangled
    BY <1>2, <2>3 DEF ReplyFields, Fields
  <2>5. Forwarded(job', started)
    BY <1>2, <2>4 DEF Forwarded, PassedOn
  <2> QED BY <2>2, <2>5 DEF DataInv, OtherJob
<1>7. CASE f \notin dead
  <2> DEFINE res == Returns(job.body)
  <2>1. Called(f, res, job.at - 1)
    BY <1>2, <1>7 DEF ApplyResponseFilter, ResponseFilter, OnResponse
  <2>2. res.ok /\ res.val = job.body
    BY DEF Returns
  <2> HIDE DEF res
  <2>3. /\ dead' = dead
        /\ started' = started /\ kms' = kms /\ bare' = bare /\ restarts' = restarts
        /\ log' = log
    BY <2>1, <2>2 DEF Called
  <2>4. EnvInv' /\ LogInv'
    BY <2>3 DEF DataInv, EnvInv, LogInv
  <2> DEFINE m == job.mangled \/ (~job.bare /\ job.api # "addresses")
             x == job.bare \/ job.api # "addresses"
  <2>5. job' = [job EXCEPT !.at = job.at - 1, !.body = res.val, !.mangled = m, !.bare = x]
    BY <2>1, <2>2 DEF Called
  <2>6. m = FALSE
    BY <1>2, Zenon
  <2> HIDE DEF m, x
  <2>7. /\ DOMAIN job' = ReplyFields /\ job' = [y \in ReplyFields |-> job'[y]]
        /\ job'.pc = job.pc /\ job'.why = job.why /\ job'.case = job.case
        /\ job'.api = job.api /\ job'.mangled = m
        /\ job'.at = job.at - 1 /\ job'.body = job.body
    BY <1>2, <2>2, <2>5 DEF ReplyFields, Fields
  <2>8. job'.at \in 0..Len(started)
    BY <1>3, <1>4, <2>7
  <2>9. Forwarded(job', started)
    BY <1>1, <1>2, <2>6, <2>7, <2>8 DEF Forwarded
  <2> QED BY <2>3, <2>4, <2>9 DEF DataInv, OtherJob
<1> QED BY <1>6, <1>7

LEMMA OtherWriteReplyStep ==
  ASSUME DataInv, OtherJob(job, started), WriteReply
  PROVE  DataInv'
<1>1. EnvInv' /\ LogInv' /\ started' = started /\ job.pc = "reply"
  BY DEF DataInv, WriteReply, env, EnvInv, LogInv
<1>2. /\ DOMAIN job = ReplyFields /\ job = [x \in ReplyFields |-> job[x]]
      /\ job.api = "addresses" /\ job.mangled = FALSE
      /\ Rewrite(job.case).ok /\ job.body = Rewrite(job.case).val
  BY <1>1, OtherFacts DEF Forwarded
<1>3. job' = [job EXCEPT !.pc = "done", !.why = ""]
  BY <1>2 DEF WriteReply
<1>4. /\ DOMAIN job' = ReplyFields /\ job' = [x \in ReplyFields |-> job'[x]]
      /\ job'.pc = "done" /\ job'.why = "" /\ job'.case = job.case
      /\ job'.api = job.api /\ job'.mangled = job.mangled /\ job'.body = job.body
  BY <1>2, <1>3 DEF ReplyFields, Fields
<1>5. Forwarded(job', started)
  BY <1>2, <1>4 DEF Forwarded, PassedOn
<1> QED BY <1>1, <1>5 DEF DataInv, OtherJob

(* The steps of the chain while another job is followed.                   *)
LEMMA OtherStep ==
  ASSUME DataInv, OtherJob(job, started), ChainNext
  PROVE  DataInv'
<1>1. job.pc \in {"reply", "done"}
  BY OtherFacts
<1>2. CASE Produce \/ Fetch \/ CommitTxn \/ Restart \/ ApplyRequestFilter \/ WriteRequest
  BY <1>1, <1>2 DEF Produce, Fetch, CommitTxn, Restart, ApplyRequestFilter, WriteRequest, Idle
<1>3. CASE NextRequest
  BY <1>3 DEF DataInv, NextRequest, env, EnvInv, LogInv, JobInv, JobOf
<1>4. CASE PluginDies
  <2>1. EnvInv'
    BY <1>4 DEF DataInv, PluginDies, EnvInv
  <2> QED BY <1>4, <2>1 DEF DataInv, PluginDies, LogInv, JobInv
<1>5. CASE KmsChanges
  <2>1. Range(started) \subseteq Plugins
    BY ChainFacts DEF DataInv, EnvInv
  <2>2. EnvInv'
    BY <1>5, <2>1 DEF DataInv, KmsChanges, EnvInv
  <2> QED BY <1>5, <2>2 DEF DataInv, KmsChanges, LogInv, JobInv
<1> QED
  BY <1>2, <1>3, <1>4, <1>5, OtherResponseFilterStep, OtherWriteReplyStep DEF ChainNext

LEMMA DataStep == ASSUME DataInv, [Next]_vars PROVE DataInv'
<1>1. ASSUME UNCHANGED vars PROVE DataInv'
  BY <1>1 DEF vars, env, DataInv, EnvInv, LogInv, JobInv
<1>2. ASSUME ChainNext, JobInv PROVE DataInv'
  <2>1. ChainInv
    BY <1>2 DEF DataInv, ChainInv
  <2>2. ChainInv'
    BY <1>2, <2>1, ChainStep
  <2> QED BY <2>2 DEF DataInv, ChainInv
<1>3. ASSUME ChainNext, OtherJob(job, started) PROVE DataInv'
  BY <1>3, OtherStep
<1> QED
  BY <1>1, <1>2, <1>3, BootstrapStep, JudgeAcksStep, UpdateBatchStep DEF Next, DataInv

LEMMA DataInvariant == Spec => []DataInv
<1>1. Init => DataInv
  BY ChainInit DEF ChainInv, DataInv
<1>2. DataInv /\ [Next]_vars => DataInv'
  BY DataStep
<1> QED
  BY <1>1, <1>2, PTL DEF Spec

(* The chain is always a selection of the configured plugins in their      *)
(* order, only its plugins die, and no call reaches past either end of it  *)
(* (NewFilterChain, ApplyRequestFilters, ApplyResponseFilters).            *)
THEOREM ChainTypeCorrect == Spec => []TypeOK
<1>1. ASSUME DataInv PROVE TypeOK
  <2>1. Len(started) \in Nat
    BY <1>1, ChainFacts DEF DataInv, EnvInv
  <2>2. job.pc \in {"idle", "request", "reply", "done"}
    BY <1>1, JobFacts, OtherFacts DEF DataInv
  <2>3. job.pc \in {"request", "reply"} => job.at \in 0..(Len(started) + 1)
    <3>1. job.pc = "request" => job.at \in 1..(Len(started) + 1)
      BY <1>1, JobFacts, OtherFacts DEF DataInv, Requested
    <3>2. job.pc = "reply" => job.at \in 0..Len(started)
      <4>1. ASSUME JobInv, job.pc = "reply" PROVE job.at \in 0..Len(started)
        BY <4>1, JobFacts DEF Replied
      <4>2. ASSUME OtherJob(job, started), job.pc = "reply" PROVE job.at \in 0..Len(started)
        BY <4>2, OtherFacts DEF Forwarded
      <4> QED BY <1>1, <4>1, <4>2 DEF DataInv
    <3> QED
      BY <2>1, <3>1, <3>2
  <2>4. /\ Len(log) <= MaxLog
        /\ \A i \in 1..Len(log) : log[i].kind \in {"data", "gzip", "packed", "control"}
    BY <1>1, ChainAssumption DEF DataInv, LogInv, LogOf, Stored, Kinds
  <2> QED
    BY <1>1, <2>2, <2>3, <2>4 DEF TypeOK, DataInv, EnvInv
<1>2. DataInv => TypeOK
  BY <1>1
<1> QED
  BY DataInvariant, <1>2, PTL

(* Whatever plugins start, die or lose their key service, and whenever the *)
(* proxy is restarted: of what the broker stores, every value but nil has  *)
(* been encrypted by each filter of the chain that took the request, in    *)
(* the chain's order (ApplyRequestFilters, encryptRecords).                *)
THEOREM StoredEncrypted == Spec => []StoredAsEncrypted
<1>1. ASSUME DataInv PROVE StoredAsEncrypted
  <2> SUFFICES ASSUME NEW i \in 1..Len(log), log[i].kind # "control", log[i].by # <<>>
               PROVE  /\ log[i].kind = "data"
                      /\ \A j \in 1..Len(log[i].recs) :
                           log[i].recs[j].base # "nil" =>
                             [k \in 1..Len(log[i].recs[j].layers) |-> log[i].recs[j].layers[k].filter]
                               = log[i].by
    BY DEF StoredAsEncrypted
  <2> DEFINE s == log[i]
  <2>1. Stored(s)
    BY <1>1 DEF DataInv, LogInv, LogOf
  <2>2. s.kind # "control" /\ s.by # <<>>
    OBVIOUS
  <2> HIDE DEF s
  <2>3. /\ s.kind = "data" /\ s.by \in Seq(Filters)
        /\ \A j \in 1..Len(s.recs) : Sealed(s.recs[j], s.by, KeyOf(s.named))
    BY <2>1, <2>2 DEF Stored
  <2>4. ASSUME NEW fs \in Seq(Filters), NEW key, NEW v, Sealed(v, fs, key), v.base # "nil"
        PROVE  [k \in 1..Len(v.layers) |-> v.layers[k].filter] = fs
    <3> DEFINE ls == [k \in 1..Len(fs) |-> Layer(fs[k], key)]
    <3>1. v = [base |-> v.base, layers |-> ls]
      BY <2>4, ValueFacts DEF Sealed
    <3>2. v.layers = ls
      BY <3>1
    <3>3. Len(fs) \in Nat /\ DOMAIN ls = 1..Len(fs)
      OBVIOUS
    <3>4. Len(ls) = Len(fs)
      BY <3>3, ListLen
    <3>5. \A k \in 1..Len(fs) : ls[k].filter = fs[k]
      BY ValueFacts
    <3>6. fs = [k \in 1..Len(fs) |-> fs[k]]
      OBVIOUS
    <3> HIDE DEF ls
    <3>7. [k \in 1..Len(ls) |-> ls[k].filter] = [k \in 1..Len(fs) |-> fs[k]]
      BY <3>4, <3>5
    <3> QED
      BY <3>2, <3>6, <3>7
  <2>5. \A j \in 1..Len(s.recs) : s.recs[j].base # "nil" =>
          [k \in 1..Len(s.recs[j].layers) |-> s.recs[j].layers[k].filter] = s.by
    BY <2>3, <2>4
  <2> QED
    BY <2>3, <2>5 DEF s
<1>2. DataInv => StoredAsEncrypted
  BY <1>1
<1> QED
  BY DataInvariant, <1>2, PTL

(* A consumer gets exactly what was produced, or an error with one of the  *)
(* reasons the filters have: whatever happened to the plugins, their key   *)
(* services and the proxy since (ApplyResponseFilters, decryptRecords).    *)
THEOREM ConsumersGetWhatWasWritten == Spec => []RestoredOrRefused
<1>1. ASSUME DataInv PROVE RestoredOrRefused
  <2>1. ASSUME Finished("fetch") PROVE Explained(job, started, log, bare)
    <3>1. JobInv
      BY <1>1, <2>1, OtherFacts DEF DataInv, Finished
    <3> QED BY <2>1, <3>1, JobFacts DEF Finished
  <2> QED
    BY <2>1 DEF RestoredOrRefused, Explained
<1>2. DataInv => RestoredOrRefused
  BY <1>1
<1> QED
  BY DataInvariant, <1>2, PTL

(* The filters leave the replies with addresses alone: a client gets the   *)
(* reply as handleResponse has rewritten it, and gets none only when the   *)
(* rewriting failed or a plugin's process has ended.  For every codec and  *)
(* every reply: what is left of ReplyIsFaithful is about the codec.        *)
THEOREM RepliesPassUnchanged == Spec => []ReplyPassesUnchanged
<1>1. ASSUME DataInv PROVE ReplyPassesUnchanged
  <2>1. ASSUME Finished("addresses") PROVE PassedOn(job)
    <3>1. OtherJob(job, started)
      BY <1>1, <2>1, ChainApis DEF DataInv, Finished
    <3> QED BY <2>1, <3>1, OtherFacts DEF Finished, Forwarded
  <2> QED
    BY <2>1 DEF ReplyPassesUnchanged, PassedOn
<1>2. DataInv => ReplyPassesUnchanged
  BY <1>1
<1> QED
  BY DataInvariant, <1>2, PTL

(* mustReply is right about every Produce request, of any version and with *)
(* ids of any length, although from version 9 on it reads the acks from    *)
(* the wrong place (mustReply, readAndDiscardNullableString).              *)
THEOREM AnswersAreAwaited == Spec => []AcksJudgedRight
<1>1. ASSUME DataInv PROVE AcksJudgedRight
  <2>1. ASSUME Finished("acks")
        PROVE  job.mustReply = Judged(job.case.acks, job.case.acks0Disabled)
    <3> DEFINE a == job.case
    <3>1. OtherJob(job, started)
      BY <1>1, <2>1, ChainApis DEF DataInv, Finished
    <3>2. AcksJob(job)
      BY <2>1, <3>1, OtherFacts DEF Finished
    <3>3. a \in AcksCases
      BY <3>2 DEF AcksJob
    <3>4. job.mustReply = MustReply(a.version, ProduceBytes(a.version, a.clientID, a.txnID, a.acks),
                                    a.acks0Disabled)
      BY <3>2, Zenon DEF AcksJob
    <3> HIDE DEF a
    <3>5. /\ a.version \in Nat /\ IsAcks(a.acks) /\ a.acks0Disabled \in BOOLEAN
          /\ IsLengthOfString(a.clientID) /\ IsLengthOfString(a.txnID)
          /\ a.version >= 9 /\ a.txnID >= 255 => a.acks # 0
      <4>1. a.acks \in {-1, 0, 1} /\ (a.version >= 9 /\ a.txnID >= 255 => a.acks # 0)
        BY <3>3, AcksAssumption, SMT
      <4>2. /\ a.version \in Nat /\ a.acks0Disabled \in BOOLEAN
            /\ IsLengthOfString(a.clientID) /\ IsLengthOfString(a.txnID)
        BY <3>3, AcksAssumption, Zenon
      <4>3. IsAcks(a.acks)
        BY <4>1, Zenon DEF IsAcks
      <4> QED BY <4>1, <4>2, <4>3, SMT
    <3>6. MustReply(a.version, ProduceBytes(a.version, a.clientID, a.txnID, a.acks),
                    a.acks0Disabled) = Judged(a.acks, a.acks0Disabled)
      BY <3>5, MustReplyIsRight
    <3> QED BY <3>4, <3>6, Zenon DEF a
  <2> QED
    BY <2>1, Zenon DEF AcksJudgedRight, Judged
<1>2. DataInv => AcksJudgedRight
  BY <1>1
<1> QED
  BY DataInvariant, <1>2, PTL

(* Every record of less than 2^30 bytes gets in front the length it has,   *)
(* and a reader of that length ends where the record ends                  *)
(* (calculateRecordLength, uvarintLens, varintDecode).                     *)
THEOREM RecordLengthsAreRight == Spec => []RecordLengthsAgree
<1>1. ASSUME DataInv PROVE RecordLengthsAgree
  <2> SUFFICES ASSUME Finished("record")
               PROVE  LET prefix == AppendUvarint(Zigzag(job.length))
                      IN  /\ job.length = RecordBytes(job.case)
                          /\ RecordEnd(prefix) = Len(prefix) + RecordBytes(job.case)
    BY Zenon DEF RecordLengthsAgree
  <2>1. OtherJob(job, started)
    BY <1>1, ChainApis DEF DataInv, Finished
  <2>2. RecordJob(job)
    BY <2>1, OtherFacts DEF Finished
  <2>3. job.case \in RecordCases /\ job.length = CalculateRecordLength(job.case)
    BY <2>2, Zenon DEF RecordJob
  <2>4. IsRecord(job.case) /\ RecordBytes(job.case) \in Nat /\ RecordBytes(job.case) <= MaxVarint
    BY <2>3, RecordAssumption, Zenon
  <2>5. job.length = RecordBytes(job.case)
    BY <2>3, <2>4, CalculatedIsRight, Zenon
  <2>6. RecordEnd(AppendUvarint(Zigzag(RecordBytes(job.case))))
          = Len(AppendUvarint(Zigzag(RecordBytes(job.case)))) + RecordBytes(job.case)
    BY <2>4, RecordEndIsRight, Zenon
  <2> QED
    BY <2>5, <2>6, Zenon
<1>2. DataInv => RecordLengthsAgree
  BY <1>1
<1> QED
  BY DataInvariant, <1>2, PTL
=============================================================================
