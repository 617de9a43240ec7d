------------------------------- MODULE Records -------------------------------
(***************************************************************************)
(* The layout of records as the encryption filters rewrite it: varints and *)
(* the length of a record.  The reference is the encoding itself, byte by  *)
(* byte, as the library that serialises the records does it.               *)
(***************************************************************************)
EXTENDS Integers, Sequences, SequencesExt

(* Bound: numbers whose zigzag code is below 2^31.                         *)
MaxVarint == 1073741823
InRange(i) == i \in Int /\ -MaxVarint <= i /\ i <= MaxVarint

Powers2   == <<1, 2, 4, 8, 16, 32, 64, 128, 256, 512, 1024, 2048, 4096, 8192, 16384, 32768,
               65536, 131072, 262144, 524288, 1048576, 2097152, 4194304, 8388608, 16777216,
               33554432, 67108864, 134217728, 268435456, 536870912, 1073741824>>
Powers128 == <<1, 128, 16384, 2097152, 268435456>>

(* uint32(i)<<1 ^ uint32(i>>31).                                           *)
Zigzag(i) == IF i >= 0 THEN 2 * i ELSE -2 * i - 1

SumOf(lengths) == FoldLeft(LAMBDA sum, n : sum + n, 0, lengths)

-----------------------------------------------------------------------------
(* The encoding: groups of seven bits, the lowest first.                   *)
Groups(u) == CHOOSE n \in 1..5 : (n < 5 => u < Powers128[n + 1]) /\ (n > 1 => u >= Powers128[n])
AppendUvarint(u) ==
  [i \in 1..Groups(u) |-> ((u \div Powers128[i]) % 128) + (IF i < Groups(u) THEN 128 ELSE 0)]

VarintBytes(i) == Len(AppendUvarint(Zigzag(i)))
BytesBytes(n)  == VarintBytes(n) + IF n > 0 THEN n ELSE 0

(* Bytes of a record behind its length: attributes, deltas, key, value and *)
(* headers.  Byte slices are their lengths, -1 for nil.                    *)
RecordBytes(r) ==
  1 + VarintBytes(r.timestampDelta) + VarintBytes(r.offsetDelta)
    + BytesBytes(r.key) + BytesBytes(r.value) + VarintBytes(Len(r.headers))
    + SumOf([i \in 1..Len(r.headers) |->
               BytesBytes(r.headers[i].key) + BytesBytes(r.headers[i].value)])

-----------------------------------------------------------------------------
(* uvarintLens: the length of a varint by the number of its bits.          *)
\* Fault.  Eight bits to a byte.
UvarintLensOfBytes ==
  <<1, 1, 1, 1, 1, 1, 1, 1, 1, 2, 2, 2, 2, 2, 2, 2, 2, 3, 3, 3, 3, 3, 3, 3, 3, 4, 4, 4, 4, 4, 4, 4, 4>>
UvarintLens ==
  <<1, 1, 1, 1, 1, 1, 1, 1, 2, 2, 2, 2, 2, 2, 2, 3, 3, 3, 3, 3, 3, 3, 4, 4, 4, 4, 4, 4, 4, 5, 5, 5, 5>>

(* bits.Len32.                                                             *)
BitsLen(u) == CHOOSE k \in 0..31 : (k < 31 => u < Powers2[k + 1]) /\ (k > 0 => u >= Powers2[k])

VarintLen(i) == UvarintLens[BitsLen(Zigzag(i)) + 1]

VarintBytesLen(n) == IF n = -1 THEN VarintLen(-1) ELSE VarintLen(n) + n

CalculateRecordLength(r) ==
  1 + VarintLen(r.timestampDelta) + VarintLen(r.offsetDelta)
    + VarintBytesLen(r.key) + VarintBytesLen(r.value) + VarintLen(Len(r.headers))
    + SumOf([i \in 1..Len(r.headers) |->
               VarintBytesLen(r.headers[i].key) + VarintBytesLen(r.headers[i].value)])

(* uvarintDecode: the value, and the number of bytes it takes; the first   *)
(* byte without its highest bit is the last.  Not positive: no varint of   *)
(* five bytes at most.                                                     *)
UvarintEnd(bytes) == SelectInSeq(bytes, LAMBDA b : b < 128)
GroupAt(bytes, i) ==
  IF i <= UvarintEnd(bytes) THEN (bytes[i] % 128) * Powers128[i] ELSE 0
UvarintDecode(bytes) ==
  IF UvarintEnd(bytes) \in 1..5
  THEN <<GroupAt(bytes, 1) + GroupAt(bytes, 2) + GroupAt(bytes, 3) + GroupAt(bytes, 4)
           + GroupAt(bytes, 5), UvarintEnd(bytes)>>
  ELSE <<0, IF Len(bytes) > 5 THEN -5 ELSE 0>>

(* varintDecode.                                                           *)
VarintDecode(bytes) ==
  LET d == UvarintDecode(bytes)
  IN  <<IF d[1] % 2 = 0 THEN d[1] \div 2 ELSE -((d[1] + 1) \div 2), d[2]>>

(* readRecords: where the record ends, judged by the length in front.      *)
RecordEnd(bytes) == LET d == VarintDecode(bytes) IN d[1] + d[2]
=============================================================================
