------------------------------- MODULE Schema --------------------------------
(***************************************************************************)
(* The codec of the protocol package, driven by schemas.  Bytes are kept   *)
(* as cells: an integer of a given width, an unsigned varint ("uva" when   *)
(* it counts an array, "uvs" the bytes of a string), or the bytes of a     *)
(* string, each with its value.  A value is decoded only from cells of the *)
(* very layout its schema states.                                          *)
(***************************************************************************)
EXTENDS Integers, Sequences, SequencesExt

CONSTANTS
  MaxInt16,          \* longest string, and compact array, that is encoded
  MaxArrayLength,    \* longest array that is decoded (2*MaxUint16)
  MaxRequestSize     \* most bytes that are encoded

Null == "null"        \* a nullable string that is absent

(* A schema is a sequence of named fields.                                 *)
F(name, ty)     == [name |-> name, ty |-> ty]
Prim(t)         == [t |-> t]
Array(ty)       == [t |-> "array", of |-> ty]
CompactArray(ty) == [t |-> "carray", of |-> ty]
NewSchema(fs)   == [t |-> "struct", fields |-> fs]
TaggedFields    == F("tags", Prim("tags"))

Fixed   == {"bool", "int16", "int32", "uuid"}
Compact == {"cstr", "cnstr", "carray"}
Nullable == {"nstr", "cnstr", "array"}

Cell(w, v) == [w |-> w, v |-> v]
Failed     == [ok |-> FALSE]
Done(val, rest) == [ok |-> TRUE, val |-> val, rest |-> rest]

-----------------------------------------------------------------------------
(* realDecoder: a cell of the width asked for.                             *)
GetCell(w, raw) ==
  IF raw # <<>> /\ Head(raw).w = w THEN Done(Head(raw).v, Tail(raw)) ELSE Failed

(* getStringLength and getArrayLength: a string is not shorter than null,  *)
(* an array not longer than the limit.                                     *)
GetPlainLength(t, raw) ==
  LET n == GetCell(IF t = "array" THEN "i4" ELSE "i2", raw)
  IN  IF n.ok /\ (IF t = "array" THEN n.val <= MaxArrayLength ELSE n.val >= -1)
      THEN n ELSE Failed

(* getCompactLength and getCompactNullableLength: one more than the        *)
(* length, 0 for null.                                                     *)
GetCompactLength(t, raw) ==
  LET n == GetCell(IF t = "carray" THEN "uva" ELSE "uvs", raw)
  IN  IF n.ok /\ (n.val > 0 \/ t \in Nullable) THEN Done(n.val - 1, n.rest) ELSE Failed

GetLength(t, raw) ==
  IF t \in Compact THEN GetCompactLength(t, raw) ELSE GetPlainLength(t, raw)

(* The next n bytes, as one string.                                        *)
GetRawBytes(n, raw) ==
  LET s == GetCell("raw", raw) IN IF s.ok /\ Len(s.val) = n THEN s ELSE Failed

(* getString and its kin: null is "" where it is not allowed for.          *)
GetString(t, raw) ==
  LET n == GetLength(t, raw)
  IN  IF ~n.ok THEN Failed
      ELSE CASE n.val = -1 -> Done(IF t \in Nullable THEN Null ELSE "", n.rest)
             [] n.val = 0  -> Done("", n.rest)
             [] OTHER      -> GetRawBytes(n.val, n.rest)

(* SchemaTaggedFields.decode: a tag, its length and its bytes, as often as *)
(* counted.                                                                *)
GetTagged(raw) ==
  LET n == GetCell("uv", raw)
      Tag(i) == SubSeq(n.rest, 3 * i - 2, 3 * i)
  IN  IF n.ok /\ Len(n.rest) >= 3 * n.val
         /\ \A i \in 1..n.val : /\ Tag(i)[1].w = "uv" /\ Tag(i)[2].w = "uv"
                                /\ GetRawBytes(Tag(i)[2].v, <<Tag(i)[3]>>).ok
      THEN Done([i \in 1..n.val |-> <<Tag(i)[1].v, Tag(i)[3].v>>],
                SubSeq(n.rest, 3 * n.val + 1, Len(n.rest)))
      ELSE Failed

RECURSIVE DecodeAll(_, _)
(* Field by field, and element by element: the types in turn.              *)
Decode(ty, raw) ==
  CASE ty.t \in Fixed  -> GetCell(ty.t, raw)
    [] ty.t = "tags"   -> GetTagged(raw)
    [] ty.t = "struct" -> DecodeAll([i \in 1..Len(ty.fields) |-> ty.fields[i].ty], raw)
    [] ty.t \in {"array", "carray"} ->
         LET n == GetLength(ty.t, raw)
         IN  IF n.ok THEN DecodeAll([i \in 1..n.val |-> ty.of], n.rest) ELSE Failed
    [] OTHER -> GetString(ty.t, raw)
DecodeAll(tys, raw) ==
  IF tys = <<>> THEN Done(<<>>, raw)
  ELSE LET first == Decode(Head(tys), raw) IN
       IF ~first.ok THEN Failed
       ELSE LET others == DecodeAll(Tail(tys), first.rest) IN
            IF others.ok THEN Done(<<first.val>> \o others.val, others.rest) ELSE Failed

(* DecodeSchema: nothing may be left.                                      *)
DecodeSchema(raw, schema) ==
  LET d == Decode(schema, raw) IN IF d.ok /\ d.rest = <<>> THEN d ELSE Failed

-----------------------------------------------------------------------------
(* realEncoder.                                                            *)
PutLength(t, n) ==
  CASE t = "carray" -> Cell("uva", n + 1)
    [] t \in Compact \ {"carray"} -> Cell("uvs", n + 1)
    [] t = "array"   -> Cell("i4", n)
    [] OTHER         -> Cell("i2", n)

PutString(t, s) ==
  CASE s = Null -> <<PutLength(t, -1)>>
    [] s = ""   -> <<PutLength(t, 0)>>
    [] OTHER    -> <<PutLength(t, Len(s)), Cell("raw", s)>>

PutTagged(tags) ==
  <<Cell("uv", Len(tags))>>
    \o FlattenSeq([i \in 1..Len(tags) |->
         <<Cell("uv", tags[i][1]), Cell("uv", Len(tags[i][2])), Cell("raw", tags[i][2])>>])

RECURSIVE Encode(_, _)
Encode(ty, val) ==
  CASE ty.t \in Fixed  -> <<Cell(ty.t, val)>>
    [] ty.t = "tags"   -> PutTagged(val)
    [] ty.t = "struct" -> FlattenSeq([i \in 1..Len(ty.fields) |-> Encode(ty.fields[i].ty, val[i])])
    [] ty.t \in {"array", "carray"} ->
         <<PutLength(ty.t, Len(val))>> \o FlattenSeq([i \in 1..Len(val) |-> Encode(ty.of, val[i])])
    [] OTHER -> PutString(ty.t, val)

(* prepEncoder: the strings and compact arrays that are too long are       *)
(* refused, and the bytes are counted.                                     *)
PrepEncode(raw) ==
  \A i \in 1..Len(raw) :
    raw[i].w \in {"uva", "uvs", "i2"} =>
      raw[i].v - (IF raw[i].w = "i2" THEN 0 ELSE 1) <= MaxInt16

CellSize(c) ==
  CASE c.w = "bool" -> 1
    [] c.w \in {"int16", "i2"} -> 2
    [] c.w \in {"int32", "i4"} -> 4
    [] c.w = "uuid" -> 16
    [] c.w = "raw"  -> Len(c.v)
    [] OTHER        -> 1 + Cardinality({k \in 1..4 : c.v >= 128^k})
PrepLength(raw) == Cardinality(UNION {{i} \X (1..CellSize(raw[i])) : i \in 1..Len(raw)})

EncodeSchema(val, schema) ==
  LET raw == Encode(schema, val)
  IN  IF PrepEncode(raw) /\ PrepLength(raw) <= MaxRequestSize THEN Done(raw, <<>>) ELSE Failed

-----------------------------------------------------------------------------
(* Struct.Get and Replace.                                                 *)
IndexOf(schema, name) == SelectInSeq(schema.fields, LAMBDA f : f.name = name)
Has(schema, name)     == IndexOf(schema, name) # 0
Get(schema, val, name) == val[IndexOf(schema, name)]
Replace(schema, val, name, new) == [val EXCEPT ![IndexOf(schema, name)] = new]
TypeOf(schema, name)  == schema.fields[IndexOf(schema, name)].ty
=============================================================================
