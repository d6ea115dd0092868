------------------------------ MODULE Encoding ------------------------------
(***************************************************************************)
(* The bytes each writer of ostream.rs produces for one field, apart from  *)
(* where they are put.  A field is a record: its id, the writer that wrote *)
(* it and the data it was given, for write_fixlen also the subtype.  Floats*)
(* are given as their bits; write_boolean is write_unsigned of 0 or 1.     *)
(*                                                                         *)
(* A definition whose name ends in _but_... is the one that follows it     *)
(* with a mistake: the properties must tell the two apart.                 *)
(***************************************************************************)
EXTENDS Wire, Sequences

\* write_varint, byte by byte until nothing of the value is left.
VarintOf[value \in Unsigned] ==
  IF value \div 2^PayloadBits = 0
    THEN <<VarintByte(value)>>
    ELSE <<VarintByte(value)>> \o VarintOf[value \div 2^PayloadBits]

Header(id, type) == VarintOf[id * 8 + type]

\* (len << 3) | subtype in the value type, whatever the length.
FixlenWordOf(len, subtype) == VarintOf[(len * 8 + FixlenCode[subtype]) % 2^ValueBits]

\* The count of an array, in the value type too.
CountOf(data) == VarintOf[Len(data) % 2^ValueBits]

LeBytes(bits, n) == [i \in 1..n |-> (bits \div 2^(ByteBits * (i - 1))) % 2^ByteBits]

\* The parts, one after the other; so the encodings of the elements of data.
Concatenated(parts) ==
  LET upto[n \in 0..Len(parts)] == IF n = 0 THEN <<>> ELSE upto[n - 1] \o parts[n]
  IN upto[Len(parts)]

Each(data, Encode(_)) == Concatenated([i \in 1..Len(data) |-> Encode(data[i])])

FixlenWriter == [write_fp32 |-> "Fp32", write_fp64 |-> "Fp64",
                 write_str  |-> "Str",  write_blob |-> "Blob"]

\* The wire type each writer puts in the field header.
TypeOf(field) ==
  CASE field.writer = "write_unsigned"        -> T_VARINT_UNSIGNED
    [] field.writer = "write_signed"          -> T_VARINT_SIGNED
    [] field.writer \in DOMAIN FixlenWriter \cup {"write_fixlen"} -> T_FIXLEN
    [] field.writer = "write_array_unsigned"  -> T_VARINTARRAY_UNSIGNED
    [] field.writer = "write_array_signed"    -> T_VARINTARRAY_SIGNED
    [] field.writer \in {"write_array_fp32", "write_array_fp64"} -> T_FIXLENARRAY

\* The bits a float of a subtype can have.
BitsOf(subtype) == 0..(2^(ByteBits * Width(subtype)) - 1)

\* What the arguments of each writer can be, by their types: the writers compiled
\* in, a write_fixlen that is not refused.
IsField(field) ==
  LET data == field.data
  IN /\ field.id \in Nat /\ TypeOf(field) \in WireTypes
     /\ \/ field.writer = "write_unsigned" /\ data \in Unsigned
        \/ field.writer = "write_signed" /\ data \in Signed
        \/ field.writer = "write_fp32" /\ data \in BitsOf("Fp32")
        \/ field.writer = "write_fp64" /\ "fp64" \in Features /\ data \in BitsOf("Fp64")
        \/ field.writer \in {"write_str", "write_blob"} /\ data \in Seq(Bytes)
        \/ /\ field.writer = "write_fixlen" /\ field.subtype \in FixlenTypes \ {"Str"}
           /\ data \in Seq(Bytes)
        \/ field.writer = "write_array_unsigned" /\ data \in Seq(Unsigned)
        \/ field.writer = "write_array_signed" /\ data \in Seq(Signed)
        \/ field.writer = "write_array_fp32" /\ data \in Seq(BitsOf("Fp32"))
        \/ /\ field.writer = "write_array_fp64" /\ "fp64" \in Features
           /\ data \in Seq(BitsOf("Fp64"))

Fixlen(data, subtype) == FixlenWordOf(Len(data), subtype) \o data

FloatArray_but_empty_without_word(data, subtype) ==
  IF data = <<>> THEN CountOf(data)
  ELSE CountOf(data) \o FixlenWordOf(Width(subtype), subtype)
         \o Each(data, LAMBDA bits : LeBytes(bits, Width(subtype)))

FloatArray(data, subtype) ==
  CountOf(data) \o FixlenWordOf(Width(subtype), subtype)
    \o Each(data, LAMBDA bits : LeBytes(bits, Width(subtype)))

\* What follows the field header.
Body(field) ==
  LET data == field.data
  IN CASE field.writer = "write_unsigned" -> VarintOf[data]
       [] field.writer = "write_signed"   -> VarintOf[zigzag_encode(data)]
       [] field.writer \in {"write_fp32", "write_fp64"} ->
            LET subtype == FixlenWriter[field.writer]
            IN Fixlen(LeBytes(data, Width(subtype)), subtype)
       [] field.writer \in {"write_str", "write_blob"} ->
            Fixlen(data, FixlenWriter[field.writer])
       [] field.writer = "write_fixlen" -> Fixlen(data, field.subtype)
       [] field.writer = "write_array_unsigned" ->
            CountOf(data) \o Each(data, LAMBDA v : VarintOf[v])
       [] field.writer = "write_array_signed" ->
            CountOf(data) \o Each(data, LAMBDA v : VarintOf[zigzag_encode(v)])
       [] field.writer = "write_array_fp32" -> FloatArray(data, "Fp32")
       [] field.writer = "write_array_fp64" -> FloatArray(data, "Fp64")

FieldBytes(field) == Header(field.id, TypeOf(field)) \o Body(field)
=============================================================================
