-------------------------------- MODULE Wire --------------------------------
(***************************************************************************)
(* The wire format both ends of the corelib share: the constants and types *)
(* of types.rs, the ZigZag pair of varint.rs and the arithmetic of one     *)
(* varint byte.                                                            *)
(*                                                                         *)
(* Widths are parameters.  The program has 7 payload bits to a byte, fp32  *)
(* in 4 bytes and a value type of 64 (value64 on) or 32 bits (value64      *)
(* off); a small instance keeps the relations between these numbers, which *)
(* the assumptions below name, and scales the numbers down.  Values are    *)
(* naturals below 2^ValueBits, so `|` of disjoint bit fields is `+`.       *)
(***************************************************************************)
EXTENDS Integers

CONSTANTS
  PayloadBits,  \* payload bits of a varint byte (7 in the code)
  FloatBytes,   \* bytes of an fp32 payload (4); an fp64 has twice as many
  ValueBits,    \* Unsigned::BITS
  FormatMax,    \* i32::MAX, the format's ceiling on ids, counts and lengths
  MaxDepth,     \* MAX_DEPTH (255)
  Features,     \* the cargo features of the build, value64 being ValueBits
  Target32      \* whether the target's pointers, and its shifts, have 32 bits

ByteBits == PayloadBits + 1
Bytes    == 0..(2^ByteBits - 1)
Unsigned == 0..(2^ValueBits - 1)
Signed   == (-(2^(ValueBits - 1)))..(2^(ValueBits - 1) - 1)

ASSUME WidthAssumption ==
  /\ PayloadBits \in Nat \ {0} /\ 8 <= 2^PayloadBits  \* a tag fits one byte
  /\ FloatBytes \in Nat \ {0}
  /\ ValueBits \in {FloatBytes * ByteBits, 2 * FloatBytes * ByteBits}
  /\ \A k \in 0..ValueBits : k * PayloadBits # ValueBits  \* 64 and 32 are no 7k
  /\ FormatMax \in Nat
  /\ MaxDepth \in Nat
  /\ Target32 \in BOOLEAN

\* Cargo.toml: fp64 implies fixlen, the other switches are independent.
ASSUME FeatureAssumption ==
  /\ Features \subseteq {"fixlen", "fp64", "array", "sequence"}
  /\ "fp64" \in Features => "fixlen" \in Features

\* Two facts of arithmetic, stated because the provers do not know `^`.
ASSUME PowerAssumption ==
  /\ \A n \in 0..(2 * ValueBits) : 2^n \in Nat \ {0}
  /\ \A m, n \in 0..(2 * ValueBits) : m + n <= 2 * ValueBits => 2^(m + n) = 2^m * 2^n

ID_MAX    == IF 2^ValueBits \div 8 - 1 < FormatMax THEN 2^ValueBits \div 8 - 1
                                                   ELSE FormatMax
ARRAY_MAX == FormatMax
Ids       == 0..ID_MAX

-----------------------------------------------------------------------------
(* Tags *)

T_VARINT_UNSIGNED      == 0
T_VARINT_SIGNED        == 1
T_FIXLEN               == 2
T_VARINTARRAY_UNSIGNED == 3
T_VARINTARRAY_SIGNED   == 4
T_FIXLENARRAY          == 5
T_SEQUENCE_START       == 6
T_SEQUENCE_END         == 7

\* The wire types a build compiles in; the decoder's `match` has no other arm.
WireTypes ==
  {T_VARINT_UNSIGNED, T_VARINT_SIGNED}
    \cup (IF "fixlen" \in Features THEN {T_FIXLEN} ELSE {})
    \cup (IF "array" \in Features
            THEN {T_VARINTARRAY_UNSIGNED, T_VARINTARRAY_SIGNED} ELSE {})
    \cup (IF {"array", "fixlen"} \subseteq Features THEN {T_FIXLENARRAY} ELSE {})
    \cup (IF "sequence" \in Features
            THEN {T_SEQUENCE_START, T_SEQUENCE_END} ELSE {})

FixlenCode  == [Fp32 |-> 0, Fp64 |-> 1, Str |-> 2, Blob |-> 3]
FixlenTypes == {"Fp32", "Str", "Blob"}
                 \cup (IF "fp64" \in Features THEN {"Fp64"} ELSE {})
ArrayKinds  == {"Unsigned", "Signed", "Fp32", "Fp64"}

\* FixlenType::from_raw: the subtypes a tag names, none or one.
from_raw(raw) == {t \in FixlenTypes : FixlenCode[t] = raw}

\* The one legal payload length of a float subtype; 0 for str and blob.
Width(t) == CASE t = "Fp32" -> FloatBytes
              [] t = "Fp64" -> 2 * FloatBytes
              [] OTHER      -> 0

-----------------------------------------------------------------------------
(* Varints *)

More(byte)    == byte \div 2^PayloadBits # 0
Payload(byte) == byte % 2^PayloadBits

\* payload << shift, in the value type.
shifted(payload, shift) == (payload * 2^shift) % 2^ValueBits

\* The same shift composed from two half-width words.  In the first case the
\* carry into the high word is shifted in two goes, because a shift by the whole
\* width of a word, which shift 0 would need, is one by nothing to a machine.
shifted_in_halves_but_carry_in_one(payload, shift) ==
  LET half == ValueBits \div 2
  IN IF shift < half
       THEN (payload \div 2^((half - shift) % half)) * 2^half
              + ((payload * 2^shift) % 2^half)
       ELSE ((payload * 2^(shift - half)) % 2^half) * 2^half

shifted_in_halves(payload, shift) ==
  LET half == ValueBits \div 2
  IN IF shift < half
       THEN ((payload \div 2) \div 2^(half - 1 - shift)) * 2^half
              + ((payload * 2^shift) % 2^half)
       ELSE ((payload * 2^(shift - half)) % 2^half) * 2^half

\* Which of the two `payload_at` is: a value64 build for a 32-bit target has the
\* second.
payload_at(payload, shift) ==
  IF Target32 /\ ValueBits = 2 * FloatBytes * ByteBits
    THEN shifted_in_halves(payload, shift) ELSE shifted(payload, shift)

\* The overlong check of Core::push.
Overlong(byte, shift) ==
  LET room == ValueBits - shift
  IN room < PayloadBits /\ (More(byte) \/ Payload(byte) \div 2^room # 0)

\* The accumulator of Core::push once it has taken the byte.
Accumulate(acc, byte, shift) == acc + payload_at(Payload(byte), shift)

\* One turn of write_varint's loop: the byte it pushes for what is left.
VarintByte(value) ==
  IF value \div 2^PayloadBits = 0 THEN value % 2^PayloadBits
                                  ELSE (value % 2^PayloadBits) + 2^PayloadBits

zigzag_encode(v) ==
  LET doubled == (2 * v) % 2^ValueBits
  IN IF v < 0 THEN 2^ValueBits - 1 - doubled ELSE doubled

zigzag_decode(u) == IF u % 2 = 0 THEN u \div 2 ELSE -(u \div 2) - 1
=============================================================================
