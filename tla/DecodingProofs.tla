--------------------------- MODULE DecodingProofs ---------------------------
(***************************************************************************)
(* Proofs about the decoder, for every width, bound and set of features:   *)
(* what holds of the machine, that it keeps the visitor contract, and that *)
(* it means what the message means, whatever the message and its cutting.  *)
(***************************************************************************)
EXTENDS Decoding, WireProofs

-----------------------------------------------------------------------------
(* The float window *)

\* Both words of the float window stay within the value type.
LEMMA FloatPushFits ==
  ASSUME acc \in Unsigned, acc_lo \in Unsigned, NEW byte \in Bytes
  PROVE  PushedHigh(byte) \in Unsigned /\ PushedLow \in Unsigned
<1> DEFINE B == 2^ByteBits
           R == 2^(ValueBits - ByteBits)
           W == 2^ValueBits
<1>1. /\ B \in Nat \ {0} /\ R \in Nat \ {0} /\ W \in Nat \ {0}
      /\ W = B * R
  <2>1. ByteBits \in 0..ValueBits /\ ValueBits \in 0..ValueBits /\ ByteBits <= ValueBits
    BY Widths
  <2> QED BY <2>1, Powers
<1>2. acc \in Nat /\ acc < W /\ acc_lo \in Nat /\ acc_lo < W /\ byte \in Nat /\ byte < B
  BY <1>1 DEF Unsigned, Bytes
<1> HIDE DEF B, R, W
<1>3. ASSUME NEW x \in Nat, x < W, NEW d \in Nat, d < B
      PROVE  (x \div B) + d * R \in 0..(W - 1)
  <2>1. x \div B \in Nat /\ x \div B < R
    <3>1. x < B * R
      BY <1>1, <1>3
    <3> QED BY <3>1, <1>1, <1>3
  <2>2. d * R \in Nat /\ d * R <= B * R - R
    <3>1. d + 1 <= B /\ (d + 1) * R = d * R + R /\ d * R \in Nat
      BY <1>1, <1>3
    <3>2. (d + 1) * R <= B * R
      BY <3>1, <1>1, <1>3
    <3> QED BY <3>1, <3>2, <1>1
  <2> QED BY <2>1, <2>2, <1>1
<1>4. acc % B \in Nat /\ acc % B < B
  BY <1>1, <1>2
<1>5. /\ (acc \div B) + byte * R \in 0..(W - 1)
      /\ (acc_lo \div B) + (acc % B) * R \in 0..(W - 1)
  BY <1>2, <1>3, <1>4
<1> QED
  BY <1>5 DEF PushedHigh, PushedLow, Unsigned, B, R, W

-----------------------------------------------------------------------------
(* The inductive invariant *)

\* The position of the next payload bits is a whole number of bytes in, so a
\* varint that goes on never reaches the last bit of the value type exactly.
ShiftAligned == \E k \in 0..ValueBits : shift = k * PayloadBits

\* The terminal state and the verdict INVALID go together.
Latched == state = "Invalid" <=> status = "InvalidMsg"

Inv == TypeOK /\ BitsBelowShift /\ CleanHigh /\ CountsMatchState /\ ShiftAligned /\ Latched

\* A new decoder is in the invariant.
LEMMA InitInv == Init => Inv
<1> SUFFICES ASSUME Init PROVE Inv
  OBVIOUS
<1>1. TypeOK
  <2>1. acc \in Unsigned /\ acc_lo \in Unsigned /\ shift \in 0..(ValueBits - 1)
    BY Widths DEF Init, Unsigned
  <2> QED
    BY <2>1, Ceilings, WidthAssumption, InputAssumption
    DEF Init, TypeOK, States, VarintStates, ArrayKinds, FixlenTypes, Ids
<1>2. BitsBelowShift
  BY PowersAdd, Widths DEF Init, BitsBelowShift
<1>3. ShiftAligned
  BY Widths DEF Init, ShiftAligned
<1> QED
  BY <1>1, <1>2, <1>3 DEF Init, Inv, CleanHigh, CountsMatchState, Latched

\* A byte that is read shortens what is left of the chunk.
LEMMA ReadsFacts ==
  ASSUME Inv, Reads
  PROVE  left' \in 0..MaxChunk /\ status' = "Feeding" /\ status = "Feeding"
BY InputAssumption DEF Inv, TypeOK, Reads

\* What a finished varint hands its handler, and leaves behind.
LEMMA EndsFacts ==
  ASSUME Inv, NEW byte \in Bytes, NEW v, Ends(byte, v)
  PROVE  v \in Unsigned /\ v \in Nat /\ acc' = 0 /\ shift' = 0
<1>1. acc \in Nat /\ shift \in 0..(ValueBits - 1) /\ acc < 2^shift
  BY Widths DEF Inv, TypeOK, BitsBelowShift, Ends, Unsigned
<1>2. Accumulate(acc, byte, shift) \in Unsigned
  BY <1>1, PushFits DEF Ends
<1> QED
  BY <1>2, Widths DEF Ends, Unsigned

\* With the accumulator and its shift at zero the parts about them hold.
LEMMA AtZero ==
  ASSUME acc' = 0, shift' = 0
  PROVE  /\ BitsBelowShift' /\ CleanHigh' /\ ShiftAligned'
         /\ acc' \in Unsigned /\ shift' \in 0..(ValueBits - 1)
<1>1. 2^0 \in Nat \ {0}
  BY PowersAdd, Widths
<1> QED
  BY <1>1, Widths DEF BitsBelowShift, CleanHigh, ShiftAligned, Unsigned

\* A byte that is read and ends its varint: what its handler has to keep.
LEMMA ReadInv ==
  ASSUME Inv, Reads, acc' = 0, shift' = 0, state' \in States \ {"Invalid"},
         array_kind' \in ArrayKinds \ {"Fp64"}, depth' \in 0..MaxDepth, id' \in Ids,
         array_remaining' \in 0..ARRAY_MAX, fixlen_type' \in FixlenTypes,
         fixlen_total' \in 0..ARRAY_MAX, fixlen_remaining' \in 0..ARRAY_MAX,
         acc_lo' \in Unsigned, CountsMatchState'
  PROVE  Inv'
<1>1. TypeOK'
  BY AtZero, ReadsFacts DEF TypeOK
<1>2. Latched'
  BY ReadsFacts DEF Latched
<1> QED
  BY <1>1, <1>2, AtZero DEF Inv

\* A malformed byte: the counters keep their types, the verdict is latched.
LEMMA RejectsInv ==
  ASSUME Inv, Rejects, acc' \in Unsigned, shift' \in 0..(ValueBits - 1), ShiftAligned',
         id' \in Ids, fixlen_type' \in FixlenTypes,
         fixlen_total' \in 0..ARRAY_MAX, fixlen_remaining' \in 0..ARRAY_MAX
  PROVE  Inv'
BY InputAssumption DEF Inv, TypeOK, Rejects, BitsBelowShift, CleanHigh, CountsMatchState,
   Latched, States, VarintStates

\* The varint bytes other than the ends of the fixlen words.
LEMMA VarintInv ==
  ASSUME Inv, NEW byte \in Bytes, NEW v
  PROVE  /\ Continues(byte) => Inv'
         /\ OverlongRejected(byte) => Inv'
         /\ IntegerEnds(byte, v) => Inv'
         /\ HeaderOpensValue(byte, v) => Inv'
         /\ HeaderBeginsSequence(byte, v) => Inv'
         /\ HeaderEndsSequence(byte, v) => Inv'
         /\ HeaderRejected(byte, v) => Inv'
         /\ IntegerArrayCounted(byte, v) => Inv'
         /\ FixlenArrayCounted(byte, v) => Inv'
         /\ CountRejected(byte, v) => Inv'
<1> USE DEF Inv
<1>1. ASSUME Continues(byte) PROVE Inv'
  <2>1. acc \in Nat /\ shift \in 0..(ValueBits - 1) /\ acc < 2^shift
    BY <1>1, Widths DEF TypeOK, BitsBelowShift, Continues, Unsigned
  <2>2. /\ acc' \in Unsigned /\ shift' = shift + PayloadBits
        /\ shift' <= ValueBits /\ acc' < 2^(shift')
    BY <1>1, <2>1, PushFits DEF Continues
  <2>3. PICK k \in 0..ValueBits : shift = k * PayloadBits
    BY DEF ShiftAligned
  <2>4. shift' = (k + 1) * PayloadBits /\ k + 1 \in 0..ValueBits
    <3>1. (k + 1) * PayloadBits = k * PayloadBits + PayloadBits
      BY Widths
    <3>2. \A m \in Nat, g \in Nat \ {0} : m <= m * g
      OBVIOUS
    <3>3. k + 1 <= (k + 1) * PayloadBits
      BY <3>2, Widths
    <3> QED BY <2>2, <2>3, <3>1, <3>3, Widths
  <2>5. shift' \in 1..(ValueBits - 1)
    <3>1. shift' # ValueBits
      BY <2>4, WidthAssumption
    <3> QED BY <2>1, <2>2, <3>1, Widths
  <2>6. ShiftAligned' /\ BitsBelowShift'
    BY <2>2, <2>4 DEF ShiftAligned, BitsBelowShift
  <2>7. TypeOK'
    BY <1>1, <2>2, <2>5, InputAssumption DEF TypeOK, Continues, Reads
  <2> QED
    BY <1>1, <2>5, <2>6, <2>7
    DEF Continues, Reads, CleanHigh, CountsMatchState, Latched, VarintStates
<1>2. ASSUME OverlongRejected(byte) PROVE Inv'
  <2>1. ShiftAligned' /\ shift' \in 0..(ValueBits - 1)
    BY <1>2, Widths DEF OverlongRejected, ShiftAligned
  <2> QED
    BY <1>2, <2>1, RejectsInv DEF OverlongRejected, TypeOK
<1>3. ASSUME IntegerEnds(byte, v) PROVE Inv'
  <2>1. acc' = 0 /\ shift' = 0
    BY <1>3 DEF IntegerEnds, Ends
  <2>2. /\ array_remaining' \in 0..ARRAY_MAX /\ state' \in States \ {"Invalid"}
        /\ state' # "Idle" => state' = state /\ array_remaining' # 0 /\ array_remaining # 0
        /\ state' = "Idle" => array_remaining' = 0
        /\ state' \in {"Idle", "VarintUnsigned", "VarintSigned"}
    BY <1>3, Ceilings
    DEF IntegerEnds, advance_after_element, TypeOK, States, VarintStates
  <2>3. /\ Reads
        /\ UNCHANGED <<array_kind, fixlen_type, depth, id, fixlen_total, fixlen_remaining, acc_lo>>
    BY <1>3 DEF IntegerEnds
  <2>4. CountsMatchState'
    BY <2>2, <2>3 DEF CountsMatchState
  <2> QED
    BY <2>1, <2>2, <2>3, <2>4, ReadInv DEF TypeOK
<1>4. ASSUME HeaderOpensValue(byte, v) PROVE Inv'
  <2>1. acc' = 0 /\ shift' = 0 /\ v \in Nat
    BY <1>4, EndsFacts DEF HeaderOpensValue
  <2>2. id' \in Ids
    BY <1>4, <2>1, Ceilings DEF HeaderOpensValue, Ids
  <2>3. state' \in {"VarintUnsigned", "VarintSigned", "FixlenLen", "ArrayCount"}
    BY <1>4 DEF HeaderOpensValue, ValueState
  <2>4. array_kind' \in ArrayKinds \ {"Fp64"}
    BY <1>4 DEF HeaderOpensValue, TypeOK, ArrayKinds
  <2>5. array_remaining = 0
    BY <1>4 DEF HeaderOpensValue, CountsMatchState
  <2>6. /\ Reads
        /\ UNCHANGED <<fixlen_type, depth, array_remaining, fixlen_total, fixlen_remaining, acc_lo>>
    BY <1>4 DEF HeaderOpensValue
  <2>7. CountsMatchState' /\ state' \in States \ {"Invalid"}
    BY <2>3, <2>5, <2>6 DEF CountsMatchState, States, VarintStates
  <2> QED
    BY <2>1, <2>2, <2>4, <2>6, <2>7, ReadInv DEF TypeOK
<1>5. ASSUME HeaderBeginsSequence(byte, v) PROVE Inv'
  <2>1. acc' = 0 /\ shift' = 0 /\ v \in Nat
    BY <1>5, EndsFacts DEF HeaderBeginsSequence
  <2>2. id' \in Ids /\ depth' \in 0..MaxDepth
    BY <1>5, <2>1, Ceilings, WidthAssumption DEF HeaderBeginsSequence, Ids, TypeOK
  <2>3. /\ Reads /\ state = "Idle"
        /\ UNCHANGED <<state, array_kind, fixlen_type, array_remaining, fixlen_total,
                       fixlen_remaining, acc_lo>>
    BY <1>5 DEF HeaderBeginsSequence
  <2>4. CountsMatchState' /\ state' \in States \ {"Invalid"}
    BY <2>3 DEF CountsMatchState, States, VarintStates
  <2> QED
    BY <2>1, <2>2, <2>3, <2>4, ReadInv DEF TypeOK
<1>6. ASSUME HeaderEndsSequence(byte, v) PROVE Inv'
  <2>1. acc' = 0 /\ shift' = 0 /\ v \in Nat
    BY <1>6, EndsFacts DEF HeaderEndsSequence
  <2>2. id' \in Ids /\ depth' \in 0..MaxDepth
    BY <1>6, <2>1, Ceilings, WidthAssumption DEF HeaderEndsSequence, Ids, TypeOK
  <2>3. /\ Reads /\ state = "Idle"
        /\ UNCHANGED <<state, array_kind, fixlen_type, array_remaining, fixlen_total,
                       fixlen_remaining, acc_lo>>
    BY <1>6 DEF HeaderEndsSequence
  <2>4. CountsMatchState' /\ state' \in States \ {"Invalid"}
    BY <2>3 DEF CountsMatchState, States, VarintStates
  <2> QED
    BY <2>1, <2>2, <2>3, <2>4, ReadInv DEF TypeOK
<1>7. ASSUME HeaderRejected(byte, v) PROVE Inv'
  <2>1. acc' = 0 /\ shift' = 0 /\ v \in Nat
    BY <1>7, EndsFacts DEF HeaderRejected
  <2>2. id' \in Ids
    BY <1>7, <2>1, Ceilings DEF HeaderRejected, Ids, TypeOK
  <2> QED
    BY <1>7, <2>1, <2>2, AtZero, RejectsInv DEF HeaderRejected, TypeOK
<1>8. ASSUME IntegerArrayCounted(byte, v) PROVE Inv'
  <2>1. acc' = 0 /\ shift' = 0 /\ v \in 0..ARRAY_MAX
    BY <1>8, EndsFacts, Ceilings DEF IntegerArrayCounted
  <2>2. /\ Reads /\ array_kind \in {"Unsigned", "Signed"}
        /\ UNCHANGED <<array_kind, fixlen_type, depth, id, fixlen_total, fixlen_remaining, acc_lo>>
    BY <1>8 DEF IntegerArrayCounted, TypeOK, ArrayKinds
  <2>3. /\ array_remaining' \in 0..ARRAY_MAX
        /\ \/ state' = "Idle" /\ array_remaining' = 0
           \/ state' = "VarintSigned" /\ array_kind = "Signed"
           \/ state' = "VarintUnsigned" /\ array_kind = "Unsigned"
    BY <1>8, <2>1, <2>2 DEF IntegerArrayCounted, CountsMatchState
  <2>4. CountsMatchState' /\ state' \in States \ {"Invalid"}
    BY <2>2, <2>3 DEF CountsMatchState, States, VarintStates
  <2> QED
    BY <2>1, <2>2, <2>3, <2>4, ReadInv DEF TypeOK
<1>9. ASSUME FixlenArrayCounted(byte, v) PROVE Inv'
  <2>1. acc' = 0 /\ shift' = 0 /\ v \in 0..ARRAY_MAX
    BY <1>9, EndsFacts, Ceilings DEF FixlenArrayCounted
  <2>2. /\ Reads /\ state' = "FixlenArrayLen" /\ array_remaining' = v
        /\ UNCHANGED <<array_kind, fixlen_type, depth, id, fixlen_total, fixlen_remaining, acc_lo>>
    BY <1>9 DEF FixlenArrayCounted
  <2>3. CountsMatchState' /\ state' \in States \ {"Invalid"}
    BY <2>2 DEF CountsMatchState, States, VarintStates
  <2> QED
    BY <2>1, <2>2, <2>3, ReadInv DEF TypeOK
<1>10. ASSUME CountRejected(byte, v) PROVE Inv'
  <2>1. acc' = 0 /\ shift' = 0
    BY <1>10 DEF CountRejected, Ends
  <2> QED
    BY <1>10, <2>1, AtZero, RejectsInv DEF CountRejected, TypeOK
<1> QED
  BY <1>1, <1>2, <1>3, <1>4, <1>5, <1>6, <1>7, <1>8, <1>9, <1>10

\* The fixlen words.
LEMMA FixlenInv ==
  ASSUME Inv, NEW byte \in Bytes, NEW v
  PROVE  /\ \A t \in FixlenTypes : FixlenArrayAnnounced(byte, v, t) => Inv'
         /\ \A t \in FixlenTypes : FixlenFieldAnnounced(byte, v, t) => Inv'
         /\ FixlenWordRejected(byte, v) => Inv'
<1> USE DEF Inv
<1>0. ASSUME NEW t \in FixlenTypes, FixlenWord(v, t), v \in Nat
      PROVE  /\ fixlen_type' = t /\ fixlen_type' \in FixlenTypes
             /\ fixlen_total' = v \div 8 /\ fixlen_remaining' = v \div 8
             /\ v \div 8 \in 0..ARRAY_MAX
  BY <1>0, Ceilings DEF FixlenWord
<1>1. ASSUME NEW t \in FixlenTypes, FixlenArrayAnnounced(byte, v, t) PROVE Inv'
  <2>1. acc' = 0 /\ shift' = 0 /\ v \in Nat
    BY <1>1, EndsFacts DEF FixlenArrayAnnounced
  <2>2. /\ fixlen_type' = t /\ fixlen_type' \in FixlenTypes
        /\ fixlen_total' = v \div 8 /\ fixlen_remaining' = v \div 8
        /\ v \div 8 \in 0..ARRAY_MAX
    BY <1>0, <1>1, <2>1 DEF FixlenArrayAnnounced
  <2>3. Width(t) # 0 /\ v \div 8 = Width(t)
    BY <1>1 DEF FixlenArrayAnnounced, legal_float
  <2>4. v \div 8 \in 1..(v \div 8)
    BY <2>1, <2>3
  <2>5. CountsMatchState'
    BY <1>1, <2>1, <2>2, <2>3, <2>4 DEF FixlenArrayAnnounced, CountsMatchState, Width
  <2>6. state' \in {"FixlenVal", "Idle"}
    BY <1>1 DEF FixlenArrayAnnounced
  <2>7. Reads /\ UNCHANGED <<array_kind, depth, id, array_remaining, acc_lo>>
    BY <1>1 DEF FixlenArrayAnnounced
  <2>8. state' \in States \ {"Invalid"}
    BY <2>6 DEF States, VarintStates
  <2> QED
    BY <2>1, <2>2, <2>5, <2>7, <2>8, ReadInv DEF TypeOK
<1>2. ASSUME NEW t \in FixlenTypes, FixlenFieldAnnounced(byte, v, t) PROVE Inv'
  <2>1. acc' = 0 /\ shift' = 0 /\ v \in Nat
    BY <1>2, EndsFacts DEF FixlenFieldAnnounced
  <2>2. /\ fixlen_type' = t /\ fixlen_type' \in FixlenTypes
        /\ fixlen_total' = v \div 8 /\ fixlen_remaining' = v \div 8
        /\ v \div 8 \in 0..ARRAY_MAX
    BY <1>0, <1>2, <2>1 DEF FixlenFieldAnnounced
  <2>3. Width(t) # 0 => v \div 8 = Width(t)
    BY <1>2 DEF FixlenFieldAnnounced, legal_float
  <2>4. v \div 8 # 0 => v \div 8 \in 1..(v \div 8)
    BY <2>1
  <2>5. array_remaining = 0
    BY <1>2 DEF FixlenFieldAnnounced, CountsMatchState
  <2>6. CountsMatchState'
    BY <1>2, <2>1, <2>2, <2>3, <2>4, <2>5
    DEF FixlenFieldAnnounced, CountsMatchState, Width
  <2>7. state' \in {"FixlenVal", "Idle", "FixlenRaw"}
    BY <1>2 DEF FixlenFieldAnnounced
  <2>8. Reads /\ UNCHANGED <<array_kind, depth, id, array_remaining, acc_lo>>
    BY <1>2 DEF FixlenFieldAnnounced
  <2>9. state' \in States \ {"Invalid"}
    BY <2>7 DEF States, VarintStates
  <2> QED
    BY <2>1, <2>2, <2>6, <2>8, <2>9, ReadInv DEF TypeOK
<1>3. ASSUME FixlenWordRejected(byte, v) PROVE Inv'
  <2>1. acc' = 0 /\ shift' = 0 /\ v \in Nat
    BY <1>3, EndsFacts DEF FixlenWordRejected
  <2>2. /\ fixlen_type' \in FixlenTypes
        /\ fixlen_total' \in 0..ARRAY_MAX /\ fixlen_remaining' \in 0..ARRAY_MAX
    BY <1>0, <1>3, <2>1 DEF FixlenWordRejected, TypeOK
  <2> QED
    BY <1>3, <2>1, <2>2, AtZero, RejectsInv DEF FixlenWordRejected, TypeOK
<1> QED
  BY <1>1, <1>2, <1>3

\* Float bytes and payload runs.
LEMMA PayloadInv ==
  ASSUME Inv
  PROVE  /\ \A byte \in Bytes : FloatByte(byte) => Inv'
         /\ \A byte \in Bytes : FloatEnds(byte) => Inv'
         /\ \A chunk \in Runs : RawRun(chunk) => Inv'
<1> USE DEF Inv
<1>1. ASSUME NEW byte \in Bytes, FloatByte(byte) PROVE Inv'
  <2>1. acc' \in Unsigned /\ acc_lo' \in Unsigned
    BY <1>1, FloatPushFits DEF FloatByte, TypeOK
  <2>2. /\ fixlen_remaining \in 2..fixlen_total /\ fixlen_remaining' \in 1..(fixlen_total - 1)
        /\ fixlen_total \in 0..ARRAY_MAX /\ shift = 0
    BY <1>1, Ceilings DEF FloatByte, CountsMatchState, TypeOK
  <2>3. TypeOK'
    BY <1>1, <2>1, <2>2, Ceilings, InputAssumption DEF FloatByte, Reads, TypeOK
  <2>4. CountsMatchState' /\ CleanHigh' /\ BitsBelowShift'
    BY <1>1, <2>2, Ceilings
    DEF FloatByte, CountsMatchState, CleanHigh, BitsBelowShift, VarintStates, Width
  <2> QED
    BY <1>1, <2>3, <2>4 DEF FloatByte, Reads, ShiftAligned, Latched
<1>2. ASSUME NEW byte \in Bytes, FloatEnds(byte) PROVE Inv'
  <2>0. PushedLow \in Unsigned /\ 0 \in Unsigned
    <3>1. 0 \in Unsigned
      BY Widths DEF Unsigned
    <3> QED BY <3>1, FloatPushFits DEF TypeOK
  <2>1. acc' = 0 /\ shift' = 0 /\ acc_lo' \in Unsigned
    BY <1>2, <2>0 DEF FloatEnds, CountsMatchState
  <2>2. /\ array_remaining' \in 0..ARRAY_MAX
        /\ array_remaining > 1 => state' = "FixlenVal" /\ fixlen_remaining' = fixlen_total
        /\ array_remaining <= 1 => state' = "Idle" /\ fixlen_remaining' = 0
                                   /\ array_remaining' = 0
    BY <1>2, Ceilings DEF FloatEnds, advance_after_element, TypeOK
  <2>3. fixlen_total \in 1..ARRAY_MAX /\ fixlen_total = Width(fixlen_type)
    BY <1>2, Ceilings DEF FloatEnds, CountsMatchState, TypeOK
  <2>4. array_remaining > 1 \/ array_remaining <= 1
    BY Ceilings DEF TypeOK
  <2>5. Reads /\ UNCHANGED <<array_kind, fixlen_type, depth, id, fixlen_total>>
    BY <1>2 DEF FloatEnds
  <2>6. CountsMatchState'
    BY <2>1, <2>2, <2>3, <2>4, <2>5, Ceilings DEF CountsMatchState, Width
  <2>7. state' \in States \ {"Invalid"} /\ fixlen_remaining' \in 0..ARRAY_MAX
    BY <2>2, <2>3, <2>4, Ceilings DEF States, VarintStates
  <2> QED
    BY <2>1, <2>2, <2>5, <2>6, <2>7, ReadInv DEF TypeOK
<1>3. ASSUME NEW chunk \in Runs, RawRun(chunk) PROVE Inv'
  <2>1. /\ fixlen_remaining \in 1..fixlen_total /\ shift = 0 /\ acc = 0
        /\ Width(fixlen_type) = 0 /\ array_remaining = 0
        /\ fixlen_total \in 0..ARRAY_MAX /\ left \in 1..MaxChunk
    BY <1>3, InputAssumption
    DEF RawRun, CountsMatchState, CleanHigh, TypeOK, VarintStates
  <2>2. Len(chunk) \in 1..left /\ Len(chunk) \in 1..fixlen_remaining
    BY <1>3, <2>1, Ceilings, InputAssumption DEF RawRun
  <2>3. /\ fixlen_remaining' \in 0..(fixlen_total - 1) /\ left' \in 0..MaxChunk
        /\ fixlen_remaining' = 0 => state' = "Idle"
        /\ fixlen_remaining' # 0 => state' = "FixlenRaw"
    BY <1>3, <2>1, <2>2, Ceilings, InputAssumption DEF RawRun
  <2>4. acc' = 0 /\ shift' = 0
    BY <1>3, <2>1 DEF RawRun
  <2>5. TypeOK'
    BY <1>3, <2>1, <2>3, <2>4, AtZero, Ceilings
    DEF RawRun, TypeOK, States, VarintStates
  <2>6. CountsMatchState'
    BY <1>3, <2>1, <2>3, <2>4, Ceilings DEF RawRun, CountsMatchState, Width
  <2> QED
    BY <1>3, <2>3, <2>4, <2>5, <2>6, AtZero DEF RawRun, Latched
<1> QED
  BY <1>1, <1>2, <1>3

\* Every step of the decoder keeps it.
LEMMA NextInv == Inv /\ [Next]_vars => Inv'
<1> SUFFICES ASSUME Inv, [Next]_vars PROVE Inv'
  OBVIOUS
<1> USE DEF Inv
<1>1. CASE UNCHANGED vars
  BY <1>1 DEF vars, decoder, TypeOK, BitsBelowShift, CleanHigh, CountsMatchState,
     ShiftAligned, Latched, Width
<1>2. CASE FeedRefused
  BY <1>2 DEF FeedRefused, decoder, TypeOK, BitsBelowShift, CleanHigh, CountsMatchState,
     ShiftAligned, Latched, Width
<1>3. ASSUME NEW n \in 0..MaxChunk, FeedBegins(n) PROVE Inv'
  BY <1>3 DEF FeedBegins, decoder, TypeOK, BitsBelowShift, CleanHigh, CountsMatchState,
     ShiftAligned, Latched, Width
<1>4. CASE FeedReturns
  BY <1>4 DEF FeedReturns, decoder, TypeOK, BitsBelowShift, CleanHigh, CountsMatchState,
     ShiftAligned, Latched, Width
<1>5. ASSUME NEW byte \in Input, step(byte) PROVE Inv'
  <2>1. byte \in Bytes
    BY InputAssumption
  <2> QED
    BY <1>5, <2>1, VarintInv, FixlenInv, PayloadInv DEF step, Handles
<1>6. ASSUME NEW chunk \in Runs, RawRun(chunk) PROVE Inv'
  BY <1>6, PayloadInv
<1> QED
  BY <1>1, <1>2, <1>3, <1>4, <1>5, <1>6 DEF Next, Decodes

-----------------------------------------------------------------------------
(* The second word of the float window *)

\* What has been pushed of the payload is at the top of the high word, the
\* bytes still to come below it are zero.
BytesOnTop == \E q \in Nat : acc = q * 2^(ByteBits * fixlen_remaining)

\* An fp32 goes through the low word of a two-word window without leaving a bit
\* in it, because it ends just before its first byte would get there.
LowInv ==
  /\ CleanLow
  /\ state = "FixlenVal" /\ (fixlen_type # "Fp64" \/ ~TwoWords) => acc_lo = 0
  /\ state = "FixlenVal" /\ fixlen_type # "Fp64" /\ TwoWords => BytesOnTop

\* A byte of a float pushed through two words that is still in the high one.
LEMMA Fp32Push ==
  ASSUME TwoWords, NEW byte \in Bytes, NEW n \in 1..FloatBytes,
         acc_lo = 0, NEW q \in Nat, acc = q * 2^(ByteBits * n)
  PROVE  PushedLow = 0 /\ \E r \in Nat : PushedHigh(byte) = r * 2^(ByteBits * (n - 1))
<1> DEFINE k == ByteBits * (n - 1)
           m == ByteBits * (FloatBytes - n)
           B == 2^ByteBits
           K == 2^k
           M == 2^m
<1>1. ByteBits \in Nat /\ FloatBytes \in Nat /\ ValueBits = FloatBytes * ByteBits
  BY Widths, WidthAssumption DEF TwoWords
<1>2. /\ k \in Nat /\ m \in Nat
      /\ ByteBits * n = ByteBits + k /\ ValueBits = ByteBits + (k + m)
  <2>1. \A b, x, f \in Int : /\ b * x = b + b * (x - 1)
                             /\ f * b = b + (b * (x - 1) + b * (f - x))
    OBVIOUS
  <2>2. n \in Int /\ n - 1 \in Nat /\ FloatBytes - n \in Nat
    BY <1>1
  <2>3. \A x, y \in Nat : x * y \in Nat
    OBVIOUS
  <2>4. k \in Nat /\ m \in Nat
    BY <2>2, <2>3, <1>1
  <2> QED BY <2>1, <2>2, <2>4, <1>1
<1> HIDE DEF k, m
<1>3. k \in 0..ValueBits /\ m \in 0..ValueBits /\ ByteBits \in 0..ValueBits
  BY <1>1, <1>2, Widths
<1>4. 2^(ByteBits * n) = B * K /\ 2^(ValueBits - ByteBits) = K * M
  <2>1. ValueBits - ByteBits = k + m
    BY <1>1, <1>2
  <2> QED BY <1>2, <1>3, <2>1, PowersAdd
<1>5. B \in Nat \ {0} /\ K \in Nat \ {0} /\ M \in Nat \ {0} /\ byte \in Nat
  <2>1. \A e \in 0..ValueBits : 2^e \in Nat \ {0}
    BY Powers
  <2>2. byte \in Nat
    BY Widths DEF Bytes
  <2> QED BY <1>3, <2>1, <2>2
<1> HIDE DEF B, K, M
<1>6. acc = (q * K) * B + 0
  BY <1>4, <1>5
<1>7. acc \div B = q * K /\ acc % B = 0
  <2> DEFINE p == q * K
  <2>1. p \in Nat /\ 0 \in 0..(B - 1)
    BY <1>5
  <2>2. acc = p * B + 0
    BY <1>6
  <2> HIDE DEF p
  <2>3. (p * B + 0) \div B = p /\ (p * B + 0) % B = 0
    BY <1>5, <2>1, DivMod
  <2>4. acc \div B = p /\ acc % B = 0
    BY <2>2, <2>3
  <2> QED BY <2>4 DEF p
<1>8. PushedLow = 0
  <2>1. 0 \div B = 0
    BY <1>5
  <2>2. 0 * (K * M) = 0
    BY <1>5
  <2>3. PushedLow = (acc_lo \div B) + (acc % B) * (K * M)
    BY <1>4 DEF PushedLow, B
  <2> QED BY <1>7, <2>1, <2>2, <2>3
<1>9. PushedHigh(byte) = q * K + byte * (K * M)
  BY <1>4, <1>7 DEF PushedHigh, B
<1>10. q * K + byte * (K * M) = (q + byte * M) * K /\ q + byte * M \in Nat
  BY <1>5
<1> QED
  BY <1>8, <1>9, <1>10 DEF K, k

\* A new decoder has nothing in its second word.
LEMMA LowInvInit == Init => LowInv
BY DEF Init, LowInv, CleanLow

\* A step that leaves the low word alone and is not in a float afterwards.
LEMMA LowKept ==
  ASSUME LowInv, acc_lo' = acc_lo, state' # "FixlenVal",
         state \notin {"FixlenVal", "Invalid"} \/ state' = "Invalid"
  PROVE  LowInv'
BY DEF LowInv, CleanLow

\* A float, or the next of an array, begins with both words zero.
LEMMA LowBegins ==
  ASSUME acc_lo' = 0, acc' = 0, state' = "FixlenVal",
         fixlen_type' # "Fp64" => fixlen_remaining' = FloatBytes
  PROVE  LowInv'
<1>1. ASSUME TwoWords, fixlen_type' # "Fp64" PROVE BytesOnTop'
  <2>1. ByteBits * FloatBytes = ValueBits /\ 2^ValueBits \in Nat
    BY <1>1, WidthAssumption, Widths DEF TwoWords
  <2>2. ByteBits * fixlen_remaining' = ValueBits
    BY <1>1, <2>1
  <2>3. 0 = 0 * 2^ValueBits
    BY <2>1
  <2> QED BY <2>2, <2>3 DEF BytesOnTop
<1> QED BY <1>1 DEF LowInv, CleanLow

\* The bytes of a float.
LEMMA LowPushed ==
  ASSUME Inv, LowInv, NEW byte \in Bytes
  PROVE  FloatByte(byte) \/ FloatEnds(byte) => LowInv'
<1> SUFFICES ASSUME FloatByte(byte) \/ FloatEnds(byte) PROVE LowInv'
  OBVIOUS
<1>0. state = "FixlenVal" /\ fixlen_remaining \in 1..fixlen_total /\ fixlen_total \in Nat
  BY Ceilings DEF FloatByte, FloatEnds, Inv, CountsMatchState, TypeOK
<1>1. fixlen_total = Width(fixlen_type) /\ fixlen_type \in {"Fp32", "Fp64"}
  BY <1>0, Ceilings DEF Inv, CountsMatchState, TypeOK, FixlenTypes, Width
<1>2. fixlen_type # "Fp64" => fixlen_total = FloatBytes
  BY <1>1 DEF Width
<1>3. ~TwoWords => PushedLow = 0
  BY <1>0 DEF PushedLow, LowInv
<1>4. ASSUME TwoWords, fixlen_type # "Fp64"
      PROVE  /\ PushedLow = 0
             /\ \E r \in Nat : PushedHigh(byte) = r * 2^(ByteBits * (fixlen_remaining - 1))
  <2>1. PICK q \in Nat : acc = q * 2^(ByteBits * fixlen_remaining)
    BY <1>0, <1>4 DEF LowInv, BytesOnTop
  <2>2. acc_lo = 0 /\ fixlen_remaining \in 1..FloatBytes
    BY <1>0, <1>2, <1>4 DEF LowInv
  <2> QED BY <1>4, <2>1, <2>2, Fp32Push
<1>5. CASE FloatByte(byte)
  <2>1. /\ state' = "FixlenVal" /\ fixlen_type' = fixlen_type /\ fixlen_total' = fixlen_total
        /\ acc' = PushedHigh(byte) /\ acc_lo' = PushedLow
        /\ fixlen_remaining' = fixlen_remaining - 1
    BY <1>0, <1>5 DEF FloatByte
  <2>2. fixlen_remaining' # fixlen_total'
    BY <1>0, <2>1
  <2> QED BY <1>3, <1>4, <2>1, <2>2 DEF LowInv, CleanLow, BytesOnTop
<1>6. CASE FloatEnds(byte)
  <2>1. /\ fixlen_type' = fixlen_type /\ fixlen_total' = fixlen_total /\ acc' = 0
        /\ state' \in {"FixlenVal", "Idle"}
        /\ state' = "FixlenVal" => fixlen_remaining' = fixlen_total
    BY <1>0, <1>6 DEF FloatEnds, advance_after_element
  <2>2. acc_lo' = 0
    BY <1>3, <1>4, <1>6 DEF FloatEnds
  <2>3. CASE state' = "FixlenVal"
    BY <1>2, <2>1, <2>2, <2>3, LowBegins
  <2>4. CASE state' = "Idle"
    BY <2>2, <2>4 DEF LowInv, CleanLow
  <2> QED BY <2>1, <2>3, <2>4
<1> QED BY <1>5, <1>6

\* The words that announce floats and payloads.
LEMMA LowAnnounced ==
  ASSUME Inv, LowInv, NEW byte \in Bytes, NEW v, NEW t \in FixlenTypes,
         FixlenArrayAnnounced(byte, v, t) \/ FixlenFieldAnnounced(byte, v, t)
  PROVE  LowInv'
<1>1. state \in {"FixlenLen", "FixlenArrayLen"} /\ acc_lo' = acc_lo /\ FixlenWord(v, t)
  BY DEF FixlenArrayAnnounced, FixlenFieldAnnounced
<1>2. acc' = 0 /\ acc_lo' = 0
  BY <1>1, EndsFacts DEF FixlenArrayAnnounced, FixlenFieldAnnounced, LowInv, CleanLow
<1>3. CASE state' = "FixlenVal"
  <2>1. Width(t) # 0 /\ v \div 8 = Width(t)
    BY <1>3 DEF FixlenArrayAnnounced, FixlenFieldAnnounced, legal_float
  <2>2. fixlen_type' # "Fp64" => fixlen_remaining' = FloatBytes
    BY <1>1, <2>1 DEF FixlenWord, Width
  <2> QED BY <1>2, <1>3, <2>2, LowBegins
<1>4. CASE state' # "FixlenVal"
  BY <1>1, <1>4, <1>2 DEF LowInv, CleanLow
<1> QED BY <1>3, <1>4

\* Every step leaves in the second word only what the value under way has put there.
LEMMA LowNext == Inv /\ LowInv /\ [Next]_vars => LowInv'
<1> SUFFICES ASSUME Inv, LowInv, [Next]_vars PROVE LowInv'
  OBVIOUS
<1>1. CASE UNCHANGED vars \/ FeedRefused \/ (\E n \in 0..MaxChunk : FeedBegins(n)) \/ FeedReturns
  BY <1>1 DEF vars, decoder, FeedRefused, FeedBegins, FeedReturns, LowInv, CleanLow,
     BytesOnTop, TwoWords
<1>2. ASSUME NEW byte \in Input, step(byte) PROVE LowInv'
  <2> DEFINE v == Accumulate(acc, byte, shift)
  <2>0. byte \in Bytes
    BY InputAssumption
  <2>1. CASE FloatByte(byte) \/ FloatEnds(byte)
    BY <2>0, <2>1, LowPushed
  <2>2. CASE \E t \in FixlenTypes : FixlenArrayAnnounced(byte, v, t) \/ FixlenFieldAnnounced(byte, v, t)
    BY <2>0, <2>2, LowAnnounced
  <2>3. CASE OverlongRejected(byte) \/ HeaderRejected(byte, v) \/ CountRejected(byte, v)
               \/ FixlenWordRejected(byte, v)
    BY <2>3, LowKept DEF OverlongRejected, HeaderRejected, CountRejected, FixlenWordRejected,
       Rejects
  <2>4. CASE Continues(byte) \/ HeaderBeginsSequence(byte, v) \/ HeaderEndsSequence(byte, v)
    BY <2>4, LowKept DEF Continues, HeaderBeginsSequence, HeaderEndsSequence, VarintStates
  <2>5. CASE HeaderOpensValue(byte, v)
    BY <2>5, LowKept DEF HeaderOpensValue, ValueState
  <2>6. CASE IntegerEnds(byte, v) \/ IntegerArrayCounted(byte, v) \/ FixlenArrayCounted(byte, v)
    BY <2>6, LowKept DEF IntegerEnds, IntegerArrayCounted, FixlenArrayCounted,
       advance_after_element
  <2> QED
    BY <1>2, <2>1, <2>2, <2>3, <2>4, <2>5, <2>6 DEF step, Handles
<1>3. ASSUME NEW chunk \in Runs, RawRun(chunk) PROVE LowInv'
  BY <1>3, LowKept DEF RawRun
<1> QED
  BY <1>1, <1>2, <1>3 DEF Next, Decodes

-----------------------------------------------------------------------------
(* Theorems *)

\* The invariant always holds.
LEMMA Invariance == Spec => []Inv
<1> QED
  BY InitInv, NextInv, PTL DEF Spec

\* The decoder's variables keep their types: the accumulator stays within the
\* value type, nesting within MAX_DEPTH, counts and lengths within the format's
\* ceiling, and no counter goes below zero, whatever bytes are fed.
THEOREM TypeCorrect == Spec => []TypeOK
<1>1. Inv => TypeOK
  BY DEF Inv
<1> QED
  BY <1>1, Invariance, PTL

\* The `|=` of Core::push only ever sets bits that are clear.
THEOREM BitsStayBelowShift == Spec => []BitsBelowShift
<1>1. Inv => BitsBelowShift
  BY DEF Inv
<1> QED
  BY <1>1, Invariance, PTL

\* The counts of what is still to come agree with the state that counts them
\* down: `fixlen_remaining -= 1` and `array_remaining -= 1` never run at zero,
\* and a non-zero array_remaining always means an array.
THEOREM CountsAlwaysMatchState == Spec => []CountsMatchState
<1>1. Inv => CountsMatchState
  BY DEF Inv
<1> QED
  BY <1>1, Invariance, PTL

\* INVALID is terminal: after it no byte is read and no callback is made.
THEOREM InvalidLatched == Spec => InvalidIsLatched
<1>1. ASSUME Inv, [Next]_vars
      PROVE  [/\ state' = "Invalid" <=> status' = "InvalidMsg"
              /\ status = "InvalidMsg" =>
                   status' = "InvalidMsg" /\ calls' = <<>> /\ left' = left]_vars
  <2>1. CASE UNCHANGED vars
    BY <2>1
  <2>2. CASE Next
    <3>1. state' = "Invalid" <=> status' = "InvalidMsg"
      BY <1>1, NextInv DEF Inv, Latched
    <3>2. CASE FeedRefused
      BY <3>1, <3>2 DEF FeedRefused
    <3>3. CASE \E n \in 0..MaxChunk : FeedBegins(n)
      BY <1>1, <3>1, <3>3 DEF FeedBegins, Inv, Latched
    <3>4. CASE Decodes
      <4>1. status = "Feeding"
        BY <3>4 DEF Decodes, step, Handles, Continues, OverlongRejected, HeaderOpensValue,
           HeaderBeginsSequence, HeaderEndsSequence, HeaderRejected, IntegerEnds,
           IntegerArrayCounted, FixlenArrayCounted, CountRejected, FixlenArrayAnnounced,
           FixlenFieldAnnounced, FixlenWordRejected, FloatByte, FloatEnds, RawRun,
           FeedReturns, Reads, Rejects
      <4> QED BY <3>1, <4>1
    <3> QED BY <2>2, <3>2, <3>3, <3>4 DEF Next
  <2> QED BY <1>1, <2>1, <2>2
<1> QED
  BY <1>1, Invariance, PTL DEF Spec, InvalidIsLatched

\* The shared accumulator is zero whenever a varint or a float begins, and the
\* second word of a narrow build with it, in whatever order fields follow each
\* other and wherever feeds end: nothing has to clear the low word after an fp32.
THEOREM AlwaysClean == Spec => []CleanAccumulator
<1>1. Inv /\ LowInv => CleanAccumulator
  BY DEF Inv, LowInv, CleanAccumulator
<1>2. Spec => []LowInv
  BY LowInvInit, LowNext, Invariance, PTL DEF Spec
<1> QED
  BY <1>1, <1>2, Invariance, PTL

-----------------------------------------------------------------------------
(* The decoder implements the visitor contract: each of its steps is a step the
   contract allows its callbacks, or none at all *)

(* The two vocabularies *)

\* The contract's words for what it shares with the decoder.
LEMMA SameWords ==
  /\ Contract!Ids = Ids /\ Contract!ARRAY_MAX = ARRAY_MAX
  /\ Contract!FixlenTypes = FixlenTypes /\ Contract!ArrayKinds = ArrayKinds
  /\ \A t : Contract!Width(t) = Width(t)
BY DEF Contract!Ids, Ids, Contract!ID_MAX, ID_MAX, Contract!ARRAY_MAX, ARRAY_MAX,
   Contract!FixlenTypes, FixlenTypes, Contract!ArrayKinds, ArrayKinds, Contract!Width, Width

\* The shapes of no, one and two callbacks.
LEMMA ShapesOf ==
  /\ calls' = <<>> => Shapes' = <<>>
  /\ \A c : calls' = <<c>> => Shapes' = <<Shape(c)>>
  /\ \A c, d : calls' = <<c, d>> => Shapes' = <<Shape(c), Shape(d)>>
<1>1. ASSUME calls' = <<>> PROVE Shapes' = <<>>
  BY <1>1 DEF Shapes
<1>2. ASSUME NEW c, calls' = <<c>> PROVE Shapes' = <<Shape(c)>>
  BY <1>2 DEF Shapes
<1>3. ASSUME NEW c, NEW d, calls' = <<c, d>> PROVE Shapes' = <<Shape(c), Shape(d)>>
  BY <1>3 DEF Shapes
<1> QED BY <1>1, <1>2, <1>3

\* Arrays are only ever read in builds that have them.
ArraysCompiledIn == state \in {"ArrayCount", "FixlenArrayLen"} => "array" \in Features

CInv == Inv /\ ArraysCompiledIn

\* No step enters the states of arrays in a build without them.
LEMMA ArraysCompiledInNext == Inv /\ ArraysCompiledIn /\ [Next]_vars => ArraysCompiledIn'
<1> SUFFICES ASSUME Inv, ArraysCompiledIn, [Next]_vars PROVE ArraysCompiledIn'
  OBVIOUS
<1>1. CASE state' = state
  BY <1>1 DEF ArraysCompiledIn
<1>2. ASSUME NEW byte, HeaderOpensValue(byte, Accumulate(acc, byte, shift))
      PROVE  ArraysCompiledIn'
  <2> DEFINE type == Accumulate(acc, byte, shift) % 8
  <2>1. type \in WireTypes \cap (0..5) /\ state' = ValueState[type]
    BY <1>2 DEF HeaderOpensValue
  <2> HIDE DEF type
  <2>2. CASE type \in {T_VARINT_UNSIGNED, T_VARINT_SIGNED, T_FIXLEN}
    <3>1. state' \in {"VarintUnsigned", "VarintSigned", "FixlenLen"}
      BY <2>1, <2>2
      DEF ValueState, T_VARINT_UNSIGNED, T_VARINT_SIGNED, T_FIXLEN
    <3> QED BY <3>1 DEF ArraysCompiledIn
  <2>3. CASE type \notin {T_VARINT_UNSIGNED, T_VARINT_SIGNED, T_FIXLEN}
    BY <2>1, <2>3 DEF WireTypes, ArraysCompiledIn, T_VARINT_UNSIGNED, T_VARINT_SIGNED, T_FIXLEN,
       T_VARINTARRAY_UNSIGNED, T_VARINTARRAY_SIGNED, T_FIXLENARRAY, T_SEQUENCE_START,
       T_SEQUENCE_END
  <2> QED BY <2>2, <2>3
<1>3. ASSUME NEW byte, FixlenArrayCounted(byte, Accumulate(acc, byte, shift))
      PROVE  ArraysCompiledIn'
  BY <1>3 DEF FixlenArrayCounted, ArraysCompiledIn
<1>4. ASSUME state' \notin {"ArrayCount", "FixlenArrayLen"} PROVE ArraysCompiledIn'
  BY <1>4 DEF ArraysCompiledIn
<1>5. CASE UNCHANGED vars \/ FeedRefused \/ (\E n \in 0..MaxChunk : FeedBegins(n)) \/ FeedReturns
  BY <1>1, <1>5 DEF vars, decoder, FeedRefused, FeedBegins, FeedReturns
<1>6. ASSUME NEW byte \in Input, step(byte) PROVE ArraysCompiledIn'
  <2> DEFINE v == Accumulate(acc, byte, shift)
  <2>1. CASE Continues(byte) \/ HeaderBeginsSequence(byte, v) \/ HeaderEndsSequence(byte, v)
               \/ FloatByte(byte)
    BY <1>1, <2>1 DEF Continues, HeaderBeginsSequence, HeaderEndsSequence, FloatByte
  <2>2. CASE OverlongRejected(byte) \/ HeaderRejected(byte, v) \/ CountRejected(byte, v)
               \/ FixlenWordRejected(byte, v)
    BY <1>4, <2>2 DEF OverlongRejected, HeaderRejected, CountRejected, FixlenWordRejected, Rejects
  <2>3. CASE HeaderOpensValue(byte, v) \/ FixlenArrayCounted(byte, v)
    BY <1>2, <1>3, <2>3
  <2>4. CASE IntegerEnds(byte, v) \/ IntegerArrayCounted(byte, v) \/ FloatEnds(byte)
    BY <1>4, <2>4 DEF IntegerEnds, IntegerArrayCounted, FloatEnds, advance_after_element
  <2>5. CASE \E t \in FixlenTypes : FixlenArrayAnnounced(byte, v, t)
                                      \/ FixlenFieldAnnounced(byte, v, t)
    BY <1>4, <2>5 DEF FixlenArrayAnnounced, FixlenFieldAnnounced
  <2> QED BY <1>6, <2>1, <2>2, <2>3, <2>4, <2>5 DEF step, Handles
<1>7. ASSUME NEW chunk \in Runs, RawRun(chunk) PROVE ArraysCompiledIn'
  BY <1>4, <1>7 DEF RawRun
<1> QED
  BY <1>5, <1>6, <1>7 DEF Next, Decodes

-----------------------------------------------------------------------------
(* Steps without a callback *)

\* Steps that leave the field's description alone, or are between fields.
LEMMA QuietStep ==
  ASSUME calls' = <<>>, depth' = depth, Field' = Field,
         state \notin {"Invalid"}, state' \notin {"Invalid"}
  PROVE  Contract!Next
BY ShapesOf DEF Contract!Next, Contract!Quiet

\* No field is open where none of the three kinds is.
LEMMA NoField ==
  /\ ~InArray /\ state \notin {"FixlenVal", "FixlenRaw"} => Field = Contract!None
  /\ ~InArray' /\ state' \notin {"FixlenVal", "FixlenRaw"} => Field' = Contract!None
BY DEF Field, Contract!None

\* A malformed byte.
LEMMA FailsStep ==
  ASSUME Inv, Rejects
  PROVE  Contract!Next
<1>1. state # "Invalid" /\ state' = "Invalid" /\ calls' = <<>> /\ depth' = depth
  BY DEF Inv, Latched, Rejects
<1>2. ~InArray' /\ state' \notin {"FixlenVal", "FixlenRaw"}
  BY <1>1 DEF InArray
<1> QED
  BY <1>1, <1>2, NoField, ShapesOf DEF Contract!Next, Contract!Fails

-----------------------------------------------------------------------------
(* Integers and headers *)

\* An integer that ends makes a callback the contract allows.
LEMMA IntegerStep ==
  ASSUME Inv, NEW byte, NEW v, IntegerEnds(byte, v)
  PROVE  Contract!Next
<1> DEFINE kind == IF state = "VarintSigned" THEN "Signed" ELSE "Unsigned"
<1>1. /\ state \in {"VarintUnsigned", "VarintSigned"} /\ id \in Ids
      /\ array_remaining \in Nat
      /\ array_remaining' = IF array_remaining = 0 THEN 0 ELSE array_remaining - 1
      /\ state' = IF array_remaining > 1 THEN state ELSE "Idle"
      /\ UNCHANGED <<depth, id, array_kind>>
  BY Ceilings DEF IntegerEnds, advance_after_element, Inv, TypeOK
<1>2. Shapes' = <<Contract!Call(Contract!ElementCall[kind], id)>>
  <2>1. CASE state = "VarintSigned"
    <3>1. calls' = <<[fn |-> "signed", id |-> id, value |-> zigzag_decode(v)]>>
      BY <2>1 DEF IntegerEnds
    <3>2. Shape([fn |-> "signed", id |-> id, value |-> zigzag_decode(v)])
            = [fn |-> "signed", id |-> id]
      BY DEF Shape
    <3> QED BY <2>1, <3>1, <3>2, ShapesOf DEF Contract!Call, Contract!ElementCall
  <2>2. CASE state # "VarintSigned"
    <3>1. calls' = <<[fn |-> "unsigned", id |-> id, value |-> v]>>
      BY <2>2 DEF IntegerEnds
    <3>2. Shape([fn |-> "unsigned", id |-> id, value |-> v]) = [fn |-> "unsigned", id |-> id]
      BY DEF Shape
    <3> QED BY <2>2, <3>1, <3>2, ShapesOf DEF Contract!Call, Contract!ElementCall
  <2> QED BY <2>1, <2>2
<1>3. state # "Invalid" /\ state' # "Invalid"
  BY <1>1
<1>4. CASE array_remaining = 0
  <2>1. Field = Contract!None /\ Field' = Contract!None
    BY <1>1, <1>4, NoField DEF InArray
  <2>2. kind \in {"Unsigned", "Signed"}
    OBVIOUS
  <2> HIDE DEF kind
  <2>3. Contract!Integer
    BY <1>1, <1>2, <1>3, <2>1, <2>2, SameWords DEF Contract!Integer
  <2> QED BY <2>3 DEF Contract!Next
<1>5. CASE array_remaining # 0
  <2>1. kind = array_kind
    BY <1>1, <1>5 DEF Inv, CountsMatchState
  <2>2. Field = [what |-> "array", id |-> id, left |-> array_remaining, kind |-> kind]
    BY <1>1, <1>5, <2>1 DEF Field, InArray
  <2> HIDE DEF kind
  <2>3. CASE array_remaining = 1
    <3>1. Field' = Contract!None
      BY <1>1, <2>3, NoField DEF InArray
    <3>2. Contract!Element
      BY <1>1, <1>2, <1>3, <2>2, <2>3, <3>1 DEF Contract!Element
    <3> QED BY <3>2 DEF Contract!Next
  <2>4. CASE array_remaining # 1
    <3>1. Field' = [what |-> "array", id |-> id, left |-> array_remaining - 1, kind |-> kind]
      BY <1>1, <1>5, <2>1, <2>4 DEF Field, InArray
    <3>2. Field' = [Field EXCEPT !.left = @ - 1]
      BY <2>2, <3>1
    <3>3. Contract!Element
      BY <1>1, <1>2, <1>3, <2>2, <2>4, <3>2 DEF Contract!Element
    <3> QED BY <3>3 DEF Contract!Next
  <2> QED BY <2>3, <2>4
<1> QED BY <1>4, <1>5

\* So does a header, of a field or of a sequence.
LEMMA HeaderStep ==
  ASSUME Inv, NEW byte \in Bytes, NEW v,
         HeaderOpensValue(byte, v) \/ HeaderBeginsSequence(byte, v) \/ HeaderEndsSequence(byte, v)
  PROVE  Contract!Next
<1>1. v \in Nat /\ state = "Idle" /\ array_remaining = 0 /\ array_remaining' = 0
  BY EndsFacts DEF HeaderOpensValue, HeaderBeginsSequence, HeaderEndsSequence, Inv, CountsMatchState
<1>2. Field = Contract!None
  BY <1>1, NoField DEF InArray
<1>3. v \div 8 <= ID_MAX => v \div 8 \in Ids
  BY <1>1, Ceilings DEF Ids
<1>4. CASE HeaderOpensValue(byte, v)
  <2>1. state' \in {"VarintUnsigned", "VarintSigned", "FixlenLen", "ArrayCount"}
    BY <1>4 DEF HeaderOpensValue, ValueState
  <2>2. Field' = Contract!None
    BY <1>1, <2>1, NoField DEF InArray
  <2> QED BY <1>1, <1>2, <1>4, <2>1, <2>2, QuietStep DEF HeaderOpensValue
<1>5. CASE HeaderBeginsSequence(byte, v)
  <2>1. Field' = Contract!None /\ state' = "Idle"
    BY <1>1, <1>5, NoField DEF InArray, HeaderBeginsSequence
  <2>2. Shapes' = <<[fn |-> "sequence_begin", id |-> v \div 8]>>
    <3>1. Shape([fn |-> "sequence_begin", id |-> v \div 8])
            = [fn |-> "sequence_begin", id |-> v \div 8]
      BY DEF Shape
    <3> QED BY <1>5, <3>1, ShapesOf DEF HeaderBeginsSequence
  <2>3. "sequence" \in Features
    BY <1>5 DEF HeaderBeginsSequence, WireTypes, T_VARINT_UNSIGNED, T_VARINT_SIGNED, T_FIXLEN,
       T_VARINTARRAY_UNSIGNED, T_VARINTARRAY_SIGNED, T_FIXLENARRAY, T_SEQUENCE_START
  <2>4. depth < MaxDepth /\ depth' = depth + 1 /\ v \div 8 \in Ids
    BY <1>3, <1>5 DEF HeaderBeginsSequence
  <2>5. Contract!SequenceBegins
    BY <1>1, <1>2, <2>1, <2>2, <2>3, <2>4, SameWords DEF Contract!SequenceBegins, Contract!Call
  <2> QED BY <2>5 DEF Contract!Next
<1>6. CASE HeaderEndsSequence(byte, v)
  <2>1. Field' = Contract!None /\ state' = "Idle"
    BY <1>1, <1>6, NoField DEF InArray, HeaderEndsSequence
  <2>2. Shapes' = <<[fn |-> "sequence_end"]>>
    <3>1. Shape([fn |-> "sequence_end"]) = [fn |-> "sequence_end"]
      BY DEF Shape
    <3> QED BY <1>6, <3>1, ShapesOf DEF HeaderEndsSequence
  <2>3. depth > 0 /\ depth' = depth - 1
    BY <1>6, WidthAssumption DEF HeaderEndsSequence, Inv, TypeOK
  <2>4. Contract!SequenceEnds
    BY <1>1, <1>2, <2>1, <2>2, <2>3 DEF Contract!SequenceEnds
  <2> QED BY <2>4 DEF Contract!Next
<1> QED BY <1>4, <1>5, <1>6

-----------------------------------------------------------------------------
(* Array counts *)

\* An array announced with its count: the common part of the two announcements.
LEMMA ArrayStep ==
  ASSUME NEW k \in ArrayKinds, NEW n \in 0..ARRAY_MAX, id \in Ids, "array" \in Features,
         Field = Contract!None, state # "Invalid", state' # "Invalid", depth' = depth,
         calls' = <<[fn |-> "array_begin", id |-> id, kind |-> k, count |-> n]>>,
         Field' = IF n = 0 THEN Contract!None
                  ELSE [what |-> "array", id |-> id, kind |-> k, left |-> n]
  PROVE  Contract!Next
<1>1. Shape([fn |-> "array_begin", id |-> id, kind |-> k, count |-> n])
        = [fn |-> "array_begin", id |-> id, kind |-> k, count |-> n]
  BY DEF Shape
<1>2. Shapes' = <<[fn |-> "array_begin", id |-> id, kind |-> k, count |-> n]>>
  BY <1>1, ShapesOf
<1>3. Contract!ArrayBegins
  BY <1>2, SameWords DEF Contract!ArrayBegins
<1> QED BY <1>3 DEF Contract!Next

\* So does the count of an array.
LEMMA CountStep ==
  ASSUME CInv, NEW byte \in Bytes, NEW v,
         IntegerArrayCounted(byte, v) \/ FixlenArrayCounted(byte, v)
  PROVE  Contract!Next
<1> USE DEF CInv
<1>1. /\ v \in 0..ARRAY_MAX /\ state = "ArrayCount" /\ array_remaining = 0
      /\ "array" \in Features /\ id \in Ids /\ id' = id /\ depth' = depth
      /\ array_kind' = array_kind
  BY EndsFacts, Ceilings
  DEF IntegerArrayCounted, FixlenArrayCounted, Inv, TypeOK, CountsMatchState, ArraysCompiledIn
<1>2. Field = Contract!None
  BY <1>1, NoField DEF InArray
<1>3. CASE IntegerArrayCounted(byte, v)
  <2>1. array_kind \in {"Unsigned", "Signed"}
    BY <1>3 DEF IntegerArrayCounted, Inv, TypeOK, ArrayKinds
  <2>2. CASE v = 0
    <3>1. state' = "Idle"
      BY <1>3, <2>2 DEF IntegerArrayCounted
    <3>2. Field' = Contract!None
      BY <3>1, NoField DEF InArray
    <3> QED
      BY <1>1, <1>2, <1>3, <2>1, <2>2, <3>1, <3>2, ArrayStep
      DEF IntegerArrayCounted, ArrayKinds
  <2>3. CASE v # 0
    <3>1. state' \in {"VarintSigned", "VarintUnsigned"} /\ array_remaining' = v
      BY <1>3, <2>3 DEF IntegerArrayCounted
    <3>2. Field' = [what |-> "array", id |-> id, kind |-> array_kind, left |-> v]
      BY <1>1, <2>3, <3>1 DEF Field, InArray
    <3> QED
      BY <1>1, <1>2, <1>3, <2>1, <2>3, <3>1, <3>2, ArrayStep
      DEF IntegerArrayCounted, ArrayKinds
  <2> QED BY <2>2, <2>3
<1>4. CASE FixlenArrayCounted(byte, v)
  <2>1. state' = "FixlenArrayLen" /\ calls' = <<>>
    BY <1>4 DEF FixlenArrayCounted
  <2>2. Field' = Contract!None
    BY <2>1, NoField DEF InArray
  <2> QED BY <1>1, <1>2, <2>1, <2>2, QuietStep
<1> QED BY <1>3, <1>4

-----------------------------------------------------------------------------
(* Fixlen words *)

\* The subtypes with a width of their own are the floats.
LEMMA Widthless ==
  ASSUME NEW t \in FixlenTypes
  PROVE  /\ Width(t) = 0 => t \in {"Str", "Blob"}
         /\ Width(t) # 0 => t \in {"Fp32", "Fp64"}
         /\ Width(t) \in Nat
BY WidthAssumption DEF FixlenTypes, Width

\* The shape of a run of payload bytes.
LEMMA ChunkShape ==
  ASSUME NEW t \in {"Str", "Blob"}, NEW total, NEW offset, NEW chunk
  PROVE  Shape(payload_chunk(t, total, offset, chunk))
           = Contract!Chunk(t, id, total, offset, Len(chunk))
<1> DEFINE c == payload_chunk(t, total, offset, chunk)
<1>1. c = [fn |-> IF t = "Blob" THEN "blob" ELSE "string", id |-> id,
           total |-> total, offset |-> offset, chunk |-> chunk]
  BY DEF payload_chunk
<1>2. c.fn = Contract!PayloadCall[t] /\ c.fn \in {"string", "blob"}
  BY <1>1 DEF Contract!PayloadCall
<1>3. c.id = id /\ c.total = total /\ c.offset = offset /\ c.chunk = chunk
  BY <1>1
<1> HIDE DEF c
<1>4. Shape(c) = [fn |-> Contract!PayloadCall[t], id |-> id, total |-> total,
                  offset |-> offset, len |-> Len(chunk)]
  BY <1>2, <1>3 DEF Shape
<1> QED BY <1>4 DEF Contract!Chunk, c

\* So does the word of an array of floats.
LEMMA ArrayWordStep ==
  ASSUME CInv, NEW byte \in Bytes, NEW v, NEW t \in FixlenTypes,
         FixlenArrayAnnounced(byte, v, t)
  PROVE  Contract!Next
<1> USE DEF CInv
<1>1. /\ state = "FixlenArrayLen" /\ state' = IF array_remaining = 0 THEN "Idle" ELSE "FixlenVal"
      /\ calls' = <<[fn |-> "array_begin", id |-> id, kind |-> t, count |-> array_remaining]>>
      /\ UNCHANGED <<depth, id, array_remaining>> /\ fixlen_type' = t /\ Width(t) # 0
  BY DEF FixlenArrayAnnounced, FixlenWord, legal_float
<1>2. /\ "array" \in Features /\ id \in Ids /\ array_remaining \in 0..ARRAY_MAX
      /\ t \in ArrayKinds
  BY <1>1, Widthless DEF ArraysCompiledIn, Inv, TypeOK, ArrayKinds
<1>3. Field = Contract!None
  BY <1>1, NoField DEF InArray
<1>4. CASE array_remaining = 0
  <2>1. Field' = Contract!None
    BY <1>1, <1>4, NoField DEF InArray
  <2> QED BY <1>1, <1>2, <1>3, <1>4, <2>1, ArrayStep
<1>5. CASE array_remaining # 0
  <2>1. Field' = [what |-> "array", id |-> id, kind |-> t, left |-> array_remaining]
    BY <1>1, <1>5 DEF Field, InArray
  <2> QED BY <1>1, <1>2, <1>3, <1>5, <2>1, ArrayStep
<1> QED BY <1>4, <1>5

\* So does the word of a field.
LEMMA FieldWordStep ==
  ASSUME CInv, NEW byte \in Bytes, NEW v, NEW t \in FixlenTypes,
         FixlenFieldAnnounced(byte, v, t)
  PROVE  Contract!Next
<1> USE DEF CInv
<1> DEFINE total == v \div 8
           begin == [fn |-> "fixlen_begin", id |-> id, subtype |-> t, total |-> total]
<1>1. v \in Nat
  BY EndsFacts DEF FixlenFieldAnnounced
<1>2. /\ state = "FixlenLen" /\ array_remaining = 0 /\ array_remaining' = 0 /\ id \in Ids
      /\ id' = id /\ depth' = depth
      /\ total \in 0..ARRAY_MAX /\ fixlen_type' = t
      /\ fixlen_total' = total /\ fixlen_remaining' = total
  BY <1>1, Ceilings DEF FixlenFieldAnnounced, FixlenWord, Inv, TypeOK, CountsMatchState
<1>3. /\ Width(t) # 0 => total = Width(t)
      /\ calls' = IF Width(t) = 0 /\ total = 0
                    THEN <<begin, payload_chunk(t, 0, 0, <<>>)>> ELSE <<begin>>
      /\ state' = IF Width(t) # 0 THEN "FixlenVal"
                  ELSE IF total = 0 THEN "Idle" ELSE "FixlenRaw"
  BY DEF FixlenFieldAnnounced, legal_float
<1>4. Shape(begin) = [fn |-> "fixlen_begin", id |-> id, subtype |-> t, total |-> total]
  BY DEF Shape
<1>5. Field = Contract!None /\ state # "Invalid" /\ state' # "Invalid"
  BY <1>2, <1>3, NoField DEF InArray
<1>6. Contract!Width(t) = Width(t) /\ total \in 0..Contract!ARRAY_MAX
        /\ id \in Contract!Ids /\ t \in Contract!FixlenTypes
  BY <1>2, SameWords
<1> HIDE DEF total, begin
<1>7. CASE Width(t) # 0
  <2>1. Shapes' = <<[fn |-> "fixlen_begin", id |-> id, subtype |-> t, total |-> total]>>
    BY <1>3, <1>4, <1>7, ShapesOf
  <2>2. Field' = [what |-> "float", id |-> id, kind |-> t]
    BY <1>2, <1>3, <1>7 DEF Field, InArray
  <2>3. Contract!FixlenBegins
    BY <1>2, <1>3, <1>5, <1>6, <1>7, <2>1, <2>2 DEF Contract!FixlenBegins
  <2> QED BY <2>3 DEF Contract!Next
<1>8. CASE Width(t) = 0 /\ total # 0
  <2>1. Shapes' = <<[fn |-> "fixlen_begin", id |-> id, subtype |-> t, total |-> total]>>
    BY <1>3, <1>4, <1>8, ShapesOf
  <2>2. Field' = [what |-> "payload", id |-> id, kind |-> t, total |-> total, got |-> 0]
    BY <1>2, <1>3, <1>8, Ceilings DEF Field, InArray
  <2>3. Contract!FixlenBegins
    BY <1>2, <1>5, <1>6, <1>8, <2>1, <2>2 DEF Contract!FixlenBegins
  <2> QED BY <2>3 DEF Contract!Next
<1>9. CASE Width(t) = 0 /\ total = 0
  <2>1. Shape(payload_chunk(t, 0, 0, <<>>)) = Contract!Chunk(t, id, 0, 0, 0)
    <3>1. t \in {"Str", "Blob"} /\ Len(<<>>) = 0
      BY <1>9, Widthless
    <3> QED BY <3>1, ChunkShape
  <2>2. Shapes' = <<[fn |-> "fixlen_begin", id |-> id, subtype |-> t, total |-> total],
                    Contract!Chunk(t, id, 0, 0, 0)>>
    BY <1>3, <1>4, <1>9, <2>1, ShapesOf
  <2>3. Field' = Contract!None
    BY <1>2, <1>3, <1>9, NoField DEF InArray
  <2>4. Contract!FixlenBegins
    BY <1>2, <1>5, <1>6, <1>9, <2>2, <2>3 DEF Contract!FixlenBegins
  <2> QED BY <2>4 DEF Contract!Next
<1> QED BY <1>7, <1>8, <1>9

-----------------------------------------------------------------------------
(* Payload bytes *)

\* So does a byte of a float.
LEMMA FloatStep ==
  ASSUME CInv, NEW byte \in Bytes, FloatByte(byte) \/ FloatEnds(byte)
  PROVE  Contract!Next
<1> USE DEF CInv
<1>1. /\ state = "FixlenVal" /\ Width(fixlen_type) # 0 /\ fixlen_type \in {"Fp32", "Fp64"}
      /\ array_remaining \in Nat /\ UNCHANGED <<depth, id, fixlen_type>>
  <2>1. state = "FixlenVal" /\ UNCHANGED <<depth, id, fixlen_type>>
    BY DEF FloatByte, FloatEnds
  <2>2. /\ fixlen_total = Width(fixlen_type) /\ fixlen_remaining \in 1..fixlen_total
        /\ fixlen_total \in Nat /\ array_remaining \in Nat /\ fixlen_type \in FixlenTypes
    BY <2>1, Ceilings DEF Inv, TypeOK, CountsMatchState
  <2>3. Width(fixlen_type) # 0
    BY <2>2
  <2> QED BY <2>1, <2>2, <2>3, Widthless
<1>2. CASE FloatByte(byte)
  <2>1. state' = state /\ array_remaining' = array_remaining /\ calls' = <<>>
    BY <1>2 DEF FloatByte
  <2>2. Field' = Field
    BY <1>1, <2>1 DEF Field, InArray
  <2> QED BY <1>1, <2>1, <2>2, QuietStep
<1>3. CASE FloatEnds(byte)
  <2> DEFINE value == FloatBits(PushedHigh(byte), PushedLow)
             fn    == Contract!ElementCall[fixlen_type]
  <2>1. calls' = <<[fn |-> IF fixlen_type = "Fp64" THEN "fp64" ELSE "fp32", id |-> id,
                    value |-> value]>>
    BY <1>3 DEF FloatEnds
  <2>2. /\ array_remaining' = IF array_remaining = 0 THEN 0 ELSE array_remaining - 1
        /\ state' = IF array_remaining > 1 THEN state ELSE "Idle"
    BY <1>3 DEF FloatEnds, advance_after_element
  <2> HIDE DEF value
  <2>3. calls' = <<[fn |-> fn, id |-> id, value |-> value]>> /\ fn \in {"fp32", "fp64"}
    BY <1>1, <2>1 DEF Contract!ElementCall
  <2> HIDE DEF fn
  <2>4. Shape([fn |-> fn, id |-> id, value |-> value]) = [fn |-> fn, id |-> id]
    BY <2>3 DEF Shape
  <2>5. Shapes' = <<Contract!Call(Contract!ElementCall[fixlen_type], id)>>
    BY <2>3, <2>4, ShapesOf DEF fn, Contract!Call
  <2>6. state # "Invalid" /\ state' # "Invalid"
    BY <1>1, <2>2
  <2>7. CASE array_remaining = 0
    <3>1. Field = [what |-> "float", id |-> id, kind |-> fixlen_type]
      BY <1>1, <2>7 DEF Field, InArray
    <3>2. Field' = Contract!None
      BY <1>1, <2>2, <2>7, NoField DEF InArray
    <3>3. Contract!Float
      BY <1>1, <2>5, <2>6, <3>1, <3>2 DEF Contract!Float
    <3> QED BY <3>3 DEF Contract!Next
  <2>8. CASE array_remaining = 1
    <3>1. Field = [what |-> "array", id |-> id, left |-> 1, kind |-> fixlen_type]
      BY <1>1, <2>8 DEF Field, InArray
    <3>2. Field' = Contract!None
      BY <1>1, <2>2, <2>8, NoField DEF InArray
    <3>3. Contract!Element
      BY <1>1, <2>5, <2>6, <3>1, <3>2 DEF Contract!Element
    <3> QED BY <3>3 DEF Contract!Next
  <2>9. CASE array_remaining \notin {0, 1}
    <3>1. Field = [what |-> "array", id |-> id, left |-> array_remaining,
                   kind |-> fixlen_type]
      BY <1>1, <2>9 DEF Field, InArray
    <3>2. Field' = [what |-> "array", id |-> id, left |-> array_remaining - 1,
                    kind |-> fixlen_type]
      BY <1>1, <2>2, <2>9 DEF Field, InArray
    <3>3. Field' = [Field EXCEPT !.left = @ - 1]
      BY <3>1, <3>2
    <3>4. Contract!Element
      BY <1>1, <2>5, <2>6, <2>9, <3>1, <3>3 DEF Contract!Element
    <3> QED BY <3>4 DEF Contract!Next
  <2> QED BY <2>7, <2>8, <2>9
<1> QED BY <1>2, <1>3

\* So does a run of payload bytes.
LEMMA RawStep ==
  ASSUME CInv, NEW chunk \in Runs, RawRun(chunk)
  PROVE  Contract!Next
<1> USE DEF CInv
<1> DEFINE got == fixlen_total - fixlen_remaining
           len == Len(chunk)
<1>1. /\ state = "FixlenRaw" /\ fixlen_type \in {"Str", "Blob"} /\ array_remaining = 0
      /\ fixlen_total \in Nat /\ fixlen_remaining \in 1..fixlen_total /\ left \in Nat \ {0}
  <2>1. state = "FixlenRaw" /\ left > 0
    BY DEF RawRun
  <2> QED
    BY <2>1, Widthless, Ceilings, InputAssumption DEF Inv, TypeOK, CountsMatchState
<1>2. len \in 1..fixlen_remaining
  BY <1>1 DEF RawRun
<1>3. /\ fixlen_remaining' = fixlen_remaining - len
      /\ state' = IF fixlen_remaining' = 0 THEN "Idle" ELSE state
      /\ UNCHANGED <<depth, id, array_remaining, fixlen_type, fixlen_total>>
      /\ calls' = <<payload_chunk(fixlen_type, fixlen_total, got, chunk)>>
  BY DEF RawRun
<1>4. Shapes' = <<Contract!Chunk(fixlen_type, id, fixlen_total, got, len)>>
  BY <1>1, <1>3, ChunkShape, ShapesOf
<1> HIDE DEF len
<1>5. Field = [what |-> "payload", id |-> id, kind |-> fixlen_type,
               total |-> fixlen_total, got |-> got]
  BY <1>1 DEF Field, InArray
<1>6. Field' = IF got + len = fixlen_total THEN Contract!None
               ELSE [Field EXCEPT !.got = @ + len]
  <2>1. CASE len = fixlen_remaining
    <3>1. state' = "Idle" /\ got + len = fixlen_total
      BY <1>1, <1>3, <2>1
    <3>2. Field' = Contract!None
      BY <3>1, NoField DEF InArray
    <3> QED BY <3>1, <3>2
  <2>2. CASE len # fixlen_remaining
    <3>1. state' = "FixlenRaw" /\ got + len # fixlen_total
            /\ fixlen_total' - fixlen_remaining' = got + len
      BY <1>1, <1>2, <1>3, <2>2
    <3>2. Field' = [what |-> "payload", id |-> id, kind |-> fixlen_type,
                    total |-> fixlen_total, got |-> got + len]
      BY <1>3, <3>1 DEF Field, InArray
    <3> QED BY <1>5, <3>1, <3>2
  <2> QED BY <2>1, <2>2
<1>7. state # "Invalid" /\ state' # "Invalid"
  BY <1>1, <1>3
<1>8. len \in 1..(fixlen_total - got)
  BY <1>1, <1>2
<1> HIDE DEF got
<1>9. Contract!PayloadChunk
  BY <1>3, <1>4, <1>5, <1>6, <1>7, <1>8 DEF Contract!PayloadChunk
<1> QED BY <1>9 DEF Contract!Next

-----------------------------------------------------------------------------
(* Every step *)

\* Every step of the decoder is one the contract allows, or none.
LEMMA ContractStep == CInv /\ [Next]_vars => [Contract!Next]_Contract!vars
<1> SUFFICES ASSUME CInv, [Next]_vars PROVE Contract!Next \/ UNCHANGED Contract!vars
  OBVIOUS
<1> USE DEF CInv
<1>1. CASE UNCHANGED vars
  BY <1>1 DEF vars, decoder, Contract!vars, Field, InArray, Shapes
<1>2. CASE FeedRefused \/ (\E n \in 0..MaxChunk : FeedBegins(n)) \/ FeedReturns
  <2>1. calls' = <<>> /\ UNCHANGED decoder
    BY <1>2 DEF FeedRefused, FeedBegins, FeedReturns
  <2>2. Shapes' = <<>> /\ depth' = depth /\ Field' = Field /\ state' = state
    BY <2>1, ShapesOf DEF decoder, Field, InArray
  <2> QED BY <2>2 DEF Contract!Next, Contract!Quiet
<1>3. ASSUME NEW byte \in Input, step(byte) PROVE Contract!Next
  <2> DEFINE v == Accumulate(acc, byte, shift)
  <2>0. byte \in Bytes
    BY InputAssumption
  <2>1. CASE Continues(byte)
    <3>1. /\ state \in VarintStates /\ calls' = <<>>
          /\ UNCHANGED <<state, array_kind, fixlen_type, depth, id, array_remaining,
                         fixlen_total, fixlen_remaining>>
      BY <2>1 DEF Continues
    <3>2. Field' = Field /\ state # "Invalid"
      BY <3>1 DEF Field, InArray, VarintStates
    <3> QED BY <3>1, <3>2, QuietStep
  <2>2. CASE OverlongRejected(byte) \/ HeaderRejected(byte, v) \/ CountRejected(byte, v)
               \/ FixlenWordRejected(byte, v)
    BY <2>2, FailsStep DEF OverlongRejected, HeaderRejected, CountRejected, FixlenWordRejected
  <2>3. CASE HeaderOpensValue(byte, v) \/ HeaderBeginsSequence(byte, v)
               \/ HeaderEndsSequence(byte, v)
    BY <2>0, <2>3, HeaderStep
  <2>4. CASE IntegerEnds(byte, v)
    BY <2>4, IntegerStep
  <2>5. CASE IntegerArrayCounted(byte, v) \/ FixlenArrayCounted(byte, v)
    BY <2>0, <2>5, CountStep
  <2>6. CASE \E t \in FixlenTypes : FixlenArrayAnnounced(byte, v, t)
                                      \/ FixlenFieldAnnounced(byte, v, t)
    BY <2>0, <2>6, ArrayWordStep, FieldWordStep
  <2>7. CASE FloatByte(byte) \/ FloatEnds(byte)
    BY <2>0, <2>7, FloatStep
  <2> QED BY <1>3, <2>1, <2>2, <2>3, <2>4, <2>5, <2>6, <2>7 DEF step, Handles
<1>4. ASSUME NEW chunk \in Runs, RawRun(chunk) PROVE Contract!Next
  BY <1>4, RawStep
<1> QED BY <1>1, <1>2, <1>3, <1>4 DEF Next, Decodes

\* A new decoder has promised nothing yet.
LEMMA ContractInit == Init => Contract!Init
<1> SUFFICES ASSUME Init PROVE Contract!Init
  OBVIOUS
<1>1. depth = 0 /\ state = "Idle" /\ calls = <<>>
  BY DEF Init
<1>2. Field = Contract!None
  BY <1>1, NoField DEF InArray
<1>3. Shapes = <<>>
  BY <1>1 DEF Shapes
<1> QED BY <1>1, <1>2, <1>3 DEF Contract!Init

\* In every build, the callbacks of every sequence of feeds, whatever bytes they
\* bring and however these are cut, are ones the visitor contract allows.
THEOREM ContractKept == Spec => KeepsContract
<1>1. Init => CInv
  BY InitInv DEF CInv, ArraysCompiledIn, Init
<1>2. CInv /\ [Next]_vars => CInv'
  BY NextInv, ArraysCompiledInNext DEF CInv
<1> QED
  BY <1>1, <1>2, ContractInit, ContractStep, PTL DEF Spec, KeepsContract, Contract!Spec

-----------------------------------------------------------------------------
(* What the visitor hears *)

\* What no call, one call and two calls leave in the log.
LEMMA HeardIs ==
  ASSUME NEW events
  PROVE  /\ Heard(events, <<>>) = events
         /\ \A c : Heard(events, <<c>>) = Join(events, c)
         /\ \A c, d : Heard(events, <<c, d>>) = Join(Join(events, c), d)
<1>1. Heard(events, <<>>) = events
  <2> DEFINE g == CHOOSE h : h = [n \in 0..0 |-> IF n = 0 THEN events
                                                 ELSE Join(h[n - 1], <<>>[n])]
  <2>1. Heard(events, <<>>) = g[0]
    BY DEF Heard
  <2> DEFINE f == [n \in 0..0 |-> events]
  <2>2. f = [n \in 0..0 |-> IF n = 0 THEN events ELSE Join(f[n - 1], <<>>[n])]
    OBVIOUS
  <2> HIDE DEF f
  <2>3. g = [n \in 0..0 |-> IF n = 0 THEN events ELSE Join(g[n - 1], <<>>[n])]
    BY <2>2, Zenon
  <2> HIDE DEF g
  <2>4. g[0] = events
    BY <2>3
  <2> QED BY <2>1, <2>4
<1>2. ASSUME NEW c PROVE Heard(events, <<c>>) = Join(events, c)
  <2> DEFINE g == CHOOSE h : h = [n \in 0..1 |-> IF n = 0 THEN events
                                                 ELSE Join(h[n - 1], <<c>>[n])]
  <2>1. Heard(events, <<c>>) = g[1]
    BY DEF Heard
  <2> DEFINE J == Join(events, c)
             f == [n \in 0..1 |-> IF n = 0 THEN events ELSE J]
             F == [n \in 0..1 |-> IF n = 0 THEN events ELSE Join(f[n - 1], <<c>>[n])]
  <2>2. f = F
    <3>1. f[0] = events /\ f[1] = J
      OBVIOUS
    <3>2. F[0] = events /\ F[1] = Join(f[0], c)
      BY <3>1
    <3>3. \A n \in 0..1 : n = 0 \/ n = 1
      OBVIOUS
    <3>4. f = [n \in 0..1 |-> f[n]] /\ F = [n \in 0..1 |-> F[n]]
      OBVIOUS
    <3> HIDE DEF f, F
    <3>5. \A n \in 0..1 : f[n] = F[n]
      BY <3>1, <3>2, <3>3
    <3> QED BY <3>4, <3>5
  <2> HIDE DEF f
  <2>3. \E h : h = [n \in 0..1 |-> IF n = 0 THEN events ELSE Join(h[n - 1], <<c>>[n])]
    BY <2>2, Zenon
  <2>4. g = [n \in 0..1 |-> IF n = 0 THEN events ELSE Join(g[n - 1], <<c>>[n])]
    BY <2>3, Zenon
  <2> HIDE DEF g
  <2>5. g[0] = events /\ g[1] = Join(g[0], c)
    BY <2>4
  <2> QED BY <2>1, <2>5
<1>3. ASSUME NEW c, NEW d PROVE Heard(events, <<c, d>>) = Join(Join(events, c), d)
  <2> DEFINE g == CHOOSE h : h = [n \in 0..2 |-> IF n = 0 THEN events
                                                 ELSE Join(h[n - 1], <<c, d>>[n])]
  <2>1. Heard(events, <<c, d>>) = g[2]
    BY DEF Heard
  <2> DEFINE J == Join(events, c)
             K == Join(J, d)
             f == [n \in 0..2 |-> IF n = 0 THEN events ELSE IF n = 1 THEN J ELSE K]
             F == [n \in 0..2 |-> IF n = 0 THEN events ELSE Join(f[n - 1], <<c, d>>[n])]
  <2>2. f = F
    <3>1. f[0] = events /\ f[1] = J /\ f[2] = K
      OBVIOUS
    <3>2. F[0] = events /\ F[1] = Join(f[0], c) /\ F[2] = Join(f[1], d)
      OBVIOUS
    <3>3. \A n \in 0..2 : n = 0 \/ n = 1 \/ n = 2
      OBVIOUS
    <3>4. f = [n \in 0..2 |-> f[n]] /\ F = [n \in 0..2 |-> F[n]]
      OBVIOUS
    <3> HIDE DEF f, F
    <3>5. \A n \in 0..2 : f[n] = F[n]
      BY <3>1, <3>2, <3>3
    <3> QED BY <3>4, <3>5
  <2> HIDE DEF f
  <2>3. \E h : h = [n \in 0..2 |-> IF n = 0 THEN events ELSE Join(h[n - 1], <<c, d>>[n])]
    BY <2>2, Zenon
  <2>4. g = [n \in 0..2 |-> IF n = 0 THEN events ELSE Join(g[n - 1], <<c, d>>[n])]
    BY <2>3, Zenon
  <2> HIDE DEF g
  <2>5. g[0] = events /\ g[1] = Join(g[0], c) /\ g[2] = Join(g[1], d)
    BY <2>4
  <2> QED BY <2>1, <2>5
<1> QED BY <1>1, <1>2, <1>3

\* A callback that does not continue a payload is an event of its own.
LEMMA JoinsAppend ==
  ASSUME NEW events, NEW c, c.fn \notin {"string", "blob"} \/ c.offset = 0
  PROVE  Join(events, c) = Append(events, c)
BY DEF Join

\* What a step adds to the log.
LEMMA HearsNothing ==
  ASSUME Hears, calls' = <<>> PROVE log' = log
BY HeardIs DEF Hears

\* One call that is no piece of an earlier payload adds one event.
LEMMA HearsOne ==
  ASSUME Hears, NEW e, calls' = <<e>>, e.fn \notin {"string", "blob"} \/ e.offset = 0
  PROVE  log' = Append(log, e)
<1>1. Heard(log, <<e>>) = Join(log, e)
  BY HeardIs
<1>2. Join(log, e) = Append(log, e)
  BY JoinsAppend
<1> QED BY <1>1, <1>2 DEF Hears

\* Two of them add two.
LEMMA HearsTwo ==
  ASSUME Hears, NEW e, NEW d, calls' = <<e, d>>, e.fn \notin {"string", "blob"},
         d.fn \notin {"string", "blob"} \/ d.offset = 0
  PROVE  log' = Append(Append(log, e), d)
<1>1. Heard(log, <<e, d>>) = Join(Join(log, e), d)
  BY HeardIs
<1>2. Join(log, e) = Append(log, e)
  BY JoinsAppend
<1>3. Join(Append(log, e), d) = Append(Append(log, e), d)
  BY JoinsAppend
<1> QED BY <1>1, <1>2, <1>3 DEF Hears

\* The log stays a sequence, however a step's callbacks join it.
LEMMA Joined ==
  ASSUME NEW events, IsSequence(events), NEW c PROVE IsSequence(Join(events, c))
<1>1. PICK E : events \in Seq(E)
  BY DEF IsSequence
<1> DEFINE N == Len(events)
           x == [events[N] EXCEPT !.chunk = @ \o c.chunk]
           z == [events EXCEPT ![N] = x]
           G == E \cup {x}
<1>2. events \in Seq(G) /\ N \in Nat
  <2> HIDE DEF x
  <2> QED BY <1>1
<1>3. IsSequence(z)
  <2> HIDE DEF x
  <2>1. CASE N \in 1..N
    <3>1. x \in G
      OBVIOUS
    <3> HIDE DEF G
    <3>2. z \in Seq(G)
      BY <1>2, <2>1, <3>1, ExceptSeq
    <3> QED BY <3>2 DEF IsSequence
  <2>2. CASE N \notin 1..N
    <3>1. N = 0 /\ events \in [1..N -> G]
      BY <1>2, <2>2
    <3>2. z \in [1..N -> G]
      BY <3>1
    <3> HIDE DEF z, G
    <3>3. z \in Seq(G)
      BY <1>2, <3>2
    <3> QED BY <3>3 DEF IsSequence
  <2> QED BY <2>1, <2>2
<1>4. IsSequence(Append(events, c))
  BY AppendIs
<1> HIDE DEF z, G
<1>5. Join(events, c) = z \/ Join(events, c) = Append(events, c)
  BY DEF Join, z, N, x
<1> QED BY <1>3, <1>4, <1>5

\* What has been heard stays a sequence.
LEMMA HearsSequence ==
  ASSUME Hears, IsSequence(log),
         calls' = <<>> \/ (\E e : calls' = <<e>>) \/ (\E e, d : calls' = <<e, d>>)
  PROVE  IsSequence(log')
<1>0. PICK l : l = log
  OBVIOUS
<1>1. ASSUME NEW e PROVE IsSequence(Heard(l, <<e>>))
  <2>1. Heard(l, <<e>>) = Join(l, e)
    BY HeardIs
  <2> QED BY <1>0, <2>1, Joined
<1>2. ASSUME NEW e, NEW d PROVE IsSequence(Heard(l, <<e, d>>))
  <2>1. IsSequence(Join(l, e))
    BY <1>0, Joined
  <2>2. IsSequence(Join(Join(l, e), d))
    BY <2>1, Joined
  <2>3. Heard(l, <<e, d>>) = Join(Join(l, e), d)
    BY HeardIs
  <2> QED BY <2>2, <2>3
<1> QED BY <1>0, <1>1, <1>2, HeardIs DEF Hears

-----------------------------------------------------------------------------
(* Where the reading is, by the decoder's state *)

\* The elements still to come of an array, or of the scalar that is one.
ToCome == IF array_remaining = 0 THEN 1 ELSE array_remaining

\* The item whose bytes are being taken.
Awaited ==
  IF state = "Idle" THEN AHeader
  ELSE IF state = "VarintUnsigned" THEN Integers(id, "Unsigned", ToCome)
  ELSE IF state = "VarintSigned" THEN Integers(id, "Signed", ToCome)
  ELSE IF state = "FixlenLen" THEN AWord(id)
  ELSE IF state = "ArrayCount" THEN ACount(id, array_kind)
  ELSE IF state = "FixlenArrayLen" THEN AnArrayWord(id, array_remaining)
  ELSE IF state = "FixlenVal" THEN Floats(id, fixlen_type, ToCome)
  ELSE APayload(id, fixlen_type, fixlen_total)

\* The float window, of one word or two, and its width.
InTwo      == TwoWords /\ fixlen_type = "Fp64"
InWindow   == IF InTwo THEN acc * 2^ValueBits + acc_lo ELSE acc
WindowBits == IF InTwo THEN 2 * ValueBits ELSE ValueBits

\* The item began at p, and what the decoder has made of its bytes is what they
\* say: a varint below shift, a float at the top of its window, a payload up to
\* what remains of it.
InItem(p) ==
  LET taken == Len(seen) - p + 1
  IN /\ state \in VarintStates =>
          /\ \A i \in p..Len(seen) : More(seen[i])
          /\ shift = PayloadBits * taken
          /\ acc = LittleEndian(Digits(seen, p, Len(seen)), PayloadBits)
     /\ state \in {"FixlenVal", "FixlenRaw"} => fixlen_total - fixlen_remaining = taken
     /\ state = "FixlenVal" =>
          LET digits == LittleEndian(SubSeq(seen, p, Len(seen)), ByteBits)
          IN digits \in Nat /\ InWindow = digits * 2^(WindowBits - ByteBits * taken)

\* What the visitor has seen: the events of the items before, and what it has
\* been handed of a payload.
History(p, events) ==
  IF state = "FixlenRaw" /\ fixlen_remaining # fixlen_total
    THEN Append(events, PayloadEvent(Awaited, SubSeq(seen, p, Len(seen)))) ELSE events

\* Whatever follows, n items have been read and the next begins at p.
Reached(n, p, events) ==
  /\ n \in Nat /\ p \in 1..(Len(seen) + 1) /\ n < p /\ IsSequence(events)
  /\ ReadingIs(seen, n, At(p, depth, Awaited, events))
  /\ InItem(p)
  /\ log = History(p, events)

\* Whatever follows, the message is malformed.
Malformed(n) ==
  n \in 1..Len(seen) /\ ReadingIs(seen, n, Ended("InvalidMsg", log))

HInv ==
  /\ seen \in Seq(Bytes)
  /\ state = "Invalid" => \E n : Malformed(n)
  /\ state # "Invalid" => \E n, p, events : Reached(n, p, events)

-----------------------------------------------------------------------------
(* From one item to the next *)

\* The decoder is at the beginning of the next item.
LEMMA Fresh ==
  ASSUME seen' \in Seq(Bytes), NEW n \in 1..Len(seen'), IsSequence(log'),
         ReadingIs(seen', n, At(Len(seen') + 1, depth', Awaited', log')),
         state' # "Invalid", shift' = 0, acc' = 0, state' = "FixlenVal" => acc_lo' = 0,
         state' \in {"FixlenVal", "FixlenRaw"} =>
           fixlen_total' \in Nat /\ fixlen_remaining' = fixlen_total'
  PROVE  HInv'
<1> DEFINE p == Len(seen') + 1
<1>1. Len(seen') \in Nat /\ p \in 1..(Len(seen') + 1) /\ n < p /\ n \in Nat
  BY LenProperties
<1>2. Len(seen') - p + 1 = 0
  BY <1>1
<1>3. PayloadBits * 0 = 0 /\ ByteBits * 0 = 0
  BY Widths
<1>4. LittleEndian(Digits(seen', p, Len(seen')), PayloadBits) = 0
  <2>1. Digits(seen', p, Len(seen')) = <<>>
    BY <1>2 DEF Digits
  <2> QED BY <2>1, LittleEndianGrows
<1>5. LittleEndian(SubSeq(seen', p, Len(seen')), ByteBits) = 0
  <2>1. SubSeq(seen', p, Len(seen')) = <<>>
    BY <1>1
  <2> QED BY <2>1, LittleEndianGrows
<1>6. state' = "FixlenVal" => InWindow' = 0
  <2>1. 0 * 2^ValueBits = 0
    BY Widths
  <2> QED BY <2>1 DEF InWindow, InTwo
<1>7. 0 * 2^(WindowBits' - 0) = 0
  <2>1. WindowBits' \in 0..(2 * ValueBits)
    BY Widths DEF WindowBits
  <2>2. \A x \in 0..(2 * ValueBits) : 0 * 2^(x - 0) = 0
    <3> SUFFICES ASSUME NEW x \in 0..(2 * ValueBits) PROVE 0 * 2^(x - 0) = 0
      OBVIOUS
    <3>1. x - 0 \in 0..(2 * ValueBits)
      BY Widths
    <3>2. 2^(x - 0) \in Nat
      BY <3>1, PowersAdd
    <3> QED BY <3>2
  <2> QED BY <2>1, <2>2
<1>8. \A i \in p..Len(seen') : FALSE
  BY <1>1
<1>9. PICK q, events : q = p /\ events = log'
  OBVIOUS
<1> HIDE DEF p
<1>10. InItem(q)'
  BY <1>1, <1>2, <1>3, <1>4, <1>5, <1>6, <1>7, <1>8, <1>9 DEF InItem
<1>11. log' = History(q, events)'
  BY <1>9 DEF History
<1>12. Reached(n, q, events)'
  BY <1>1, <1>9, <1>10, <1>11 DEF Reached, p
<1> QED BY <1>12 DEF HInv

\* A byte of a varint: the item is malformed, or read as the value handed to the
\* handlers, or has a byte more.
LEMMA VarintItem ==
  ASSUME Inv, seen \in Seq(Bytes), NEW byte \in Bytes, state \in VarintStates,
         seen' = Append(seen, byte), NEW n, NEW p, NEW events, Reached(n, p, events)
  PROVE  LET c == At(p, depth, Awaited, events)
             v == Accumulate(acc, byte, shift)
         IN /\ log = events
            /\ Overlong(byte, shift) => NextIs(seen', c, Ended("InvalidMsg", log))
            /\ ~Overlong(byte, shift) /\ ~More(byte) =>
                 NextIs(seen', c, Read(c, v, Len(seen') + 1))
            /\ ~Overlong(byte, shift) =>
                 v = LittleEndian(Digits(seen', p, Len(seen')), PayloadBits)
<1> DEFINE c == At(p, depth, Awaited, events)
           v == Accumulate(acc, byte, shift)
           s == Append(seen, byte)
           q == Len(seen) + 1
<1>1. /\ s \in Seq(Bytes) /\ Len(seen) \in Nat /\ Len(s) = q /\ s[q] = byte
      /\ \A i \in 1..Len(seen) : s[i] = seen[i]
  BY Grown
<1>2. log = events
  BY DEF Reached, History, VarintStates
<1>3. /\ p \in 1..q /\ p \in Nat /\ q \in Nat /\ InItem(p)
      /\ Len(seen) - p + 1 = q - p /\ q - 1 = Len(seen)
  BY <1>1 DEF Reached
<1>4. /\ \A i \in p..(q - 1) : More(s[i])
      /\ shift = PayloadBits * (q - p)
      /\ acc = LittleEndian(Digits(seen, p, q - 1), PayloadBits)
  <2>1. \A i \in p..(q - 1) : i \in 1..Len(seen)
    BY <1>3
  <2> QED BY <1>1, <1>3, <2>1 DEF InItem
<1>5. acc \in Nat /\ acc < 2^shift /\ shift < ValueBits
  BY Widths DEF Inv, TypeOK, BitsBelowShift, Unsigned
<1>6. \A t \in Seq(Bytes) :
        /\ s \o t \in Seq(Bytes) /\ Len(s \o t) = q + Len(t) /\ Len(t) \in Nat
        /\ \A i \in 1..q : (s \o t)[i] = s[i]
  <2> HIDE DEF s, q
  <2> QED BY <1>1, Followed
<1>7. ASSUME NEW t \in Seq(Bytes)
      PROVE  /\ Overlong(byte, shift) => ReadVarint(s \o t, p) = [is |-> "malformed"]
             /\ ~Overlong(byte, shift) =>
                  /\ v = LittleEndian(Digits(s \o t, p, q), PayloadBits)
                  /\ ~More(byte) =>
                       ReadVarint(s \o t, p) = [is |-> "read", next |-> q + 1, value |-> v]
  <2> DEFINE u == s \o t
  <2>1. /\ u \in Seq(Bytes) /\ p \in 1..Len(u) /\ q \in p..Len(u) /\ u[q] = byte
        /\ \A i \in p..(q - 1) : u[i] = s[i]
    <3> HIDE DEF q, s
    <3>1. \A i \in p..(q - 1) : i \in 1..q
      BY <1>3
    <3>2. q \in 1..q
      BY <1>3
    <3>3. u \in Seq(Bytes) /\ Len(u) = q + Len(t) /\ \A i \in 1..q : u[i] = s[i]
      BY <1>6
    <3>4. p \in 1..Len(u) /\ q \in p..Len(u)
      BY <1>3, <1>6, <3>3
    <3> HIDE DEF u
    <3> QED BY <1>1, <3>1, <3>2, <3>3, <3>4
  <2>2. \A i \in p..(q - 1) : u[i] = seen[i]
    <3>1. \A i \in p..(q - 1) : i \in 1..Len(seen)
      BY <1>3
    <3> QED BY <1>1, <2>1, <3>1
  <2>3. Digits(u, p, q - 1) = Digits(seen, p, q - 1)
    <3> HIDE DEF u, s, q
    <3>1. q - 1 \in Int
      BY <1>3
    <3> QED BY <1>3, <2>2, <3>1, DigitsSame
  <2>4. acc = LittleEndian(Digits(u, p, q - 1), PayloadBits)
    BY <1>4, <2>3
  <2>5. \A i \in p..(q - 1) : More(u[i])
    BY <1>4, <2>1
  <2> HIDE DEF u, s, q
  <2>6. /\ Overlong(u[q], shift) => ReadVarint(u, p) = [is |-> "malformed"]
        /\ ~Overlong(u[q], shift) =>
             /\ Accumulate(acc, u[q], shift) = LittleEndian(Digits(u, p, q), PayloadBits)
             /\ ~More(u[q]) =>
                  ReadVarint(u, p) = [is |-> "read", next |-> q + 1,
                                      value |-> Accumulate(acc, u[q], shift)]
    BY <1>4, <1>5, <2>1, <2>4, <2>5, VarintReads
  <2> QED BY <2>1, <2>6 DEF u
<1>8. /\ c.verdict = "none" /\ c.p = p /\ c.events = events
      /\ c.awaits = Awaited
  BY DEF At
<1>9. Awaited.is \in {"header", "integers", "count", "array word", "word"}
  BY DEF Awaited, AHeader, Integers, ACount, AnArrayWord, AWord, VarintStates
<1>10. ASSUME NEW t \in Seq(Bytes) PROVE Item(s \o t, c) = Varint(s \o t, c)
  <2>1. ~(p > Len(s \o t))
    BY <1>3, <1>6
  <2> HIDE DEF s, c
  <2> QED BY <1>8, <1>9, <2>1 DEF Item
<1>11. ASSUME Overlong(byte, shift), NEW t \in Seq(Bytes)
       PROVE  Item(s \o t, c) = Ended("InvalidMsg", log)
  <2> HIDE DEF s, c
  <2> QED BY <1>2, <1>7, <1>8, <1>10, <1>11 DEF Varint
<1>12. ASSUME ~Overlong(byte, shift), ~More(byte), NEW t \in Seq(Bytes)
       PROVE  Item(s \o t, c) = Read(c, v, q + 1)
  <2> HIDE DEF s, c, v, q
  <2> QED BY <1>7, <1>8, <1>10, <1>12 DEF Varint
<1>13. ASSUME ~Overlong(byte, shift)
       PROVE  v = LittleEndian(Digits(s, p, q), PayloadBits)
  <2>1. <<>> \in Seq(Bytes)
    OBVIOUS
  <2>2. v = LittleEndian(Digits(s \o <<>>, p, q), PayloadBits)
    BY <1>7, <1>13, <2>1
  <2>3. s \o <<>> = s
    <3> HIDE DEF s
    <3> QED BY <1>1, ConcatEmptySeq
  <2> QED BY <2>2, <2>3
<1> HIDE DEF c, v
<1> QED BY <1>1, <1>2, <1>11, <1>12, <1>13 DEF c, v, s, q, NextIs

-----------------------------------------------------------------------------
(* The handlers of a finished varint read the item the grammar reads *)

\* A header.
LEMMA HeaderIsRead ==
  ASSUME Inv, Hears, NEW byte \in Bytes, NEW v, NEW p, NEW q
  PROVE  LET c == At(p, depth, Awaited, log)
         IN /\ HeaderOpensValue(byte, v) \/ HeaderBeginsSequence(byte, v)
                 \/ HeaderEndsSequence(byte, v)
                 => Read(c, v, q) = At(q, depth', Awaited', log')
            /\ HeaderRejected(byte, v) => Read(c, v, q) = Ended("InvalidMsg", log) /\ log' = log
<1> DEFINE c == At(p, depth, Awaited, log)
           f == v \div 8
           t == v % 8
           bad == \/ f > ID_MAX \/ t \notin WireTypes
                  \/ t = T_SEQUENCE_START /\ depth = MaxDepth
                  \/ t = T_SEQUENCE_END /\ depth = 0
<1>1. ASSUME state = "Idle"
      PROVE  Read(c, v, q) =
               IF bad THEN Ended("InvalidMsg", log)
               ELSE IF t = T_SEQUENCE_START
                 THEN At(q, depth + 1, AHeader, Append(log, [fn |-> "sequence_begin", id |-> f]))
               ELSE IF t = T_SEQUENCE_END
                 THEN At(q, depth - 1, AHeader, Append(log, [fn |-> "sequence_end"]))
               ELSE At(q, depth, Opened(f, t), log)
  <2>1. Awaited = AHeader /\ Awaited.is = "header"
    BY <1>1 DEF Awaited, AHeader
  <2>2. Read(c, v, q) = FieldHeader(c, v, q) /\ c.nest = depth /\ c.events = log
    <3>1. c.nest = depth /\ c.awaits = Awaited /\ c.events = log
      BY DEF At
    <3> HIDE DEF c
    <3> QED BY <2>1, <3>1 DEF Read
  <2> HIDE DEF c
  <2> QED BY <2>2 DEF FieldHeader
<1>2. ASSUME HeaderOpensValue(byte, v) PROVE Read(c, v, q) = At(q, depth', Awaited', log')
  <2>1. /\ state = "Idle" /\ f <= ID_MAX /\ t \in WireTypes /\ t \in 0..5 /\ v \in Nat
        /\ id' = f /\ depth' = depth /\ calls' = <<>> /\ array_remaining' = array_remaining
        /\ state' = ValueState[t]
    BY <1>2, EndsFacts DEF HeaderOpensValue
  <2>2. log' = log
    BY <2>1, HearsNothing
  <2>3. array_remaining = 0
    BY <2>1 DEF Inv, CountsMatchState
  <2>4. t = 0 \/ t = 1 \/ t = 2 \/ t = 3 \/ t = 4 \/ t = 5
    BY <2>1
  <2>5. /\ t = 0 => state' = "VarintUnsigned"
        /\ t = 1 => state' = "VarintSigned"
        /\ t = 2 => state' = "FixlenLen"
        /\ t \in {3, 4, 5} => state' = "ArrayCount"
    BY <2>1, <2>4 DEF ValueState, T_VARINT_UNSIGNED, T_VARINT_SIGNED, T_FIXLEN
  <2>6. /\ t = 3 => array_kind' = "Unsigned"
        /\ t = 4 => array_kind' = "Signed"
        /\ t = 5 => array_kind' = "Fp32"
    BY <1>2 DEF HeaderOpensValue, T_VARINTARRAY_UNSIGNED, T_VARINTARRAY_SIGNED, T_FIXLENARRAY
  <2>7. Awaited' = Opened(f, t)
    <3> HIDE DEF f, t
    <3> QED BY <2>1, <2>3, <2>4, <2>5, <2>6
        DEF Awaited, Opened, ToCome, T_VARINT_UNSIGNED, T_VARINT_SIGNED, T_FIXLEN,
            T_VARINTARRAY_UNSIGNED, T_VARINTARRAY_SIGNED
  <2>8. ~bad /\ t # T_SEQUENCE_START /\ t # T_SEQUENCE_END
    <3>1. f \in Nat
      BY <2>1
    <3> HIDE DEF f, t
    <3> QED BY <2>1, <2>4, <3>1, Ceilings DEF T_SEQUENCE_START, T_SEQUENCE_END
  <2> HIDE DEF c, f, t, bad
  <2> QED BY <1>1, <2>1, <2>2, <2>7, <2>8
<1>3. ASSUME HeaderBeginsSequence(byte, v) PROVE Read(c, v, q) = At(q, depth', Awaited', log')
  <2>1. /\ state = "Idle" /\ state' = "Idle" /\ f <= ID_MAX /\ t \in WireTypes
        /\ t = T_SEQUENCE_START /\ v \in Nat
        /\ depth < MaxDepth /\ depth' = depth + 1
        /\ calls' = <<[fn |-> "sequence_begin", id |-> f]>>
    BY <1>3, EndsFacts DEF HeaderBeginsSequence
  <2>2. log' = Append(log, [fn |-> "sequence_begin", id |-> f])
    <3>1. PICK e : e = [fn |-> "sequence_begin", id |-> f]
      OBVIOUS
    <3> QED BY <2>1, <3>1, HearsOne
  <2>3. Awaited' = AHeader
    BY <2>1 DEF Awaited
  <2>4. ~bad
    <3>1. f \in Nat /\ MaxDepth \in Nat
      BY <2>1, WidthAssumption
    <3> HIDE DEF f, t
    <3> QED BY <2>1, <3>1, Ceilings DEF T_SEQUENCE_START, T_SEQUENCE_END, Inv, TypeOK
  <2> HIDE DEF c, f, t, bad
  <2> QED BY <1>1, <2>1, <2>2, <2>3, <2>4
<1>4. ASSUME HeaderEndsSequence(byte, v) PROVE Read(c, v, q) = At(q, depth', Awaited', log')
  <2>1. /\ state = "Idle" /\ state' = "Idle" /\ f <= ID_MAX /\ t \in WireTypes
        /\ t = T_SEQUENCE_END /\ v \in Nat /\ depth # 0 /\ depth' = depth - 1
        /\ calls' = <<[fn |-> "sequence_end"]>>
    BY <1>4, EndsFacts DEF HeaderEndsSequence
  <2>2. log' = Append(log, [fn |-> "sequence_end"])
    <3>1. PICK e : e = [fn |-> "sequence_end"]
      OBVIOUS
    <3> QED BY <2>1, <3>1, HearsOne
  <2>3. Awaited' = AHeader
    BY <2>1 DEF Awaited
  <2>4. ~bad /\ t # T_SEQUENCE_START
    <3>1. f \in Nat
      BY <2>1
    <3> HIDE DEF f, t
    <3> QED BY <2>1, <3>1, Ceilings DEF T_SEQUENCE_START, T_SEQUENCE_END
  <2> HIDE DEF c, f, t, bad
  <2> QED BY <1>1, <2>1, <2>2, <2>3, <2>4
<1>5. ASSUME HeaderRejected(byte, v)
      PROVE  Read(c, v, q) = Ended("InvalidMsg", log) /\ log' = log
  <2>1. state = "Idle" /\ BadHeader(v) /\ calls' = <<>> /\ v \in Nat
    BY <1>5, EndsFacts DEF HeaderRejected, Rejects
  <2>2. log' = log
    BY <2>1, HearsNothing
  <2>3. bad
    BY <2>1, WidthAssumption DEF BadHeader, Inv, TypeOK
  <2> HIDE DEF c, f, t, bad
  <2> QED BY <1>1, <2>1, <2>2, <2>3
<1> HIDE DEF c
<1> QED BY <1>2, <1>3, <1>4, <1>5 DEF c

\* An element of an integer array, or the integer that is the field.
LEMMA IntegerIsRead ==
  ASSUME Inv, Hears, NEW byte \in Bytes, NEW v, NEW p, NEW q, IntegerEnds(byte, v)
  PROVE  Read(At(p, depth, Awaited, log), v, q) = At(q, depth', Awaited', log')
<1> DEFINE c == At(p, depth, Awaited, log)
           k == IF state = "VarintSigned" THEN "Signed" ELSE "Unsigned"
           a == Integers(id, k, ToCome)
           e == IF state = "VarintSigned"
                  THEN [fn |-> "signed", id |-> id, value |-> zigzag_decode(v)]
                  ELSE [fn |-> "unsigned", id |-> id, value |-> v]
<1>1. /\ state \in {"VarintUnsigned", "VarintSigned"} /\ calls' = <<e>>
      /\ depth' = depth /\ id' = id /\ advance_after_element
  BY DEF IntegerEnds
<1>2. Awaited = a
  BY <1>1 DEF Awaited
<1>3. a.is = "integers" /\ a.id = id /\ a.kind = k /\ a.left = ToCome
  BY DEF Integers
<1>4. c.nest = depth /\ c.awaits = a /\ c.events = log
  BY <1>2 DEF At
<1>5. array_remaining \in Nat
  BY Ceilings DEF Inv, TypeOK
<1>6. Others(a) = Awaited'
  <2>1. CASE array_remaining > 1
    <3>1. ToCome = array_remaining /\ ToCome # 1 /\ array_remaining' = array_remaining - 1
      BY <1>1, <1>5, <2>1 DEF ToCome, advance_after_element
    <3>2. state' = state /\ ToCome' = ToCome - 1
      BY <1>1, <1>5, <2>1, <3>1 DEF ToCome, advance_after_element
    <3>3. Others(a) = Integers(id, k, ToCome - 1)
      BY <1>3, <3>1 DEF Others, Integers
    <3>4. Awaited' = Integers(id, k, ToCome')
      <4>1. state = "VarintSigned" \/ state = "VarintUnsigned"
        BY <1>1
      <4>2. CASE state = "VarintSigned"
        <5>1. k = "Signed" /\ state' = "VarintSigned"
          BY <3>2, <4>2
        <5> HIDE DEF k
        <5> QED BY <1>1, <5>1 DEF Awaited
      <4>3. CASE state = "VarintUnsigned"
        <5>1. k = "Unsigned" /\ state' = "VarintUnsigned"
          BY <3>2, <4>3
        <5> HIDE DEF k
        <5> QED BY <1>1, <5>1 DEF Awaited
      <4> QED BY <4>1, <4>2, <4>3
    <3> QED BY <3>2, <3>3, <3>4
  <2>2. CASE ~(array_remaining > 1)
    <3>1. ToCome = 1 /\ state' = "Idle"
      BY <1>1, <1>5, <2>2 DEF ToCome, advance_after_element
    <3> HIDE DEF a
    <3> QED BY <1>3, <3>1 DEF Others, Awaited
  <2> QED BY <2>1, <2>2
<1>7. log' = Append(log, e)
  <2>1. PICK d : d = e
    OBVIOUS
  <2>2. e.fn \notin {"string", "blob"}
    OBVIOUS
  <2> HIDE DEF e
  <2> QED BY <1>1, <2>1, <2>2, HearsOne
<1>8. e = [fn |-> IntegerCall(k), id |-> id,
           value |-> IF k = "Signed" THEN zigzag_decode(v) ELSE v]
  BY DEF IntegerCall
<1> HIDE DEF c, a, k, e
<1>9. Read(c, v, q) = At(q, depth, Others(a), Append(log, e))
  BY <1>3, <1>4, <1>8 DEF Read, Integer
<1>10. Read(c, v, q) = At(q, depth', Awaited', log')
  BY <1>1, <1>6, <1>7, <1>9
<1> QED BY <1>10 DEF c

\* The count of an array.
LEMMA CountIsRead ==
  ASSUME Inv, Hears, NEW byte \in Bytes, NEW v, NEW p, NEW q
  PROVE  LET c == At(p, depth, Awaited, log)
         IN /\ IntegerArrayCounted(byte, v) \/ FixlenArrayCounted(byte, v) =>
                 Read(c, v, q) = At(q, depth', Awaited', log')
            /\ CountRejected(byte, v) => Read(c, v, q) = Ended("InvalidMsg", log) /\ log' = log
<1> DEFINE c == At(p, depth, Awaited, log)
           e == [fn |-> "array_begin", id |-> id, kind |-> array_kind, count |-> v]
<1>1. ASSUME state = "ArrayCount"
      PROVE  Read(c, v, q) =
               IF v > ARRAY_MAX THEN Ended("InvalidMsg", log)
               ELSE IF array_kind = "Fp32" THEN At(q, depth, AnArrayWord(id, v), log)
               ELSE At(q, depth, IF v = 0 THEN AHeader ELSE Integers(id, array_kind, v),
                       Append(log, e))
  <2> DEFINE a == ACount(id, array_kind)
  <2>1. a.is = "count" /\ a.id = id /\ a.kind = array_kind
    BY DEF ACount
  <2>2. Awaited = a
    BY <1>1 DEF Awaited
  <2>3. c.nest = depth /\ c.awaits = a /\ c.events = log
    BY <2>2 DEF At
  <2> HIDE DEF a, c
  <2> QED BY <2>1, <2>3 DEF Read, Count
<1>2. ASSUME IntegerArrayCounted(byte, v) PROVE Read(c, v, q) = At(q, depth', Awaited', log')
  <2>1. /\ state = "ArrayCount" /\ v <= ARRAY_MAX /\ array_kind # "Fp32" /\ v \in Nat
        /\ depth' = depth /\ id' = id /\ calls' = <<e>>
    BY <1>2, EndsFacts DEF IntegerArrayCounted
  <2>2. /\ v = 0 => state' = "Idle"
        /\ v # 0 /\ array_kind = "Signed" => state' = "VarintSigned"
        /\ v # 0 /\ array_kind # "Signed" => state' = "VarintUnsigned"
        /\ v # 0 => array_remaining' = v
    BY <1>2 DEF IntegerArrayCounted
  <2>3. array_kind = "Signed" \/ array_kind = "Unsigned"
    BY <2>1 DEF Inv, TypeOK, ArrayKinds
  <2>4. Awaited' = IF v = 0 THEN AHeader ELSE Integers(id, array_kind, v)
    <3>1. CASE v = 0
      BY <2>2, <3>1 DEF Awaited
    <3>2. CASE v # 0
      <4>1. ToCome' = v
        BY <2>2, <3>2 DEF ToCome
      <4>2. CASE array_kind = "Signed"
        <5>1. state' = "VarintSigned"
          BY <2>2, <3>2, <4>2
        <5> QED BY <2>1, <3>2, <4>1, <4>2, <5>1 DEF Awaited
      <4>3. CASE array_kind = "Unsigned"
        <5>1. state' = "VarintUnsigned"
          BY <2>2, <3>2, <4>3
        <5> QED BY <2>1, <3>2, <4>1, <4>3, <5>1 DEF Awaited
      <4> QED BY <2>3, <4>2, <4>3
    <3> QED BY <3>1, <3>2
  <2>5. log' = Append(log, e)
    <3>1. PICK d : d = e
      OBVIOUS
    <3>2. e.fn \notin {"string", "blob"}
      OBVIOUS
    <3> HIDE DEF e
    <3> QED BY <2>1, <3>1, <3>2, HearsOne
  <2>6. ~(v > ARRAY_MAX)
    BY <2>1, Ceilings
  <2> HIDE DEF c, e
  <2> QED BY <1>1, <2>1, <2>4, <2>5, <2>6
<1>3. ASSUME FixlenArrayCounted(byte, v) PROVE Read(c, v, q) = At(q, depth', Awaited', log')
  <2>1. /\ state = "ArrayCount" /\ v <= ARRAY_MAX /\ array_kind = "Fp32" /\ v \in Nat
        /\ depth' = depth /\ id' = id /\ calls' = <<>>
        /\ state' = "FixlenArrayLen" /\ array_remaining' = v
    BY <1>3, EndsFacts DEF FixlenArrayCounted
  <2>2. log' = log
    BY <2>1, HearsNothing
  <2>3. Awaited' = AnArrayWord(id, v)
    BY <2>1 DEF Awaited
  <2>4. ~(v > ARRAY_MAX)
    BY <2>1, Ceilings
  <2> HIDE DEF c, e
  <2> QED BY <1>1, <2>1, <2>2, <2>3, <2>4
<1>4. ASSUME CountRejected(byte, v)
      PROVE  Read(c, v, q) = Ended("InvalidMsg", log) /\ log' = log
  <2>1. state = "ArrayCount" /\ v > ARRAY_MAX /\ calls' = <<>>
    BY <1>4 DEF CountRejected, Rejects
  <2>2. log' = log
    BY <2>1, HearsNothing
  <2> HIDE DEF c, e
  <2> QED BY <1>1, <2>1, <2>2
<1> HIDE DEF c
<1> QED BY <1>2, <1>3, <1>4 DEF c

\* The word of a fixlen array.
LEMMA ArrayWordIsRead ==
  ASSUME Inv, Hears, NEW byte \in Bytes, NEW v, NEW p, NEW q
  PROVE  LET c == At(p, depth, Awaited, log)
         IN /\ \A t \in FixlenTypes : FixlenArrayAnnounced(byte, v, t) =>
                 Read(c, v, q) = At(q, depth', Awaited', log')
            /\ state = "FixlenArrayLen" /\ FixlenWordRejected(byte, v) =>
                 Read(c, v, q) = Ended("InvalidMsg", log)
<1> DEFINE c == At(p, depth, Awaited, log)
           floats == {t \in SubtypeOf(v) : Width(t) # 0 /\ v \div 8 = Width(t)}
           x == CHOOSE t \in floats : TRUE
           Begun(t) == [fn |-> "array_begin", id |-> id, kind |-> t, count |-> array_remaining]
<1>1. ASSUME state = "FixlenArrayLen"
      PROVE  Read(c, v, q) =
               IF floats = {} \/ v \div 8 > ARRAY_MAX THEN Ended("InvalidMsg", log)
               ELSE At(q, depth, IF array_remaining = 0 THEN AHeader
                                 ELSE Floats(id, x, array_remaining),
                       Append(log, Begun(x)))
  <2> DEFINE a == AnArrayWord(id, array_remaining)
  <2>1. a.is = "array word" /\ a.id = id /\ a.count = array_remaining
    BY DEF AnArrayWord
  <2>2. Awaited = a
    BY <1>1 DEF Awaited
  <2>3. c.nest = depth /\ c.awaits = a /\ c.events = log
    BY <2>2 DEF At
  <2> HIDE DEF a, c
  <2>4. Read(c, v, q) = ArrayWord(c, v, q)
    BY <2>1, <2>3 DEF Read
  <2> QED BY <2>1, <2>3, <2>4 DEF ArrayWord
<1>2. ASSUME NEW t \in FixlenTypes, FixlenArrayAnnounced(byte, v, t)
      PROVE  Read(c, v, q) = At(q, depth', Awaited', log')
  <2>1. /\ state = "FixlenArrayLen" /\ v \in Nat /\ FixlenWord(v, t) /\ legal_float(v, t)
        /\ depth' = depth /\ id' = id /\ calls' = <<Begun(t)>>
        /\ array_remaining' = array_remaining
        /\ array_remaining = 0 => state' = "Idle"
        /\ array_remaining # 0 => state' = "FixlenVal"
    BY <1>2, EndsFacts DEF FixlenArrayAnnounced
  <2>2. t \in SubtypeOf(v) /\ v \div 8 <= ARRAY_MAX /\ fixlen_type' = t
        /\ Width(t) # 0 /\ v \div 8 = Width(t)
    BY <2>1 DEF FixlenWord, legal_float, SubtypeOf
  <2>3. floats = {t} /\ x = t
    <3>1. SubtypeOf(v) = {t}
      BY <2>2, OneSubtype
    <3>2. floats = {t}
      BY <2>2, <3>1
    <3> HIDE DEF floats
    <3> QED BY <3>2
  <2>4. Awaited' = IF array_remaining = 0 THEN AHeader ELSE Floats(id, t, array_remaining)
    <3>1. CASE array_remaining = 0
      BY <2>1, <3>1 DEF Awaited
    <3>2. CASE array_remaining # 0
      <4>1. ToCome' = array_remaining
        BY <2>1, <3>2 DEF ToCome
      <4> QED BY <2>1, <2>2, <3>2, <4>1 DEF Awaited
    <3> QED BY <3>1, <3>2
  <2>5. log' = Append(log, Begun(t))
    <3>1. PICK d : d = Begun(t)
      OBVIOUS
    <3>2. d.fn \notin {"string", "blob"}
      BY <3>1
    <3> HIDE DEF Begun
    <3> QED BY <2>1, <3>1, <3>2, HearsOne
  <2>6. ~(v \div 8 > ARRAY_MAX)
    BY <2>1, <2>2, Ceilings
  <2>7. floats # {}
    BY <2>3
  <2> HIDE DEF c, floats, x, Begun
  <2> QED BY <1>1, <2>1, <2>3, <2>4, <2>5, <2>6, <2>7
<1>3. ASSUME state = "FixlenArrayLen", FixlenWordRejected(byte, v)
      PROVE  Read(c, v, q) = Ended("InvalidMsg", log)
  <2>1. floats = {} \/ v \div 8 > ARRAY_MAX
    <3>1. CASE from_raw(v % 8) = {}
      BY <3>1 DEF SubtypeOf
    <3>2. ASSUME NEW t \in FixlenTypes, FixlenWord(v, t), ~legal_float(v, t)
          PROVE  floats = {}
      <4>1. t \in SubtypeOf(v)
        BY <3>2 DEF FixlenWord, SubtypeOf
      <4>2. SubtypeOf(v) = {t}
        BY <4>1, OneSubtype
      <4> QED BY <3>2, <4>2 DEF legal_float
    <3> HIDE DEF floats
    <3> QED BY <1>3, <3>1, <3>2 DEF FixlenWordRejected
  <2> HIDE DEF c, floats, x, Begun
  <2> QED BY <1>1, <1>3, <2>1
<1> HIDE DEF c
<1> QED BY <1>2, <1>3 DEF c

\* The word of a fixlen field: a float, a string or a blob.
LEMMA FieldWordIsRead ==
  ASSUME Inv, Hears, NEW byte \in Bytes, NEW v, NEW p, NEW q
  PROVE  LET c == At(p, depth, Awaited, log)
         IN /\ \A t \in FixlenTypes : FixlenFieldAnnounced(byte, v, t) =>
                 Read(c, v, q) = At(q, depth', Awaited', log')
            /\ state = "FixlenLen" /\ FixlenWordRejected(byte, v) =>
                 Read(c, v, q) = Ended("InvalidMsg", log)
<1> DEFINE c == At(p, depth, Awaited, log)
           n == v \div 8
           x == CHOOSE t \in SubtypeOf(v) : TRUE
           Begin(t) == [fn |-> "fixlen_begin", id |-> id, subtype |-> t, total |-> n]
           Empty(t) == PayloadEvent(APayload(id, t, 0), <<>>)
<1>1. ASSUME state = "FixlenLen"
      PROVE  Read(c, v, q) =
               IF SubtypeOf(v) = {} \/ n > ARRAY_MAX \/ Width(x) \notin {0, n}
                 THEN Ended("InvalidMsg", log)
               ELSE IF Width(x) # 0 THEN At(q, depth, Floats(id, x, 1), Append(log, Begin(x)))
               ELSE IF n # 0 THEN At(q, depth, APayload(id, x, n), Append(log, Begin(x)))
               ELSE At(q, depth, AHeader, Append(Append(log, Begin(x)), Empty(x)))
  <2> DEFINE a == AWord(id)
  <2>1. a.is = "word" /\ a.id = id
    BY DEF AWord
  <2>2. Awaited = a
    BY <1>1 DEF Awaited
  <2>3. c.nest = depth /\ c.awaits = a /\ c.events = log
    BY <2>2 DEF At
  <2> HIDE DEF a, c
  <2>4. Read(c, v, q) = Word(c, v, q)
    BY <2>1, <2>3 DEF Read
  <2> QED BY <2>1, <2>3, <2>4 DEF Word
<1>2. ASSUME NEW t \in FixlenTypes, FixlenFieldAnnounced(byte, v, t)
      PROVE  Read(c, v, q) = At(q, depth', Awaited', log')
  <2>1. /\ state = "FixlenLen" /\ v \in Nat /\ FixlenWord(v, t)
        /\ Width(t) = 0 \/ legal_float(v, t)
        /\ depth' = depth /\ id' = id /\ array_remaining' = array_remaining
        /\ Width(t) # 0 => state' = "FixlenVal"
        /\ Width(t) = 0 /\ n = 0 => state' = "Idle"
        /\ Width(t) = 0 /\ n # 0 => state' = "FixlenRaw"
    BY <1>2, EndsFacts DEF FixlenFieldAnnounced
  <2>2. /\ t \in SubtypeOf(v) /\ n <= ARRAY_MAX /\ fixlen_type' = t /\ fixlen_total' = n
        /\ Width(t) \in {0, n}
    BY <2>1 DEF FixlenWord, legal_float, SubtypeOf
  <2>3. SubtypeOf(v) = {t} /\ x = t
    <3>1. SubtypeOf(v) = {t}
      BY <2>2, OneSubtype
    <3> QED BY <3>1
  <2>4. ToCome' = 1
    <3>1. array_remaining = 0
      BY <2>1 DEF Inv, CountsMatchState
    <3> QED BY <2>1, <3>1 DEF ToCome
  <2>5. /\ Width(t) # 0 => Awaited' = Floats(id, t, 1)
        /\ Width(t) = 0 /\ n = 0 => Awaited' = AHeader
        /\ Width(t) = 0 /\ n # 0 => Awaited' = APayload(id, t, n)
    <3> HIDE DEF n
    <3> QED BY <2>1, <2>2, <2>4 DEF Awaited
  <2>6. /\ ~(Width(t) = 0 /\ n = 0) => calls' = <<Begin(t)>>
        /\ Width(t) = 0 /\ n = 0 => calls' = <<Begin(t), payload_chunk(t, 0, 0, <<>>)>>
    BY <1>2 DEF FixlenFieldAnnounced
  <2>7. payload_chunk(t, 0, 0, <<>>) = Empty(t)
    BY DEF payload_chunk, PayloadEvent, APayload, BytesCall
  <2>8. /\ ~(Width(t) = 0 /\ n = 0) => log' = Append(log, Begin(t))
        /\ Width(t) = 0 /\ n = 0 => log' = Append(Append(log, Begin(t)), Empty(t))
    <3>1. PICK d, e : d = Begin(t) /\ e = Empty(t)
      OBVIOUS
    <3>2. d.fn \notin {"string", "blob"} /\ e.offset = 0
      BY <3>1 DEF PayloadEvent
    <3>3. CASE ~(Width(t) = 0 /\ n = 0)
      <4>1. calls' = <<d>>
        BY <2>6, <3>1, <3>3
      <4>2. log' = Append(log, d)
        BY <3>2, <4>1, HearsOne
      <4> QED BY <3>1, <3>3, <4>2
    <3>4. CASE Width(t) = 0 /\ n = 0
      <4>1. calls' = <<d, e>>
        BY <2>6, <2>7, <3>1, <3>4
      <4>2. log' = Append(Append(log, d), e)
        BY <3>2, <4>1, HearsTwo
      <4> QED BY <3>1, <3>4, <4>2
    <3> QED BY <3>3, <3>4
  <2>9. ~(n > ARRAY_MAX)
    BY <2>1, <2>2, Ceilings
  <2>10. SubtypeOf(v) # {}
    BY <2>3
  <2> HIDE DEF c, n, x, Begin, Empty
  <2> QED BY <1>1, <2>1, <2>2, <2>3, <2>5, <2>8, <2>9, <2>10
<1>3. ASSUME state = "FixlenLen", FixlenWordRejected(byte, v)
      PROVE  Read(c, v, q) = Ended("InvalidMsg", log)
  <2>1. SubtypeOf(v) = {} \/ n > ARRAY_MAX \/ Width(x) \notin {0, n}
    <3>1. CASE from_raw(v % 8) = {}
      BY <3>1 DEF SubtypeOf
    <3>2. ASSUME NEW t \in FixlenTypes, FixlenWord(v, t), ~legal_float(v, t), Width(t) # 0
          PROVE  Width(x) \notin {0, n}
      <4>1. t \in SubtypeOf(v)
        BY <3>2 DEF FixlenWord, SubtypeOf
      <4>2. SubtypeOf(v) = {t}
        BY <4>1, OneSubtype
      <4>3. x = t
        BY <4>2
      <4> HIDE DEF x
      <4> QED BY <3>2, <4>3 DEF legal_float
    <3> HIDE DEF x
    <3> QED BY <1>3, <3>1, <3>2 DEF FixlenWordRejected
  <2> HIDE DEF c, n, x, Begin, Empty
  <2> QED BY <1>1, <1>3, <2>1
<1> HIDE DEF c
<1> QED BY <1>2, <1>3 DEF c

\* What a handler leaves behind: it goes on with the item after the one the
\* grammar has read, a float or payload with all of it to come, or rejects what
\* the grammar calls malformed.
LEMMA HandledIsRead ==
  ASSUME Inv, Hears, NEW byte \in Bytes, NEW v, NEW p, NEW q, Handles(byte, v)
  PROVE  LET c == At(p, depth, Awaited, log)
         IN \/ /\ Read(c, v, q) = At(q, depth', Awaited', log')
               /\ state' # "Invalid" /\ acc' = 0 /\ shift' = 0
               /\ state' \in {"FixlenVal", "FixlenRaw"} => fixlen_remaining' = fixlen_total'
            \/ /\ Read(c, v, q) = Ended("InvalidMsg", log)
               /\ state' = "Invalid" /\ log' = log
<1> DEFINE c == At(p, depth, Awaited, log)
           Goes == Read(c, v, q) = At(q, depth', Awaited', log')
           Stops == Read(c, v, q) = Ended("InvalidMsg", log)
<1>1. CASE HeaderOpensValue(byte, v) \/ HeaderBeginsSequence(byte, v)
             \/ HeaderEndsSequence(byte, v)
  <2>1. Goes
    BY <1>1, HeaderIsRead
  <2>2. state' \in {"Idle", "VarintUnsigned", "VarintSigned", "FixlenLen", "ArrayCount"}
    BY <1>1 DEF HeaderOpensValue, HeaderBeginsSequence, HeaderEndsSequence, ValueState
  <2>3. acc' = 0 /\ shift' = 0
    BY <1>1 DEF HeaderOpensValue, HeaderBeginsSequence, HeaderEndsSequence, Ends
  <2> HIDE DEF Goes, Stops
  <2> QED BY <2>1, <2>2, <2>3 DEF Goes
<1>2. CASE IntegerEnds(byte, v)
  <2>1. Goes
    BY <1>2, IntegerIsRead
  <2>2. state' \in {"Idle", "VarintUnsigned", "VarintSigned"} /\ acc' = 0 /\ shift' = 0
    BY <1>2 DEF IntegerEnds, advance_after_element, Ends
  <2> HIDE DEF Goes, Stops
  <2> QED BY <2>1, <2>2 DEF Goes
<1>3. CASE IntegerArrayCounted(byte, v) \/ FixlenArrayCounted(byte, v)
  <2>1. Goes
    BY <1>3, CountIsRead
  <2>2. state' \in {"Idle", "VarintUnsigned", "VarintSigned", "FixlenArrayLen"}
    BY <1>3 DEF IntegerArrayCounted, FixlenArrayCounted
  <2>3. acc' = 0 /\ shift' = 0
    BY <1>3 DEF IntegerArrayCounted, FixlenArrayCounted, Ends
  <2> HIDE DEF Goes, Stops
  <2> QED BY <2>1, <2>2, <2>3 DEF Goes
<1>4. ASSUME NEW t \in FixlenTypes,
             FixlenArrayAnnounced(byte, v, t) \/ FixlenFieldAnnounced(byte, v, t)
      PROVE  /\ Goes /\ state' # "Invalid" /\ acc' = 0 /\ shift' = 0
             /\ fixlen_remaining' = fixlen_total'
  <2>1. Goes
    BY <1>4, ArrayWordIsRead, FieldWordIsRead
  <2>2. state' # "Invalid" /\ acc' = 0 /\ shift' = 0 /\ fixlen_remaining' = fixlen_total'
    BY <1>4 DEF FixlenArrayAnnounced, FixlenFieldAnnounced, FixlenWord, Ends
  <2> QED BY <2>1, <2>2
<1>5. CASE HeaderRejected(byte, v) \/ CountRejected(byte, v) \/ FixlenWordRejected(byte, v)
  <2>1. state' = "Invalid" /\ calls' = <<>>
    BY <1>5 DEF HeaderRejected, CountRejected, FixlenWordRejected, Rejects
  <2>2. Stops
    <3>1. CASE HeaderRejected(byte, v)
      BY <3>1, HeaderIsRead
    <3>2. CASE CountRejected(byte, v)
      BY <3>2, CountIsRead
    <3>3. CASE FixlenWordRejected(byte, v)
      <4>1. state = "FixlenLen" \/ state = "FixlenArrayLen"
        BY <3>3 DEF FixlenWordRejected
      <4> QED BY <3>3, <4>1, ArrayWordIsRead, FieldWordIsRead
    <3> QED BY <1>5, <3>1, <3>2, <3>3
  <2>3. log' = log
    BY <2>1, HearsNothing
  <2> HIDE DEF Goes, Stops
  <2> QED BY <2>1, <2>2, <2>3 DEF Stops
<1>6. \/ HeaderOpensValue(byte, v) \/ HeaderBeginsSequence(byte, v)
           \/ HeaderEndsSequence(byte, v)
      \/ IntegerEnds(byte, v)
      \/ IntegerArrayCounted(byte, v) \/ FixlenArrayCounted(byte, v)
      \/ \E t \in FixlenTypes : FixlenArrayAnnounced(byte, v, t)
                                  \/ FixlenFieldAnnounced(byte, v, t)
      \/ HeaderRejected(byte, v) \/ CountRejected(byte, v) \/ FixlenWordRejected(byte, v)
  BY DEF Handles
<1> HIDE DEF Goes, Stops
<1>7. \/ Goes /\ state' # "Invalid" /\ acc' = 0 /\ shift' = 0
           /\ (state' \in {"FixlenVal", "FixlenRaw"} => fixlen_remaining' = fixlen_total')
      \/ Stops /\ state' = "Invalid" /\ log' = log
  BY <1>1, <1>2, <1>3, <1>4, <1>5, <1>6 DEF Goes, Stops
<1> QED BY <1>7 DEF Goes, Stops

\* A handler makes two callbacks at most.
LEMMA HandlerCalls ==
  ASSUME NEW byte, NEW v, Handles(byte, v)
  PROVE  calls' = <<>> \/ (\E e : calls' = <<e>>) \/ (\E e, d : calls' = <<e, d>>)
<1>1. CASE HeaderOpensValue(byte, v) \/ FixlenArrayCounted(byte, v) \/ HeaderRejected(byte, v)
             \/ CountRejected(byte, v) \/ FixlenWordRejected(byte, v)
  BY <1>1 DEF HeaderOpensValue, FixlenArrayCounted, HeaderRejected, CountRejected,
     FixlenWordRejected, Rejects
<1>2. CASE HeaderBeginsSequence(byte, v) \/ HeaderEndsSequence(byte, v)
             \/ IntegerArrayCounted(byte, v)
  BY <1>2, Zenon DEF HeaderBeginsSequence, HeaderEndsSequence, IntegerArrayCounted
<1>3. CASE IntegerEnds(byte, v)
  BY <1>3, Zenon DEF IntegerEnds
<1>4. ASSUME NEW t \in FixlenTypes, FixlenArrayAnnounced(byte, v, t)
      PROVE  \E e : calls' = <<e>>
  BY <1>4, Zenon DEF FixlenArrayAnnounced
<1>5. ASSUME NEW t \in FixlenTypes, FixlenFieldAnnounced(byte, v, t)
      PROVE  (\E e : calls' = <<e>>) \/ (\E e, d : calls' = <<e, d>>)
  <2> DEFINE begin == [fn |-> "fixlen_begin", id |-> id, subtype |-> t, total |-> v \div 8]
  <2>1. calls' = <<begin>> \/ calls' = <<begin, payload_chunk(t, 0, 0, <<>>)>>
    BY <1>5 DEF FixlenFieldAnnounced
  <2> QED BY <2>1, Zenon
<1> QED BY <1>1, <1>2, <1>3, <1>4, <1>5 DEF Handles

-----------------------------------------------------------------------------
(* The steps *)

\* An item that ends the reading: the message is malformed from here on.
LEMMA ItemRejected ==
  ASSUME seen \in Seq(Bytes), NEW w \in Seq(Bytes), Len(w) > 0, seen' = seen \o w,
         NEW n, NEW p, NEW events, Reached(n, p, events), state' = "Invalid",
         NextIs(seen', At(p, depth, Awaited, events), Ended("InvalidMsg", log'))
  PROVE  HInv'
<1>1. n \in 0..Len(seen) /\ ReadingIs(seen, n, At(p, depth, Awaited, events))
  BY LenProperties DEF Reached
<1>2. /\ seen' \in Seq(Bytes) /\ n + 1 \in 1..Len(seen')
      /\ ReadingIs(seen', n + 1, Ended("InvalidMsg", log'))
  BY <1>1, NextItem
<1>3. Malformed(n + 1)'
  BY <1>2 DEF Malformed
<1> QED BY <1>2, <1>3 DEF HInv

\* An item that is all there: the next begins.
LEMMA ItemDone ==
  ASSUME seen \in Seq(Bytes), NEW w \in Seq(Bytes), Len(w) > 0, seen' = seen \o w,
         NEW n, NEW p, NEW events, Reached(n, p, events), IsSequence(log'),
         Inv', LowInv', state' # "Invalid", acc' = 0, shift' = 0,
         state' \in {"FixlenVal", "FixlenRaw"} => fixlen_remaining' = fixlen_total',
         NextIs(seen', At(p, depth, Awaited, events),
                At(Len(seen') + 1, depth', Awaited', log'))
  PROVE  HInv'
<1>1. PICK c, d : /\ c = At(p, depth, Awaited, events)
                  /\ d = At(Len(seen') + 1, depth', Awaited', log')
  OBVIOUS
<1>2. n \in 0..Len(seen) /\ ReadingIs(seen, n, c) /\ NextIs(seen', c, d)
  BY <1>1, LenProperties DEF Reached
<1>3. seen' \in Seq(Bytes) /\ n + 1 \in 1..Len(seen') /\ ReadingIs(seen', n + 1, d)
  BY <1>2, NextItem
<1>4. state' = "FixlenVal" => acc_lo' = 0
  BY DEF LowInv, CleanLow
<1>5. fixlen_total' \in Nat
  BY Ceilings DEF Inv, TypeOK
<1> QED BY <1>1, <1>3, <1>4, <1>5, Fresh

\* A byte of a varint.
LEMMA VarintKept ==
  ASSUME Inv, Inv', LowInv', HInv, Hears, NEW byte \in Bytes, seen' = Append(seen, byte),
         \/ Continues(byte) \/ OverlongRejected(byte)
         \/ Handles(byte, Accumulate(acc, byte, shift))
  PROVE  HInv'
<1> DEFINE v == Accumulate(acc, byte, shift)
<1>1. state \in VarintStates
  BY DEF Continues, OverlongRejected, Handles, HeaderOpensValue, HeaderBeginsSequence,
     HeaderEndsSequence, HeaderRejected, IntegerEnds, IntegerArrayCounted, FixlenArrayCounted,
     CountRejected, FixlenArrayAnnounced, FixlenFieldAnnounced, FixlenWordRejected, Ends
<1>2. seen \in Seq(Bytes) /\ \E n, p, events : Reached(n, p, events)
  BY <1>1 DEF HInv, VarintStates
<1>3. PICK n, p, events : Reached(n, p, events)
  BY <1>2
<1> DEFINE c == At(p, depth, Awaited, events)
<1>4. /\ <<byte>> \in Seq(Bytes) /\ Len(<<byte>>) > 0 /\ seen' = seen \o <<byte>>
  BY <1>2, AppendIsConcat
<1>5. log = events /\ IsSequence(log)
  BY <1>1, <1>2, <1>3, VarintItem DEF Reached
<1>6. CASE OverlongRejected(byte)
  <2>1. Overlong(byte, shift) /\ state' = "Invalid" /\ calls' = <<>>
    BY <1>6 DEF OverlongRejected, Rejects
  <2>2. log' = log
    BY <2>1, HearsNothing
  <2>3. NextIs(seen', c, Ended("InvalidMsg", log))
    BY <1>1, <1>2, <1>3, <2>1, VarintItem
  <2> QED BY <1>2, <1>3, <1>4, <2>1, <2>2, <2>3, ItemRejected
<1>7. CASE Handles(byte, v)
  <2>1. ~Overlong(byte, shift) /\ ~More(byte)
    BY <1>7 DEF Handles, HeaderOpensValue, HeaderBeginsSequence, HeaderEndsSequence,
       HeaderRejected, IntegerEnds, IntegerArrayCounted, FixlenArrayCounted, CountRejected,
       FixlenArrayAnnounced, FixlenFieldAnnounced, FixlenWordRejected, Ends
  <2>2. NextIs(seen', c, Read(c, v, Len(seen') + 1))
    BY <1>1, <1>2, <1>3, <2>1, VarintItem
  <2>3. c = At(p, depth, Awaited, log)
    BY <1>5
  <2>4. PICK q : q = Len(seen') + 1
    OBVIOUS
  <2>5. \/ /\ Read(c, v, q) = At(q, depth', Awaited', log')
           /\ state' # "Invalid" /\ acc' = 0 /\ shift' = 0
           /\ state' \in {"FixlenVal", "FixlenRaw"} => fixlen_remaining' = fixlen_total'
        \/ /\ Read(c, v, q) = Ended("InvalidMsg", log)
           /\ state' = "Invalid" /\ log' = log
    BY <1>7, <2>3, HandledIsRead
  <2>6. IsSequence(log')
    BY <1>5, <1>7, HandlerCalls, HearsSequence
  <2> HIDE DEF v
  <2>7. CASE state' # "Invalid"
    <3>1. NextIs(seen', At(p, depth, Awaited, events),
                 At(Len(seen') + 1, depth', Awaited', log'))
      BY <2>2, <2>4, <2>5, <2>7
    <3>2. /\ acc' = 0 /\ shift' = 0
          /\ state' \in {"FixlenVal", "FixlenRaw"} => fixlen_remaining' = fixlen_total'
      BY <2>5, <2>7
    <3> QED BY <1>2, <1>3, <1>4, <2>6, <2>7, <3>1, <3>2, ItemDone
  <2>8. CASE state' = "Invalid"
    <3>1. NextIs(seen', At(p, depth, Awaited, events), Ended("InvalidMsg", log'))
      BY <2>2, <2>4, <2>5, <2>8
    <3> QED BY <1>2, <1>3, <1>4, <2>8, <3>1, ItemRejected
  <2> QED BY <2>7, <2>8
<1>8. CASE Continues(byte)
  <2>1. /\ ~Overlong(byte, shift) /\ More(byte) /\ acc' = v /\ shift' = shift + PayloadBits
        /\ calls' = <<>>
        /\ state' = state /\ depth' = depth
    BY <1>8 DEF Continues
  <2>2. log' = log /\ Awaited' = Awaited
    <3>1. log' = log
      BY <2>1, HearsNothing
    <3>2. ToCome' = ToCome
      BY <1>8 DEF Continues, ToCome
    <3>3. Awaited' = Awaited
      BY <1>8, <3>2 DEF Continues, Awaited
    <3> QED BY <3>1, <3>3
  <2>3. v = LittleEndian(Digits(seen', p, Len(seen')), PayloadBits)
    BY <1>1, <1>2, <1>3, <2>1, VarintItem
  <2>4. /\ seen' \in Seq(Bytes) /\ Len(seen) \in Nat /\ Len(seen') = Len(seen) + 1
        /\ seen'[Len(seen) + 1] = byte /\ \A i \in 1..Len(seen) : seen'[i] = seen[i]
        /\ \A t \in Seq(Bytes) : /\ <<byte>> \o t \in Seq(Bytes)
                                 /\ seen' \o t = seen \o (<<byte>> \o t)
    BY <1>2, Grown
  <2>5. ReadingIs(seen', n, At(p, depth', Awaited', events))
    <3> HIDE DEF c
    <3>1. ReadingIs(seen, n, c)
      BY <1>3 DEF Reached, c
    <3>2. ReadingIs(seen', n, c)
      BY <2>4, <3>1 DEF ReadingIs
    <3> QED BY <2>1, <2>2, <3>2 DEF c
  <2>6. /\ n \in Nat /\ p \in 1..(Len(seen) + 1) /\ n < p /\ IsSequence(events)
        /\ p \in 1..(Len(seen') + 1)
    BY <1>3, <2>4 DEF Reached
  <2>7. InItem(p)'
    <3>1. shift = PayloadBits * (Len(seen) - p + 1) /\ \A i \in p..Len(seen) : More(seen[i])
      BY <1>1, <1>3 DEF Reached, InItem
    <3>2. \A i \in p..Len(seen') : More(seen'[i])
      <4> SUFFICES ASSUME NEW i \in p..Len(seen') PROVE More(seen'[i])
        OBVIOUS
      <4>1. CASE i = Len(seen) + 1
        BY <2>1, <2>4, <4>1
      <4>2. CASE i # Len(seen) + 1
        <5>1. i \in p..Len(seen) /\ i \in 1..Len(seen)
          BY <2>4, <2>6, <4>2
        <5> QED BY <2>4, <3>1, <5>1
      <4> QED BY <4>1, <4>2
    <3>3. shift' = PayloadBits * (Len(seen') - p + 1)
      <4>1. \A g, k \in Int : g * k + g = g * (k + 1)
        OBVIOUS
      <4>2. Len(seen) - p + 1 \in Int /\ Len(seen') - p + 1 = (Len(seen) - p + 1) + 1
            /\ PayloadBits \in Int
        BY <2>4, <2>6, Widths
      <4> QED BY <2>1, <3>1, <4>1, <4>2
    <3>4. state' \notin {"FixlenVal", "FixlenRaw"}
      BY <1>1, <2>1 DEF VarintStates
    <3> HIDE DEF v
    <3> QED BY <2>1, <2>3, <3>2, <3>3, <3>4 DEF InItem
  <2>8. log' = History(p, events)'
    BY <1>1, <1>5, <2>1, <2>2 DEF History, VarintStates
  <2>9. Reached(n, p, events)'
    BY <2>2, <2>5, <2>6, <2>7, <2>8 DEF Reached
  <2>10. state' # "Invalid"
    BY <1>1, <2>1 DEF VarintStates
  <2> QED BY <2>4, <2>9, <2>10 DEF HInv
<1> QED BY <1>6, <1>7, <1>8

-----------------------------------------------------------------------------
(* The float window *)

\* The window after float_push has pushed a byte.
PushedWindow(byte) ==
  IF InTwo THEN PushedHigh(byte) * 2^ValueBits + PushedLow ELSE PushedHigh(byte)

\* One word or two, the push moves the window down by a byte and sets the new one
\* on top.
LEMMA WindowPushed ==
  ASSUME acc \in Nat, acc_lo \in Nat, NEW byte \in Nat
  PROVE  /\ InWindow \in Nat /\ ByteBits \in 0..WindowBits
         /\ PushedWindow(byte)
              = (InWindow \div 2^ByteBits) + byte * 2^(WindowBits - ByteBits)
<1> DEFINE B == 2^ByteBits
           V == 2^ValueBits
           R == 2^(ValueBits - ByteBits)
<1>1. B \in Nat \ {0} /\ V \in Nat \ {0} /\ R \in Nat \ {0} /\ V = B * R
  <2>1. ByteBits \in 0..ValueBits /\ ValueBits \in 0..ValueBits /\ ByteBits <= ValueBits
    BY Widths
  <2> QED BY <2>1, Powers
<1>2. ByteBits \in 1..ValueBits /\ ValueBits \in Nat /\ ByteBits \in Nat
  BY Widths
<1>3. CASE ~InTwo
  BY <1>2, <1>3 DEF InWindow, WindowBits, PushedWindow, PushedHigh
<1>4. CASE InTwo
  <2>1. 2^(2 * ValueBits - ByteBits) = R * V
    <3>1. (ValueBits - ByteBits) + ValueBits = 2 * ValueBits - ByteBits
          /\ ValueBits - ByteBits \in 0..ValueBits /\ ValueBits \in 0..ValueBits
      BY <1>2
    <3> QED BY <3>1, PowersAdd
  <2> DEFINE a == acc \div B
             r == acc % B
             b == acc_lo \div B
             s == acc_lo % B
             q == a * V + r * R + b
  <2> HIDE DEF B, V, R
  <2>2. /\ a \in Nat /\ r \in 0..(B - 1) /\ acc = B * a + r
        /\ b \in Nat /\ s \in 0..(B - 1) /\ acc_lo = B * b + s
    BY <1>1
  <2>3. q \in Nat /\ acc * V + acc_lo = q * B + s /\ acc * V + acc_lo \in Nat
    <3> HIDE DEF a, b, r, s
    <3>1. /\ (B * a + r) * (B * R) = a * (B * R) * B + r * R * B
          /\ B * b = b * B
      BY <1>1, <2>2
    <3>2. a * V \in Nat /\ r * R \in Nat /\ q \in Nat
      BY <1>1, <2>2
    <3>3. q * B = a * V * B + r * R * B + b * B
      <4>1. \A x, y, z, w \in Nat : (x + y + z) * w = x * w + y * w + z * w
        OBVIOUS
      <4> QED BY <1>1, <2>2, <3>2, <4>1
    <3>4. acc * V = a * V * B + r * R * B
      BY <1>1, <2>2, <3>1
    <3>5. acc * V \in Nat /\ a * V * B \in Nat /\ r * R * B \in Nat /\ b * B \in Nat
      BY <1>1, <2>2, <3>2
    <3>6. acc * V + acc_lo = q * B + s
      <4> HIDE DEF q
      <4> QED BY <2>2, <3>1, <3>3, <3>4, <3>5
    <3>7. acc * V + acc_lo \in Nat
      BY <3>5
    <3> QED BY <3>2, <3>6, <3>7
  <2>4. InWindow = q * B + s /\ WindowBits = 2 * ValueBits
    BY <1>4, <2>3 DEF InWindow, WindowBits, V
  <2>5. InWindow \div B = q
    <3> HIDE DEF q, s
    <3>1. (q * B + s) \div B = q
      BY <1>1, <2>2, <2>3, DivMod
    <3> QED BY <2>4, <3>1
  <2>6. PushedLow = b + r * R /\ PushedHigh(byte) = a + byte * R
    BY <1>4 DEF PushedLow, PushedHigh, InTwo, B, R
  <2>7. PushedWindow(byte) = (a + byte * R) * V + (b + r * R)
    <3> HIDE DEF a, b, r
    <3> QED BY <1>4, <2>6 DEF PushedWindow, V
  <2>8. (a + byte * R) * V + (b + r * R) = q + byte * (R * V)
    <3> HIDE DEF a, b, r
    <3>1. (a + byte * R) * V = a * V + byte * (R * V)
      BY <1>1, <2>2
    <3>2. a * V \in Nat /\ byte * (R * V) \in Nat /\ r * R \in Nat
      BY <1>1, <2>2
    <3> QED BY <2>2, <3>1, <3>2
  <2>9. ByteBits \in 0..WindowBits /\ InWindow \in Nat
    BY <1>2, <2>3, <2>4 
  <2> HIDE DEF q
  <2> QED BY <2>1, <2>4, <2>5, <2>7, <2>8, <2>9 DEF B
<1> QED BY <1>3, <1>4

\* A float has room in its window: exactly for an fp64, at least for an fp32.
LEMMA WindowHolds ==
  ASSUME Inv, state = "FixlenVal"
  PROVE  /\ fixlen_total \in Nat \ {0} /\ fixlen_remaining \in 1..fixlen_total
         /\ fixlen_total = Width(fixlen_type) /\ fixlen_type \in {"Fp32", "Fp64"}
         /\ ByteBits * fixlen_total \in Nat /\ ByteBits * fixlen_total <= WindowBits
         /\ fixlen_type = "Fp64" => ByteBits * fixlen_total = WindowBits
         /\ WindowBits \in Nat /\ WindowBits <= 2 * ValueBits
<1>1. /\ fixlen_total = Width(fixlen_type) /\ fixlen_remaining \in 1..fixlen_total
      /\ fixlen_type \in FixlenTypes /\ fixlen_total \in Nat
  BY Ceilings DEF Inv, TypeOK, CountsMatchState
<1>2. fixlen_type \in {"Fp32", "Fp64"} /\ (fixlen_type = "Fp64" => "fp64" \in Features)
  BY <1>1 DEF FixlenTypes, Width
<1>3. /\ ByteBits \in Nat \ {0} /\ FloatBytes \in Nat \ {0} /\ ValueBits \in Nat
      /\ ValueBits = FloatBytes * ByteBits \/ ValueBits = 2 * FloatBytes * ByteBits
  BY Widths, WidthAssumption
<1>4. /\ FloatBytes * ByteBits \in Nat \ {0} /\ ByteBits * FloatBytes = FloatBytes * ByteBits
      /\ ByteBits * (2 * FloatBytes) = 2 * (FloatBytes * ByteBits)
      /\ 2 * FloatBytes * ByteBits = 2 * (FloatBytes * ByteBits)
  BY <1>3
<1>5. WindowBits \in Nat /\ WindowBits <= 2 * ValueBits /\ ValueBits <= WindowBits
  BY <1>3 DEF WindowBits
<1>6. CASE fixlen_type = "Fp32"
  <2>1. fixlen_total = FloatBytes
    BY <1>1, <1>6 DEF Width
  <2> QED BY <1>1, <1>2, <1>3, <1>4, <1>5, <1>6, <2>1
<1>7. CASE fixlen_type = "Fp64"
  <2>1. fixlen_total = 2 * FloatBytes
    BY <1>1, <1>7 DEF Width
  <2>2. WindowBits = 2 * (FloatBytes * ByteBits)
    BY <1>2, <1>3, <1>4, <1>7 DEF WindowBits, InTwo, TwoWords
  <2> QED BY <1>1, <1>2, <1>3, <1>4, <1>5, <1>7, <2>1, <2>2
<1> QED BY <1>2, <1>6, <1>7

\* The window after one more byte of the float.
LEMMA FloatGrows ==
  ASSUME Inv, state = "FixlenVal", seen \in Seq(Bytes), NEW byte \in Bytes,
         NEW p \in 1..(Len(seen) + 1), InItem(p)
  PROVE  LET digits == Append(SubSeq(seen, p, Len(seen)), byte)
             taken  == Len(seen) - p + 2
         IN /\ taken \in 1..fixlen_total /\ taken = fixlen_total - fixlen_remaining + 1
            /\ LittleEndian(digits, ByteBits) \in Nat
            /\ PushedWindow(byte)
                 = LittleEndian(digits, ByteBits) * 2^(WindowBits - ByteBits * taken)
<1> DEFINE d == SubSeq(seen, p, Len(seen))
           j == Len(seen) - p + 1
           L == LittleEndian(d, ByteBits)
           M == LittleEndian(Append(d, byte), ByteBits)
           rest == WindowBits - ByteBits * (j + 1)
           lower == ByteBits * j
<1>1. /\ fixlen_total - fixlen_remaining = j /\ L \in Nat
      /\ InWindow = L * 2^(WindowBits - ByteBits * j)
  BY DEF InItem
<1>2. d \in Seq(Bytes) /\ Len(d) = j
  <2>1. <<>> \in Seq(Bytes)
    OBVIOUS
  <2> QED BY <2>1, TailGrows
<1>3. M = L + byte * 2^lower
  <2>1. IsSequence(d)
    BY <1>2 DEF IsSequence
  <2> HIDE DEF d, j
  <2> QED BY <1>2, <2>1, LittleEndianGrows
<1>4. j + 1 \in 1..fixlen_total /\ j \in Nat /\ Len(seen) - p + 2 = j + 1
      /\ fixlen_total \in Nat
  <2>1. Len(seen) \in Nat /\ p \in Nat /\ j \in Nat
    BY LenProperties
  <2> HIDE DEF j
  <2>2. fixlen_total \in Nat /\ fixlen_remaining \in 1..fixlen_total
    BY WindowHolds
  <2> QED BY <1>1, <2>1, <2>2 DEF j
<1>5. /\ lower \in Nat /\ rest \in Nat /\ lower + (ByteBits + rest) = WindowBits
      /\ ByteBits \in Nat /\ WindowBits \in Nat /\ WindowBits <= 2 * ValueBits
  <2> HIDE DEF j
  <2>1. /\ ByteBits * fixlen_total \in Nat /\ ByteBits * fixlen_total <= WindowBits
        /\ WindowBits \in Nat /\ WindowBits <= 2 * ValueBits
    BY WindowHolds
  <2>2. ByteBits \in Nat
    BY Widths
  <2>3. \A b, x, y \in Nat : x <= y => b * x <= b * y /\ b * x \in Nat
    OBVIOUS
  <2>4. ByteBits * (j + 1) <= ByteBits * fixlen_total /\ ByteBits * (j + 1) \in Nat
        /\ lower \in Nat
    BY <1>4, <2>2, <2>3
  <2>5. ByteBits * (j + 1) = lower + ByteBits
    BY <1>4, <2>2
  <2>6. PICK x : x = ByteBits * (j + 1)
    OBVIOUS
  <2>7. x \in Nat /\ x <= WindowBits /\ x = lower + ByteBits /\ rest = WindowBits - x
    <3>1. x \in Nat /\ x = lower + ByteBits /\ x <= ByteBits * fixlen_total
      BY <2>4, <2>5, <2>6
    <3>2. rest = WindowBits - x
      BY <2>6
    <3> HIDE DEF lower, rest
    <3> QED BY <2>1, <3>1, <3>2
  <2> HIDE DEF lower, rest
  <2> QED BY <2>1, <2>2, <2>4, <2>7
<1> DEFINE B == 2^ByteBits
           K == 2^lower
           R == 2^rest
<1>6. WindowBits - ByteBits * j = ByteBits + rest /\ WindowBits - ByteBits = lower + rest
      /\ rest = WindowBits - ByteBits * (j + 1)
  <2>1. WindowBits - ByteBits * j = WindowBits - lower
    OBVIOUS
  <2> HIDE DEF rest, lower, j
  <2> QED BY <1>5, <2>1 DEF rest
<1> HIDE DEF rest, lower, j, d, L, M
<1>7. /\ 2^(ByteBits + rest) = B * R /\ 2^(lower + rest) = K * R
      /\ B \in Nat \ {0} /\ K \in Nat \ {0} /\ R \in Nat \ {0}
  <2>1. /\ ByteBits \in 0..(2 * ValueBits) /\ rest \in 0..(2 * ValueBits)
        /\ lower \in 0..(2 * ValueBits)
        /\ ByteBits + rest <= 2 * ValueBits /\ lower + rest <= 2 * ValueBits
    BY <1>5, Widths
  <2> QED BY <2>1, PowerAssumption
<1>8. PushedWindow(byte) = (InWindow \div B) + byte * (K * R) /\ byte \in Nat
  <2>1. acc \in Nat /\ acc_lo \in Nat /\ byte \in Nat
    BY Widths DEF Inv, TypeOK, Unsigned, Bytes
  <2>2. PushedWindow(byte) = (InWindow \div 2^ByteBits) + byte * 2^(WindowBits - ByteBits)
    BY <2>1, WindowPushed
  <2> QED BY <1>6, <1>7, <2>1, <2>2
<1>9. InWindow \div B = L * R
  <2>1. InWindow = (L * R) * B + 0
    <3>1. InWindow = L * (B * R)
      BY <1>1, <1>6, <1>7, Zenon
    <3>2. \A x, y, z \in Nat : x * (y * z) = (x * z) * y + 0
      OBVIOUS
    <3>3. L \in Nat /\ B \in Nat /\ R \in Nat
      BY <1>1, <1>7
    <3> HIDE DEF B, R
    <3> QED BY <3>1, <3>2, <3>3
  <2>2. L * R \in Nat /\ 0 \in 0..(B - 1)
    BY <1>1, <1>7
  <2> DEFINE x == L * R
  <2> HIDE DEF x, B
  <2>3. (x * B + 0) \div B = x
    BY <1>7, <2>2, DivMod DEF x
  <2> QED BY <2>1, <2>3 DEF x
<1>10. PushedWindow(byte) = M * R /\ M \in Nat
  <2> HIDE DEF B, K, R
  <2>1. M = L + byte * K
    BY <1>3 DEF K
  <2>2. PushedWindow(byte) = L * R + byte * (K * R)
    BY <1>8, <1>9
  <2>3. L * R + byte * (K * R) = (L + byte * K) * R /\ L + byte * K \in Nat
    BY <1>1, <1>7, <1>8
  <2> QED BY <2>1, <2>2, <2>3
<1>11. /\ j + 1 \in 1..fixlen_total /\ j + 1 = fixlen_total - fixlen_remaining + 1
       /\ M \in Nat /\ PushedWindow(byte) = M * 2^(WindowBits - ByteBits * (j + 1))
  BY <1>1, <1>4, <1>6, <1>10
<1>12. Len(seen) - p + 2 = j + 1
  BY <1>4
<1> QED BY <1>11, <1>12 DEF M, d

\* float_take finds the bytes of a float that is all there.
LEMMA FloatTaken ==
  ASSUME Inv, state = "FixlenVal", NEW byte, NEW x \in Nat,
         PushedWindow(byte) = x * 2^(WindowBits - ByteBits * fixlen_total)
  PROVE  FloatBits(PushedHigh(byte), PushedLow) = x
<1> DEFINE rest == WindowBits - ByteBits * fixlen_total
<1>1. /\ fixlen_type \in {"Fp32", "Fp64"} /\ rest \in Nat /\ rest \in 0..(2 * ValueBits)
      /\ fixlen_type = "Fp64" => rest = 0
      /\ fixlen_total = Width(fixlen_type)
  <2> DEFINE y == ByteBits * fixlen_total
  <2>1. /\ fixlen_type \in {"Fp32", "Fp64"} /\ y \in Nat /\ y <= WindowBits
        /\ fixlen_type = "Fp64" => y = WindowBits
        /\ WindowBits \in Nat /\ WindowBits <= 2 * ValueBits
        /\ fixlen_total = Width(fixlen_type)
    BY WindowHolds
  <2> HIDE DEF y
  <2>2. WindowBits - y \in 0..(2 * ValueBits)
    BY <2>1, Widths
  <2> QED BY <2>1, <2>2 DEF y
<1> DEFINE R == 2^rest
<1>2. R \in Nat \ {0}
  <2> HIDE DEF rest
  <2> QED BY <1>1, PowersAdd
<1>3. CASE fixlen_type = "Fp64"
  <2>1. 2^0 = 1
    <3>1. 2^0 \in Nat \ {0} /\ 2^(0 + 0) = 2^0 * 2^0 /\ 0 + 0 = 0
      BY PowersAdd, Widths
    <3>2. \A z \in Nat \ {0} : z = z * z => z = 1
      OBVIOUS
    <3> QED BY <3>1, <3>2
  <2>2. PushedWindow(byte) = x
    <3> HIDE DEF rest
    <3>1. PushedWindow(byte) = x * 2^rest
      BY DEF rest
    <3> QED BY <1>1, <1>3, <2>1, <3>1
  <2>3. CASE TwoWords
    <3>1. FloatBits(PushedHigh(byte), PushedLow) = PushedHigh(byte) * 2^ValueBits + PushedLow
      BY <1>3, <2>3 DEF FloatBits
    <3> QED BY <1>3, <2>2, <2>3, <3>1 DEF PushedWindow, InTwo
  <2>4. CASE ~TwoWords
    <3>1. FloatBits(PushedHigh(byte), PushedLow) = PushedHigh(byte)
      BY <1>3, <2>4 DEF FloatBits
    <3> QED BY <1>3, <2>2, <2>4, <3>1 DEF PushedWindow, InTwo
  <2> QED BY <2>3, <2>4
<1>4. CASE fixlen_type = "Fp32"
  <2>1. fixlen_total = FloatBytes
    BY <1>1, <1>4 DEF Width
  <2>2. rest = ValueBits - FloatBytes * ByteBits
    <3>1. WindowBits = ValueBits
      BY <1>4 DEF WindowBits, InTwo
    <3>2. ByteBits * FloatBytes = FloatBytes * ByteBits
      BY Widths, WidthAssumption
    <3> QED BY <2>1, <3>1, <3>2
  <2> HIDE DEF rest
  <2>3. PushedHigh(byte) = x * R
    <3>1. PushedWindow(byte) = PushedHigh(byte)
      BY <1>4 DEF PushedWindow, InTwo
    <3> QED BY <3>1 DEF rest
  <2>4. FloatBits(PushedHigh(byte), PushedLow) = PushedHigh(byte) \div R
    BY <1>4, <2>2 DEF FloatBits
  <2>5. (x * R + 0) \div R = x
    <3> HIDE DEF R
    <3>1. 0 \in 0..(R - 1)
      BY <1>2
    <3> QED BY <1>2, <3>1, DivMod
  <2>6. x * R + 0 = x * R
    BY <1>2
  <2> QED BY <2>3, <2>4, <2>5, <2>6
<1> QED BY <1>1, <1>3, <1>4

\* A byte of a float that is not its last.
LEMMA FloatByteKept ==
  ASSUME Inv, HInv, Hears, NEW byte \in Bytes, seen' = Append(seen, byte), FloatByte(byte)
  PROVE  HInv'
<1>1. /\ state = "FixlenVal" /\ state' = "FixlenVal" /\ calls' = <<>> /\ fixlen_remaining # 1
      /\ acc' = PushedHigh(byte) /\ acc_lo' = PushedLow
      /\ fixlen_remaining' = fixlen_remaining - 1
      /\ UNCHANGED <<fixlen_type, depth, id, array_remaining, fixlen_total>>
  BY DEF FloatByte
<1>2. seen \in Seq(Bytes) /\ \E n, p, events : Reached(n, p, events)
  BY <1>1 DEF HInv
<1>3. PICK n, p, events : Reached(n, p, events)
  BY <1>2
<1>4. /\ seen' \in Seq(Bytes) /\ Len(seen) \in Nat /\ Len(seen') = Len(seen) + 1
      /\ \A t \in Seq(Bytes) : /\ <<byte>> \o t \in Seq(Bytes)
                               /\ seen' \o t = seen \o (<<byte>> \o t)
  BY <1>2, Grown
<1>5. /\ n \in Nat /\ p \in 1..(Len(seen) + 1) /\ n < p /\ IsSequence(events)
      /\ p \in 1..(Len(seen') + 1) /\ InItem(p)
  BY <1>3, <1>4 DEF Reached
<1>6. log' = log /\ log = events /\ Awaited' = Awaited
  <2>1. log' = log
    BY <1>1, HearsNothing
  <2>2. log = events
    BY <1>1, <1>3 DEF Reached, History
  <2>3. ToCome' = ToCome
    BY <1>1 DEF ToCome
  <2> QED BY <1>1, <2>1, <2>2, <2>3 DEF Awaited
<1>7. ReadingIs(seen', n, At(p, depth', Awaited', events))
  <2> DEFINE c == At(p, depth, Awaited, events)
  <2> HIDE DEF c
  <2>1. ReadingIs(seen, n, c)
    BY <1>3 DEF Reached, c
  <2>2. ReadingIs(seen', n, c)
    BY <1>4, <2>1 DEF ReadingIs
  <2> QED BY <1>1, <1>6, <2>2 DEF c
<1>8. InItem(p)'
  <2> DEFINE d == SubSeq(seen, p, Len(seen))
             j == Len(seen) - p + 2
  <2>1. /\ j = fixlen_total - fixlen_remaining + 1
        /\ LittleEndian(Append(d, byte), ByteBits) \in Nat
        /\ PushedWindow(byte)
             = LittleEndian(Append(d, byte), ByteBits) * 2^(WindowBits - ByteBits * j)
    BY <1>1, <1>2, <1>5, FloatGrows
  <2>2. SubSeq(seen', p, Len(seen')) = Append(d, byte)
    <3>1. <<byte>> \in Seq(Bytes) /\ seen' = seen \o <<byte>>
      BY <1>2, AppendIsConcat
    <3>2. SubSeq(seen', p, Len(seen')) = d \o <<byte>> /\ d \in Seq(Bytes)
      BY <1>2, <1>5, <3>1, TailGrows
    <3> HIDE DEF d
    <3> QED BY <3>2, AppendIsConcat
  <2>3. WindowBits' = WindowBits /\ InWindow' = PushedWindow(byte)
    <3>1. InTwo' = InTwo
      BY <1>1 DEF InTwo, TwoWords
    <3> QED BY <1>1, <3>1 DEF WindowBits, InWindow, PushedWindow
  <2>4. Len(seen') - p + 1 = j
    BY <1>4, <1>5
  <2>5. fixlen_total' - fixlen_remaining' = j
    <3>1. fixlen_total \in Nat /\ fixlen_remaining \in Nat
      BY Ceilings DEF Inv, TypeOK
    <3> HIDE DEF j
    <3> QED BY <1>1, <2>1, <3>1
  <2>6. state' \notin VarintStates
    BY <1>1 DEF VarintStates
  <2> HIDE DEF d, j
  <2> QED BY <1>1, <2>1, <2>2, <2>3, <2>4, <2>5, <2>6 DEF InItem
<1>9. log' = History(p, events)'
  BY <1>1, <1>6 DEF History
<1>10. Reached(n, p, events)'
  BY <1>5, <1>7, <1>8, <1>9 DEF Reached
<1> QED BY <1>1, <1>4, <1>10 DEF HInv

\* The last byte of a float: the field is done, or the next element begins.
LEMMA FloatEndsKept ==
  ASSUME Inv, Inv', LowInv', HInv, Hears, NEW byte \in Bytes, seen' = Append(seen, byte),
         FloatEnds(byte)
  PROVE  HInv'
<1> DEFINE bits == FloatBits(PushedHigh(byte), PushedLow)
           e == [fn |-> IF fixlen_type = "Fp64" THEN "fp64" ELSE "fp32", id |-> id,
                 value |-> bits]
<1>1. /\ state = "FixlenVal" /\ fixlen_remaining = 1 /\ calls' = <<e>> /\ acc' = 0
      /\ advance_after_element
      /\ fixlen_remaining' = IF array_remaining > 1 THEN fixlen_total ELSE 0
      /\ UNCHANGED <<shift, fixlen_type, depth, id, fixlen_total>>
  BY DEF FloatEnds
<1>2. seen \in Seq(Bytes) /\ \E n, p, events : Reached(n, p, events)
  BY <1>1 DEF HInv
<1>3. PICK n, p, events : Reached(n, p, events)
  BY <1>2
<1>4. /\ <<byte>> \in Seq(Bytes) /\ Len(<<byte>>) > 0 /\ seen' = seen \o <<byte>>
      /\ seen' \in Seq(Bytes) /\ Len(seen) \in Nat /\ Len(seen') = Len(seen) + 1
  BY <1>2, Grown, AppendIsConcat
<1>5. p \in 1..(Len(seen) + 1) /\ IsSequence(events) /\ InItem(p) /\ log = events
  BY <1>1, <1>3 DEF Reached, History
<1> DEFINE d == SubSeq(seen, p, Len(seen))
           x == LittleEndian(Append(d, byte), ByteBits)
           a == Floats(id, fixlen_type, ToCome)
           c == At(p, depth, a, events)
           q == Len(seen') + 1
<1>6. /\ Len(seen) - p + 2 = fixlen_total /\ x \in Nat
      /\ PushedWindow(byte) = x * 2^(WindowBits - ByteBits * fixlen_total)
  <2> DEFINE j == Len(seen) - p + 2
  <2>1. /\ j = fixlen_total - fixlen_remaining + 1 /\ x \in Nat
        /\ PushedWindow(byte) = x * 2^(WindowBits - ByteBits * j)
    BY <1>1, <1>2, <1>5, FloatGrows
  <2> HIDE DEF j, x
  <2>2. j = fixlen_total
    BY <1>1, <2>1, WindowHolds
  <2>3. j = fixlen_total /\ x \in Nat
        /\ PushedWindow(byte) = x * 2^(WindowBits - ByteBits * fixlen_total)
    BY <2>1, <2>2
  <2> QED BY <2>3 DEF j
<1>7. bits = x
  <2> HIDE DEF x
  <2> QED BY <1>1, <1>6, FloatTaken
<1>8. /\ fixlen_type \in {"Fp32", "Fp64"} /\ fixlen_total = Width(fixlen_type)
      /\ array_remaining \in Nat /\ shift = 0
  BY <1>1, WindowHolds, Ceilings DEF Inv, TypeOK, CountsMatchState
<1>9. Awaited = a /\ a.is = "floats" /\ a.id = id /\ a.kind = fixlen_type /\ a.left = ToCome
  BY <1>1 DEF Awaited, Floats
<1>10. Others(a) = Awaited'
  <2>1. CASE array_remaining > 1
    <3>1. ToCome = array_remaining /\ ToCome # 1 /\ ToCome' = ToCome - 1
          /\ state' = "FixlenVal"
      BY <1>1, <1>8, <2>1 DEF ToCome, advance_after_element
    <3>2. Others(a) = Floats(id, fixlen_type, ToCome - 1)
      BY <1>9, <3>1 DEF Others, Floats
    <3>3. Awaited' = Floats(id, fixlen_type, ToCome')
      BY <1>1, <3>1 DEF Awaited
    <3> QED BY <3>1, <3>2, <3>3
  <2>2. CASE ~(array_remaining > 1)
    <3>1. ToCome = 1 /\ state' = "Idle"
      BY <1>1, <1>8, <2>2 DEF ToCome, advance_after_element
    <3> HIDE DEF a
    <3> QED BY <1>9, <3>1 DEF Others, Awaited
  <2> QED BY <2>1, <2>2
<1>11. log' = Append(log, e) /\ IsSequence(log')
  <2>1. e.fn \notin {"string", "blob"}
    OBVIOUS
  <2>2. PICK f : f = e
    OBVIOUS
  <2> HIDE DEF e
  <2>3. log' = Append(log, e)
    BY <1>1, <2>1, <2>2, HearsOne
  <2> QED BY <1>5, <2>3, AppendIs
<1>12. ASSUME NEW t \in Seq(Bytes)
       PROVE  Item(seen' \o t, c) = At(q, depth', Awaited', log')
  <2> DEFINE u == seen' \o t
             end == p + Width(fixlen_type)
  <2>1. Len(u) = Len(seen') + Len(t) /\ Len(t) \in Nat
    <3> DEFINE z == seen'
    <3>1. z \in Seq(Bytes)
      BY <1>4
    <3> HIDE DEF z
    <3>2. Len(z \o t) = Len(z) + Len(t) /\ Len(t) \in Nat
      BY <3>1, Followed
    <3> QED BY <3>2 DEF z
  <2>2. end = q /\ end - 1 = Len(seen') /\ ~(Len(u) < end - 1)
    <3> HIDE DEF u
    <3> QED BY <1>4, <1>5, <1>6, <1>8, <2>1
  <2>3. SubSeq(u, p, end - 1) = Append(d, byte)
    <3> DEFINE z == seen'
    <3>1. z \in Seq(Bytes) /\ p \in 1..(Len(z) + 1)
      BY <1>4, <1>5
    <3> HIDE DEF z
    <3>2. SubSeq(z \o t, p, Len(z)) = SubSeq(z, p, Len(z))
      BY <3>1, TailGrows
    <3>3. SubSeq(seen \o <<byte>>, p, Len(seen \o <<byte>>)) = d \o <<byte>>
          /\ d \in Seq(Bytes)
      BY <1>2, <1>4, <1>5, TailGrows
    <3>4. d \o <<byte>> = Append(d, byte)
      <4> HIDE DEF d
      <4> QED BY <3>3, AppendIsConcat
    <3> HIDE DEF d, end
    <3> QED BY <1>4, <2>2, <3>2, <3>3, <3>4 DEF z
  <2>4. c.verdict = "none" /\ c.p = p /\ c.nest = depth /\ c.awaits = a /\ c.events = events
    BY DEF At
  <2> HIDE DEF u, c, a
  <2>5. Item(u, c) = Float(u, c)
    BY <1>9, <2>4 DEF Item
  <2>6. Float(u, c) = At(end, depth, Others(a),
                         Append(events, [fn |-> FloatCall(fixlen_type), id |-> id,
                                         value |-> LittleEndian(SubSeq(u, p, end - 1), ByteBits)]))
    BY <1>9, <2>2, <2>4 DEF Float
  <2>7. e = [fn |-> FloatCall(fixlen_type), id |-> id, value |-> x]
    <3> HIDE DEF x, bits
    <3> QED BY <1>7 DEF FloatCall
  <2> HIDE DEF e, d, end
  <2>8. Item(u, c) = At(q, depth, Others(a), Append(log, e))
    BY <1>5, <2>2, <2>3, <2>5, <2>6, <2>7
  <2>9. Item(u, c) = At(q, depth', Awaited', log')
    <3> HIDE DEF q
    <3> QED BY <1>1, <1>10, <1>11, <2>8
  <2> QED BY <2>9 DEF u
<1>13. /\ state' # "Invalid" /\ shift' = 0
       /\ state' \in {"FixlenVal", "FixlenRaw"} => fixlen_remaining' = fixlen_total'
  BY <1>1, <1>8 DEF advance_after_element
<1> HIDE DEF a
<1>14. NextIs(seen', At(p, depth, Awaited, events),
              At(Len(seen') + 1, depth', Awaited', log'))
  BY <1>9, <1>12 DEF NextIs
<1> QED BY <1>1, <1>2, <1>3, <1>4, <1>11, <1>13, <1>14, ItemDone

-----------------------------------------------------------------------------
(* Payloads *)

\* A run joins what the visitor has been handed of the payload before.
LEMMA RunJoins ==
  ASSUME NEW events, IsSequence(events), NEW a, NEW before, NEW chunk, NEW call,
         call.fn \in {"string", "blob"}, call.chunk = chunk, call.offset # 0
  PROVE  Join(Append(events, PayloadEvent(a, before)), call)
           = Append(events, PayloadEvent(a, before \o chunk))
<1> DEFINE e == PayloadEvent(a, before)
           f == PayloadEvent(a, before \o chunk)
           log0 == Append(events, e)
<1>1. /\ Len(events) \in Nat /\ Len(log0) = Len(events) + 1 /\ log0[Len(events) + 1] = e
      /\ [log0 EXCEPT ![Len(events) + 1] = f] = Append(events, f)
  <2> HIDE DEF e, f
  <2> QED BY AppendIs
<1>2. [e EXCEPT !.chunk = @ \o chunk] = f
  <2>1. PICK g, i, m, w : g = BytesCall(a.kind) /\ i = a.id /\ m = a.total /\ w = before \o chunk
    OBVIOUS
  <2>2. /\ e = [fn |-> g, id |-> i, total |-> m, offset |-> 0, chunk |-> before]
        /\ f = [fn |-> g, id |-> i, total |-> m, offset |-> 0, chunk |-> w]
    BY <2>1 DEF PayloadEvent
  <2>3. e.chunk = before
    BY <2>2
  <2> HIDE DEF e, f
  <2>4. [e EXCEPT !.chunk = w] = f
    BY <2>2
  <2> QED BY <2>1, <2>3, <2>4
<1> HIDE DEF e, f, log0
<1>3. Join(log0, call) = [log0 EXCEPT ![Len(log0)].chunk = @ \o chunk]
  BY DEF Join
<1>4. [log0 EXCEPT ![Len(log0)].chunk = @ \o chunk]
        = [log0 EXCEPT ![Len(log0)] = [log0[Len(log0)] EXCEPT !.chunk = @ \o chunk]]
  OBVIOUS
<1>5. Join(log0, call) = [log0 EXCEPT ![Len(events) + 1] = f]
  BY <1>1, <1>2, <1>3, <1>4
<1> QED BY <1>1, <1>5 DEF log0, e, f

\* What the visitor has seen after a run.
LEMMA RunHeard ==
  ASSUME Inv, Hears, seen \in Seq(Bytes), NEW chunk \in Seq(Bytes), seen' = seen \o chunk,
         RawRun(chunk), NEW p \in 1..(Len(seen) + 1), NEW events, IsSequence(events),
         InItem(p), log = History(p, events)
  PROVE  log' = Append(events, PayloadEvent(APayload(id, fixlen_type, fixlen_total),
                                            SubSeq(seen', p, Len(seen'))))
<1> DEFINE a == APayload(id, fixlen_type, fixlen_total)
           before == SubSeq(seen, p, Len(seen))
           call == payload_chunk(fixlen_type, fixlen_total, fixlen_total - fixlen_remaining, chunk)
<1>1. /\ state = "FixlenRaw" /\ calls' = <<call>>
      /\ fixlen_total \in Nat /\ fixlen_remaining \in Nat
  BY Ceilings DEF RawRun, Inv, TypeOK
<1>2. /\ SubSeq(seen', p, Len(seen')) = before \o chunk
      /\ before \in Seq(Bytes) /\ Len(before) = fixlen_total - fixlen_remaining
  <2>1. fixlen_total - fixlen_remaining = Len(seen) - p + 1
    BY <1>1 DEF InItem
  <2>2. /\ SubSeq(seen \o chunk, p, Len(seen \o chunk)) = before \o chunk
        /\ before \in Seq(Bytes) /\ Len(before) = Len(seen) - p + 1
    BY TailGrows
  <2> QED BY <2>1, <2>2
<1>3. Awaited = a
  BY <1>1 DEF Awaited
<1>4. /\ call.fn \in {"string", "blob"} /\ call.chunk = chunk
      /\ call.offset = fixlen_total - fixlen_remaining
      /\ call.fn = BytesCall(fixlen_type) /\ call.id = id /\ call.total = fixlen_total
  BY DEF payload_chunk, BytesCall
<1>5. log' = Join(log, call)
  <2>1. PICK l, e : l = log /\ e = call
    OBVIOUS
  <2>2. Heard(l, <<e>>) = Join(l, e)
    BY HeardIs
  <2> HIDE DEF call
  <2> QED BY <1>1, <2>1, <2>2 DEF Hears
<1>6. CASE fixlen_remaining = fixlen_total
  <2>1. log = events /\ call.offset = 0
    BY <1>1, <1>4, <1>6 DEF History
  <2>2. call = PayloadEvent(a, chunk)
    BY <1>1, <1>6 DEF PayloadEvent, payload_chunk, BytesCall, APayload
  <2>3. Join(log, call) = Append(log, call)
    <3>1. PICK l, e : l = log /\ e = call
      OBVIOUS
    <3> HIDE DEF call
    <3> QED BY <2>1, <3>1, JoinsAppend
  <2>4. before \o chunk = chunk
    <3>1. before = <<>>
      <4> HIDE DEF before
      <4> QED BY <1>1, <1>2, <1>6, EmptySeq
    <3> QED BY <3>1, ConcatEmptySeq
  <2> HIDE DEF call, a, before
  <2>5. log' = Append(events, PayloadEvent(a, before \o chunk))
    BY <1>5, <2>1, <2>2, <2>3, <2>4
  <2> QED BY <1>2, <2>5 DEF a
<1>7. CASE fixlen_remaining # fixlen_total
  <2>1. log = Append(events, PayloadEvent(a, before)) /\ call.offset # 0
    BY <1>1, <1>3, <1>4, <1>7 DEF History
  <2>2. Join(log, call) = Append(events, PayloadEvent(a, before \o chunk))
    <3>1. PICK e, b, f : e = call /\ b = a /\ f = before
      OBVIOUS
    <3> HIDE DEF call, a, before
    <3>2. Join(Append(events, PayloadEvent(b, f)), e) = Append(events, PayloadEvent(b, f \o chunk))
      BY <1>4, <2>1, <3>1, RunJoins
    <3> QED BY <2>1, <3>1, <3>2
  <2> HIDE DEF call, a, before
  <2> QED BY <1>2, <1>5, <2>2 DEF a
<1> QED BY <1>6, <1>7

\* A run of a payload: the field is done, or what is there of it is in the log.
LEMMA RawRunKept ==
  ASSUME Inv, Inv', LowInv', HInv, Hears, NEW chunk \in Runs, RawRun(chunk),
         seen' = seen \o chunk
  PROVE  HInv'
<1>1. /\ state = "FixlenRaw" /\ left > 0
      /\ Len(chunk) = IF left < fixlen_remaining THEN left ELSE fixlen_remaining
      /\ fixlen_remaining' = fixlen_remaining - Len(chunk)
      /\ state' = IF fixlen_remaining' = 0 THEN "Idle" ELSE state
      /\ UNCHANGED <<acc, shift, fixlen_type, depth, id, array_remaining, fixlen_total>>
  BY DEF RawRun
<1>2. /\ fixlen_total \in Nat /\ fixlen_remaining \in 1..fixlen_total /\ shift = 0 /\ acc = 0
      /\ left \in Nat
  BY <1>1, Ceilings, InputAssumption DEF Inv, TypeOK, CountsMatchState, CleanHigh
<1>3. Len(chunk) \in 1..fixlen_remaining /\ chunk \in Seq(Bytes)
  <2>1. chunk \in Seq(PayloadInput)
    BY DEF Runs
  <2>2. chunk \in Seq(Bytes)
    BY <2>1, InputAssumption, SeqMonotonic
  <2> QED BY <1>1, <1>2, <2>2
<1>4. seen \in Seq(Bytes) /\ \E n, p, events : Reached(n, p, events)
  BY <1>1 DEF HInv
<1>5. PICK n, p, events : Reached(n, p, events)
  BY <1>4
<1>6. /\ seen' \in Seq(Bytes) /\ Len(seen) \in Nat /\ Len(seen') = Len(seen) + Len(chunk)
      /\ Len(chunk) > 0
  BY <1>3, <1>4, Followed
<1>7. /\ n \in Nat /\ p \in 1..(Len(seen) + 1) /\ n < p /\ IsSequence(events) /\ InItem(p)
      /\ log = History(p, events) /\ fixlen_total - fixlen_remaining = Len(seen) - p + 1
  BY <1>1, <1>5 DEF Reached, InItem
<1> DEFINE a == APayload(id, fixlen_type, fixlen_total)
           here == SubSeq(seen', p, Len(seen'))
           c == At(p, depth, a, events)
           q == Len(seen') + 1
<1>8. log' = Append(events, PayloadEvent(a, here)) /\ IsSequence(log')
  <2>1. log' = Append(events, PayloadEvent(a, here))
    BY <1>3, <1>4, <1>7, RunHeard
  <2> HIDE DEF a, here
  <2> QED BY <1>7, <2>1, AppendIs
<1>9. Awaited = a /\ a.is = "payload" /\ a.id = id /\ a.kind = fixlen_type
      /\ a.total = fixlen_total
  BY <1>1 DEF Awaited, APayload
<1>10. CASE fixlen_remaining' = 0
  <2>1. state' = "Idle" /\ Awaited' = AHeader /\ acc' = 0 /\ shift' = 0 /\ depth' = depth
    BY <1>1, <1>2, <1>10 DEF Awaited
  <2>2. p + fixlen_total = q /\ p \in Nat
    BY <1>1, <1>2, <1>3, <1>6, <1>7, <1>10
  <2>3. ASSUME NEW t \in Seq(Bytes)
        PROVE  Item(seen' \o t, c) = At(q, depth', Awaited', log')
    <3> DEFINE u == seen' \o t
               end == p + fixlen_total
    <3>1. /\ Len(u) = Len(seen') + Len(t) /\ Len(t) \in Nat
          /\ SubSeq(u, p, Len(seen')) = here
      <4> DEFINE z == seen'
      <4>1. z \in Seq(Bytes) /\ p \in 1..(Len(z) + 1)
        BY <1>6, <1>7
      <4> HIDE DEF z
      <4>2. Len(z \o t) = Len(z) + Len(t) /\ Len(t) \in Nat
        BY <4>1, Followed
      <4>3. SubSeq(z \o t, p, Len(z)) = SubSeq(z, p, Len(z))
        BY <4>1, TailGrows
      <4> QED BY <4>2, <4>3 DEF z
    <3>2. c.verdict = "none" /\ c.p = p /\ c.nest = depth /\ c.awaits = a /\ c.events = events
      BY DEF At
    <3> HIDE DEF u, c, a, here
    <3>3. Item(u, c) = PayloadBytes(u, c)
      BY <1>9, <3>2 DEF Item
    <3>4. end - 1 = Len(seen') /\ ~(Len(u) < end - 1) /\ ~(Len(u) < p)
      BY <1>3, <1>6, <1>7, <2>2, <3>1
    <3>5. PayloadBytes(u, c)
            = At(end, depth, AHeader, Append(events, PayloadEvent(a, SubSeq(u, p, end - 1))))
      <4> HIDE DEF end
      <4>1. c.p + c.awaits.total = end
        BY <1>9, <3>2 DEF end
      <4> QED BY <3>2, <3>4, <4>1 DEF PayloadBytes
    <3>6. end = q
      BY <2>2
    <3> HIDE DEF end, q
    <3>7. Item(u, c) = At(q, depth', Awaited', log')
      BY <1>8, <2>1, <3>1, <3>3, <3>4, <3>5, <3>6
    <3> QED BY <3>7 DEF u
  <2>4. NextIs(seen', At(p, depth, Awaited, events),
               At(Len(seen') + 1, depth', Awaited', log'))
    <3> HIDE DEF a
    <3> QED BY <1>9, <2>3 DEF NextIs
  <2>5. state' # "Invalid" /\ state' \notin {"FixlenVal", "FixlenRaw"}
    BY <2>1
  <2> QED BY <1>3, <1>4, <1>5, <1>6, <1>8, <2>1, <2>4, <2>5, ItemDone
<1>11. CASE fixlen_remaining' # 0
  <2>1. /\ state' = "FixlenRaw" /\ depth' = depth /\ Awaited' = Awaited
        /\ fixlen_remaining' # fixlen_total'
    BY <1>1, <1>2, <1>3, <1>9, <1>11 DEF Awaited
  <2>2. ReadingIs(seen', n, At(p, depth', Awaited', events))
    <3> DEFINE r == At(p, depth, Awaited, events)
    <3> HIDE DEF r
    <3>1. ReadingIs(seen, n, r)
      BY <1>5 DEF Reached, r
    <3>2. \A t \in Seq(Bytes) : chunk \o t \in Seq(Bytes) /\ seen' \o t = seen \o (chunk \o t)
      BY <1>3, <1>4, ConcatProperties, ConcatAssociative
    <3>3. ReadingIs(seen', n, r)
      BY <3>1, <3>2 DEF ReadingIs
    <3> QED BY <2>1, <3>3 DEF r
  <2>3. InItem(p)'
    <3>1. fixlen_total' - fixlen_remaining' = Len(seen') - p + 1
      <4>1. fixlen_total' = fixlen_total /\ fixlen_remaining' = fixlen_remaining - Len(chunk)
            /\ fixlen_total - fixlen_remaining = Len(seen) - p + 1
            /\ Len(seen') = Len(seen) + Len(chunk)
        BY <1>1, <1>6, <1>7
      <4>2. /\ fixlen_total \in Int /\ fixlen_remaining \in Int /\ Len(chunk) \in Int
            /\ Len(seen) \in Int /\ p \in Int
        BY <1>2, <1>3, <1>6, <1>7
      <4> QED BY <4>1, <4>2
    <3>2. state' \notin VarintStates /\ state' # "FixlenVal"
      BY <2>1 DEF VarintStates
    <3> QED BY <3>1, <3>2 DEF InItem
  <2>4. log' = History(p, events)'
    <3> HIDE DEF a
    <3> QED BY <1>8, <1>9, <2>1 DEF History
  <2>5. p \in 1..(Len(seen') + 1)
    BY <1>3, <1>6, <1>7
  <2>6. Reached(n, p, events)'
    BY <1>7, <2>2, <2>3, <2>4, <2>5 DEF Reached
  <2> QED BY <1>6, <2>1, <2>6 DEF HInv
<1> QED BY <1>10, <1>11

-----------------------------------------------------------------------------
(* The inductive invariant *)

\* What the last feed returned says where the message stands; INVALID is Latched.
Returned ==
  /\ status = "Complete" => state # "Invalid" /\ at_field_boundary
  /\ status = "Incomplete" => state # "Invalid" /\ ~at_field_boundary

\* Entering and leaving a feed changes nothing of it.
LEMMA FeedKept ==
  ASSUME HInv, UNCHANGED <<decoder, seen, log>>
  PROVE  HInv'
<1>1. /\ state' = state /\ shift' = shift /\ acc' = acc /\ acc_lo' = acc_lo /\ id' = id
      /\ depth' = depth /\ array_kind' = array_kind /\ array_remaining' = array_remaining
      /\ fixlen_type' = fixlen_type /\ fixlen_total' = fixlen_total
      /\ fixlen_remaining' = fixlen_remaining /\ seen' = seen /\ log' = log
  BY DEF decoder
<1>2. /\ ToCome' = ToCome /\ InTwo' = InTwo
  BY <1>1 DEF ToCome, InTwo, TwoWords
<1>3. /\ Awaited' = Awaited /\ InWindow' = InWindow /\ WindowBits' = WindowBits
  BY <1>1, <1>2 DEF Awaited, InWindow, WindowBits
<1>4. ASSUME NEW n, Malformed(n) PROVE Malformed(n)'
  BY <1>1, <1>4 DEF Malformed
<1>5. ASSUME NEW n, NEW p, NEW events, Reached(n, p, events) PROVE Reached(n, p, events)'
  <2>1. InItem(p)'
    BY <1>1, <1>3, <1>5 DEF Reached, InItem
  <2>2. log' = History(p, events)'
    BY <1>1, <1>3, <1>5 DEF Reached, History
  <2> QED BY <1>1, <1>3, <1>5, <2>1, <2>2 DEF Reached
<1> QED BY <1>1, <1>4, <1>5 DEF HInv

\* Before the first byte nothing has been heard and nothing returned.
LEMMA HistoryStart == HistoryInit => HInv /\ Returned
<1> SUFFICES ASSUME HistoryInit PROVE HInv /\ Returned
  OBVIOUS
<1>1. /\ seen = <<>> /\ log = <<>> /\ state = "Idle" /\ depth = 0 /\ shift = 0 /\ acc = 0
      /\ status = "New"
  BY DEF HistoryInit, Init
<1>2. Awaited = AHeader
  BY <1>1 DEF Awaited
<1>3. seen \in Seq(Bytes) /\ Len(seen) = 0
  BY <1>1
<1>4. ReadingIs(seen, 0, At(1, 0, AHeader, <<>>))
  <2> SUFFICES ASSUME NEW t \in Seq(Bytes)
               PROVE  Readings(seen \o t)[0] = At(1, 0, AHeader, <<>>)
    BY DEF ReadingIs
  <2>1. seen \o t = t
    BY <1>1, ConcatEmptySeq
  <2> QED BY <2>1, ReadingsAre DEF Start
<1>5. InItem(1)
  <2>1. Digits(seen, 1, Len(seen)) = <<>>
    BY <1>3 DEF Digits
  <2>2. LittleEndian(<<>>, PayloadBits) = 0 /\ PayloadBits * 0 = 0
    BY LittleEndianGrows, Widths
  <2> QED BY <1>1, <1>3, <2>1, <2>2 DEF InItem
<1>6. IsSequence(log) /\ log = History(1, log)
  BY <1>1 DEF IsSequence, History
<1>7. Reached(0, 1, log)
  BY <1>1, <1>2, <1>3, <1>4, <1>5, <1>6 DEF Reached
<1> QED BY <1>1, <1>3, <1>7 DEF HInv, Returned

\* The steps of the history, however long the message has become.
HistoryMoves ==
  \/ ((\E n \in 0..MaxChunk : FeedBegins(n)) \/ FeedRefused \/ FeedReturns)
       /\ UNCHANGED <<seen, log>>
  \/ \E byte \in Input : step(byte) /\ seen' = Append(seen, byte) /\ Hears
  \/ \E chunk \in Runs : RawRun(chunk) /\ seen' = seen \o chunk /\ Hears

\* Every step of the decoder keeps the invariant of what was heard.
LEMMA HistoryStep ==
  ASSUME Inv, Inv', LowInv', HInv, [HistoryMoves]_historyVars
  PROVE  HInv'
<1>1. CASE UNCHANGED historyVars
  BY <1>1, FeedKept DEF historyVars, vars
<1>2. CASE ((\E n \in 0..MaxChunk : FeedBegins(n)) \/ FeedRefused \/ FeedReturns)
             /\ UNCHANGED <<seen, log>>
  BY <1>2, FeedKept DEF FeedBegins, FeedRefused, FeedReturns
<1>3. ASSUME NEW byte \in Input, step(byte), seen' = Append(seen, byte), Hears PROVE HInv'
  <2>1. byte \in Bytes
    BY InputAssumption
  <2> QED BY <1>3, <2>1, VarintKept, FloatByteKept, FloatEndsKept DEF step
<1>4. ASSUME NEW chunk \in Runs, RawRun(chunk), seen' = seen \o chunk, Hears PROVE HInv'
  BY <1>4, RawRunKept
<1> QED BY <1>1, <1>2, <1>3, <1>4 DEF HistoryMoves

\* A byte or a run is only taken inside a feed, which goes on or ends with INVALID.
LEMMA TakenInFeed ==
  ASSUME \/ \E byte \in Input : step(byte)
         \/ \E chunk \in Runs : RawRun(chunk)
  PROVE  status = "Feeding" /\ status' \in {"Feeding", "InvalidMsg"}
BY DEF step, Handles, Continues, OverlongRejected, HeaderOpensValue, HeaderBeginsSequence,
   HeaderEndsSequence, HeaderRejected, IntegerEnds, IntegerArrayCounted, FixlenArrayCounted,
   CountRejected, FixlenArrayAnnounced, FixlenFieldAnnounced, FixlenWordRejected, FloatByte,
   FloatEnds, RawRun, Reads, Rejects

\* Every step keeps what the last feed's verdict is about.
LEMMA ReturnedStep ==
  ASSUME Inv, Inv', Returned, [HistoryMoves]_historyVars
  PROVE  Returned'
<1>1. CASE UNCHANGED historyVars
  BY <1>1 DEF historyVars, vars, decoder, Returned, at_field_boundary
<1>2. CASE FeedReturns
  BY <1>2 DEF FeedReturns, decoder, Returned, at_field_boundary, Inv, Latched
<1>3. CASE status' \notin {"Complete", "Incomplete"}
  BY <1>3 DEF Returned
<1>4. CASE HistoryMoves /\ ~FeedReturns
  <2>1. status' \notin {"Complete", "Incomplete"}
    BY <1>4, TakenInFeed DEF HistoryMoves, FeedBegins, FeedRefused
  <2> QED BY <1>3, <2>1
<1> QED BY <1>1, <1>2, <1>4

-----------------------------------------------------------------------------
(* The reading at the end of what has been fed *)

\* With nothing to follow, the reading goes no further than the item it awaits.
LEMMA NothingFollows ==
  ASSUME seen \in Seq(Bytes), NEW n, NEW p, NEW events, Reached(n, p, events),
         NEW v, v # "none", NEW e, Item(seen, At(p, depth, Awaited, events)) = Ended(v, e)
  PROVE  Meaning(seen) = Ended(v, e)
<1>1. /\ n + 1 \in 0..(Len(seen) + 1) /\ n + 1 \in 1..(Len(seen) + 1) /\ (n + 1) - 1 = n
  BY LenProperties DEF Reached
<1>2. Readings(seen)[n] = At(p, depth, Awaited, events)
  <2>1. seen \o <<>> = seen /\ <<>> \in Seq(Bytes)
    BY ConcatEmptySeq
  <2> QED BY <2>1 DEF Reached, ReadingIs
<1>3. Readings(seen)[n + 1] = Ended(v, e)
  <2>1. Readings(seen)[n + 1] = Item(seen, Readings(seen)[n])
    BY <1>1, ReadingsAre
  <2> QED BY <1>2, <2>1
<1> QED BY <1>1, <1>3, EndStays

\* What the decoder knows without reading the message again.
Verdict ==
  IF state = "Invalid" THEN "InvalidMsg"
  ELSE IF at_field_boundary THEN "Complete" ELSE "Incomplete"

\* It is what the message means.
LEMMA MeaningOfSeen == Inv /\ HInv => Meaning(seen) = Ended(Verdict, log)
<1> SUFFICES ASSUME Inv, HInv PROVE Meaning(seen) = Ended(Verdict, log)
  OBVIOUS
<1>1. seen \in Seq(Bytes) /\ Len(seen) \in Nat
  BY LenProperties DEF HInv
<1>2. CASE state = "Invalid"
  <2>1. PICK n : Malformed(n)
    BY <1>2 DEF HInv
  <2>2. Readings(seen)[n] = Ended("InvalidMsg", log)
    <3>1. seen \o <<>> = seen /\ <<>> \in Seq(Bytes)
      BY <1>1, ConcatEmptySeq
    <3> QED BY <2>1, <3>1 DEF Malformed, ReadingIs
  <2>3. n \in 0..(Len(seen) + 1)
    BY <1>1, <2>1 DEF Malformed
  <2> QED BY <1>1, <1>2, <2>2, <2>3, EndStays DEF Verdict
<1>3. CASE state # "Invalid"
  <2>1. PICK n, p, events : Reached(n, p, events)
    BY <1>3 DEF HInv
  <2> DEFINE c == At(p, depth, Awaited, events)
  <2>2. /\ p \in 1..(Len(seen) + 1) /\ p \in Int /\ InItem(p) /\ log = History(p, events)
    BY <1>1, <2>1 DEF Reached
  <2>3. c.verdict = "none" /\ c.p = p /\ c.nest = depth /\ c.awaits = Awaited
        /\ c.events = events
    BY DEF At
  <2>4. Item(seen, c) = Ended(Verdict, log)
    <3>1. CASE state \in VarintStates
      <4>1. /\ \A i \in p..Len(seen) : More(seen[i])
            /\ shift = PayloadBits * (Len(seen) - p + 1)
            /\ acc = LittleEndian(Digits(seen, p, Len(seen)), PayloadBits)
        BY <2>2, <3>1 DEF InItem
      <4>2. log = events
        BY <2>2, <3>1 DEF History, VarintStates
      <4>3. shift < ValueBits /\ acc \in Unsigned /\ shift \in Nat
        BY Widths DEF Inv, TypeOK
      <4>4. shift = 0 <=> p > Len(seen)
        <5>1. \A g \in Nat \ {0}, k \in Nat : g * k = 0 <=> k = 0
          OBVIOUS
        <5>2. Len(seen) - p + 1 \in Nat /\ PayloadBits \in Nat \ {0}
          BY <1>1, <2>2, Widths
        <5>3. shift = 0 <=> Len(seen) - p + 1 = 0
          BY <4>1, <5>1, <5>2
        <5> QED BY <1>1, <2>2, <5>3
      <4>5. Awaited.is = "header" <=> state = "Idle"
        BY <3>1 DEF Awaited, AHeader, Integers, ACount, AnArrayWord, AWord, VarintStates
      <4>6. Awaited.is \in {"header", "integers", "count", "array word", "word"}
        BY <3>1 DEF Awaited, AHeader, Integers, ACount, AnArrayWord, AWord, VarintStates
      <4>7. CASE state = "Idle" /\ shift = 0
        <5>1. Item(seen, c) = Ended(IF depth = 0 THEN "Complete" ELSE "Incomplete", events)
          <6> HIDE DEF c
          <6> QED BY <2>3, <4>4, <4>5, <4>7 DEF Item
        <5>2. Verdict = IF depth = 0 THEN "Complete" ELSE "Incomplete"
          BY <1>3, <4>7 DEF Verdict, at_field_boundary
        <5> QED BY <4>2, <5>1, <5>2
      <4>8. CASE ~(state = "Idle" /\ shift = 0)
        <5>1. Item(seen, c) = Varint(seen, c)
          <6> HIDE DEF c
          <6> QED BY <2>3, <4>4, <4>5, <4>6, <4>8 DEF Item
        <5>2. ReadVarint(seen, p) = [is |-> "partial"]
          BY <1>1, <2>2, <4>1, <4>3, VarintPartial
        <5>3. Varint(seen, c) = Ended("Incomplete", events)
          <6> HIDE DEF c
          <6> QED BY <2>3, <5>2 DEF Varint
        <5>4. Verdict = "Incomplete"
          BY <1>3, <4>8 DEF Verdict, at_field_boundary
        <5> QED BY <4>2, <5>1, <5>3, <5>4
      <4> QED BY <4>7, <4>8
    <3>2. CASE state = "FixlenVal"
      <4>1. Awaited.is = "floats" /\ Awaited.kind = fixlen_type
        BY <3>2 DEF Awaited, Floats
      <4>2. /\ fixlen_total = Width(fixlen_type) /\ fixlen_total - fixlen_remaining = Len(seen) - p + 1
            /\ fixlen_total \in Nat /\ fixlen_remaining \in 1..fixlen_total
        BY <2>2, <3>2, WindowHolds DEF InItem
      <4>3. Item(seen, c) = Ended("Incomplete", events)
        <5> HIDE DEF c
        <5>1. Item(seen, c) = Float(seen, c)
          BY <2>3, <4>1 DEF Item
        <5>2. PICK end \in Int : end = p + fixlen_total
          BY <2>2, <4>2
        <5>3. c.p + Width(c.awaits.kind) = end /\ Len(seen) < end - 1
          <6>1. c.p + Width(c.awaits.kind) = p + fixlen_total
            BY <2>3, <4>1, <4>2
          <6>2. Len(seen) < end - 1
            BY <1>1, <2>2, <4>2, <5>2
          <6> QED BY <5>2, <6>1, <6>2
        <5>4. Float(seen, c) = Ended("Incomplete", c.events)
          BY <5>3 DEF Float
        <5> QED BY <2>3, <5>1, <5>4
      <4>4. Verdict = "Incomplete" /\ log = events
        BY <2>2, <3>2 DEF Verdict, at_field_boundary, History
      <4> QED BY <4>3, <4>4
    <3>3. CASE state = "FixlenRaw"
      <4>1. Awaited.is = "payload" /\ Awaited.total = fixlen_total
        BY <3>3 DEF Awaited, APayload
      <4>2. /\ fixlen_total - fixlen_remaining = Len(seen) - p + 1
            /\ fixlen_total \in Nat /\ fixlen_remaining \in 1..fixlen_total
        BY <2>2, <3>3, Ceilings DEF InItem, Inv, TypeOK, CountsMatchState
      <4>3. Len(seen) < p <=> fixlen_remaining = fixlen_total
        BY <1>1, <2>2, <4>2
      <4>4. Item(seen, c)
              = Ended("Incomplete",
                      IF Len(seen) < p THEN events
                      ELSE Append(events, PayloadEvent(Awaited, SubSeq(seen, p, Len(seen)))))
        <5> HIDE DEF c
        <5>1. Item(seen, c) = PayloadBytes(seen, c)
          BY <2>3, <4>1 DEF Item
        <5>2. PICK end \in Int : end = p + fixlen_total
          BY <2>2, <4>2
        <5>3. c.p + c.awaits.total = end /\ Len(seen) < end - 1
          <6>1. c.p + c.awaits.total = p + fixlen_total
            BY <2>3, <4>1
          <6>2. Len(seen) < end - 1
            BY <1>1, <2>2, <4>2, <5>2
          <6> QED BY <5>2, <6>1, <6>2
        <5>4. PayloadBytes(seen, c)
                = IF Len(seen) < c.p THEN Ended("Incomplete", c.events)
                  ELSE Ended("Incomplete",
                             Append(c.events, PayloadEvent(c.awaits, SubSeq(seen, c.p, Len(seen)))))
          BY <5>3 DEF PayloadBytes
        <5> QED BY <2>3, <5>1, <5>4
      <4>5. Verdict = "Incomplete"
        BY <3>3 DEF Verdict, at_field_boundary
      <4> QED BY <2>2, <3>3, <4>3, <4>4, <4>5 DEF History
    <3> QED BY <1>3, <3>1, <3>2, <3>3 DEF Inv, TypeOK, States
  <2>5. Verdict # "none"
    BY DEF Verdict
  <2> QED BY <1>1, <2>1, <2>4, <2>5, NothingFollows
<1> QED BY <1>2, <1>3

-----------------------------------------------------------------------------
(* Theorems *)

\* The decoder with its history steps as the decoder does.
LEMMA MovesAreSteps ==
  /\ [HistoryNext]_historyVars => [HistoryMoves]_historyVars
  /\ [HistoryMoves]_historyVars => [Next]_vars
BY DEF HistoryNext, HistoryMoves, historyVars, Next, Decodes, Feeds

\* So it behaves as the decoder does.
LEMMA HistoryIsSpec == HistorySpec => Spec
<1>1. HistoryInit => Init
  BY DEF HistoryInit
<1> QED BY <1>1, MovesAreSteps, PTL DEF HistorySpec, Spec

\* The three invariants always hold.
LEMMA HistoryInvariance == HistorySpec => []Inv /\ []HInv /\ []Returned
<1>1. HistorySpec => []Inv
  BY HistoryIsSpec, Invariance, PTL
<1>2. HistorySpec => []LowInv
  BY HistoryIsSpec, LowInvInit, LowNext, Invariance, PTL DEF Spec
<1>3. HistoryInit => HInv /\ Returned
  BY HistoryStart
<1>4. Inv /\ Inv' /\ LowInv' /\ HInv /\ [HistoryNext]_historyVars => HInv'
  BY HistoryStep, MovesAreSteps
<1>5. Inv /\ Inv' /\ Returned /\ [HistoryNext]_historyVars => Returned'
  BY ReturnedStep, MovesAreSteps
<1> QED BY <1>1, <1>2, <1>3, <1>4, <1>5, PTL DEF HistorySpec

\* At every byte, however the message is cut into chunks and whatever follows,
\* the visitor has seen exactly the events of the bytes so far: the streaming
\* decoder of `feed` and `step` reads what the format means.
THEOREM EventsAlwaysTheMessages == HistorySpec => []EventsAreTheMessages
<1>1. Inv /\ HInv => EventsAreTheMessages
  BY MeaningOfSeen DEF EventsAreTheMessages, Ended
<1> QED BY <1>1, HistoryInvariance, PTL

\* A feed that has returned has said so.
LEMMA VerdictOfSeen == Inv /\ HInv /\ Returned => VerdictIsTheMessages
<1> SUFFICES ASSUME Inv, HInv, Returned, status \notin {"New", "Feeding"}
             PROVE  status = Meaning(seen).verdict
  BY DEF VerdictIsTheMessages
<1>1. Meaning(seen).verdict = Verdict
  BY MeaningOfSeen DEF Ended
<1>2. status \in {"Complete", "Incomplete", "InvalidMsg"}
  BY DEF Inv, TypeOK
<1>3. status = Verdict
  BY <1>2 DEF Verdict, Returned, Inv, Latched
<1> QED BY <1>1, <1>3

\* What a feed returns is the verdict on all the bytes so far: COMPLETE exactly
\* at the end of a message, INVALID exactly when the bytes are malformed.
THEOREM VerdictAlwaysTheMessages == HistorySpec => []VerdictIsTheMessages
BY VerdictOfSeen, HistoryInvariance, PTL

\* INVALID is never premature: when a feed says so, no continuation of the bytes
\* is a message, and the events are those of every continuation.
THEOREM InvalidIsFinal ==
  HistorySpec => [](status = "InvalidMsg" =>
                      \A t \in Seq(Bytes) : Meaning(seen \o t) = Ended("InvalidMsg", log))
<1>1. ASSUME Inv, HInv, status = "InvalidMsg", NEW t \in Seq(Bytes)
      PROVE  Meaning(seen \o t) = Ended("InvalidMsg", log)
  <2>1. state = "Invalid" /\ seen \in Seq(Bytes)
    BY <1>1 DEF Inv, Latched, HInv
  <2>2. PICK n : Malformed(n)
    BY <1>1, <2>1 DEF HInv
  <2>3. /\ seen \o t \in Seq(Bytes) /\ Len(seen \o t) = Len(seen) + Len(t)
        /\ Len(seen) \in Nat /\ Len(t) \in Nat
    BY <2>1, Followed
  <2>4. n \in 0..(Len(seen \o t) + 1) /\ Readings(seen \o t)[n] = Ended("InvalidMsg", log)
    <3>1. n \in 1..Len(seen) /\ Readings(seen \o t)[n] = Ended("InvalidMsg", log)
      BY <2>2 DEF Malformed, ReadingIs
    <3> QED BY <2>3, <3>1
  <2>5. PICK u : u = seen \o t
    OBVIOUS
  <2>6. PICK e : e = log
    OBVIOUS
  <2>7. /\ u \in Seq(Bytes) /\ n \in 0..(Len(u) + 1)
        /\ Readings(u)[n] = Ended("InvalidMsg", e) /\ "InvalidMsg" # "none"
    BY <2>3, <2>4, <2>5, <2>6
  <2>8. Meaning(u) = Ended("InvalidMsg", e)
    BY <2>7, EndStays
  <2> QED BY <2>5, <2>6, <2>8
<1>2. Inv /\ HInv => (status = "InvalidMsg" =>
                        \A t \in Seq(Bytes) : Meaning(seen \o t) = Ended("InvalidMsg", log))
  BY <1>1
<1> QED BY <1>2, HistoryInvariance, PTL
=============================================================================
