------------------------------ MODULE IStream ------------------------------
(***************************************************************************)
(* The streaming decoder of istream.rs.  A caller feeds chunks of bytes to *)
(* an IStream; the decoder calls its visitor as fields become known and    *)
(* every feed returns what the bytes so far amount to.                     *)
(*                                                                         *)
(* One step of the specification is one turn of the loop in `feed`: a byte *)
(* taken by `step` with everything it dispatches to, or one run of payload *)
(* bytes handed to the visitor in bulk.  The bytes of a chunk are chosen   *)
(* as they are read, so `left` (how many remain) stands for the rest of    *)
(* the slice.  `calls` holds the visitor callbacks of the last step.       *)
(*                                                                         *)
(* A definition whose name ends in _but_... is the one that follows it     *)
(* with a mistake: the properties must tell the two apart.                 *)
(***************************************************************************)
EXTENDS Wire, Sequences

CONSTANTS
  Input,         \* the byte values fed outside raw payloads
  PayloadInput,  \* the byte values fed inside string and blob payloads
  MaxChunk       \* the longest chunk one feed is given

ASSUME InputAssumption ==
  Input \subseteq Bytes /\ PayloadInput \subseteq Bytes /\ MaxChunk \in Nat

VARIABLES
  acc, shift, state, array_kind, fixlen_type, depth,  \* Core
  id, array_remaining, fixlen_total, fixlen_remaining, acc_lo,
  left,    \* bytes of the chunk being fed that are still unread
  status,  \* what the last feed returned; "Feeding" inside one
  calls    \* the callbacks the last step made, in order

decoder == <<acc, shift, state, array_kind, fixlen_type, depth, id,
             array_remaining, fixlen_total, fixlen_remaining, acc_lo>>
vars    == <<decoder, left, status, calls>>

\* States whose byte is part of a varint, and all the states of the machine.
VarintStates == {"Idle", "VarintUnsigned", "VarintSigned", "FixlenLen",
                 "ArrayCount", "FixlenArrayLen"}
States       == VarintStates \cup {"FixlenVal", "FixlenRaw", "Invalid"}

Init ==
  /\ acc = 0 /\ shift = 0 /\ state = "Idle" /\ acc_lo = 0
  /\ array_kind = "Unsigned" /\ fixlen_type = "Blob"
  /\ depth = 0 /\ id = 0 /\ array_remaining = 0
  /\ fixlen_total = 0 /\ fixlen_remaining = 0
  /\ left = 0 /\ status = "New" /\ calls = <<>>

-----------------------------------------------------------------------------
(* Entering and leaving a feed *)

\* INVALID is latched: no byte is read and no callback made.
FeedRefused ==
  /\ status # "Feeding" /\ state = "Invalid"
  /\ status' = "InvalidMsg" /\ calls' = <<>>
  /\ UNCHANGED <<decoder, left>>

FeedBegins_but_unlatched(n) ==
  /\ status # "Feeding"
  /\ status' = "Feeding" /\ left' = n /\ calls' = <<>>
  /\ UNCHANGED decoder

FeedBegins(n) ==
  /\ status # "Feeding" /\ state # "Invalid"
  /\ status' = "Feeding" /\ left' = n /\ calls' = <<>>
  /\ UNCHANGED decoder

at_field_boundary_but_mid_varint == state = "Idle" /\ depth = 0

at_field_boundary == state = "Idle" /\ shift = 0 /\ depth = 0

FeedReturns ==
  /\ status = "Feeding" /\ left = 0
  /\ status' = IF at_field_boundary THEN "Complete" ELSE "Incomplete"
  /\ calls' = <<>>
  /\ UNCHANGED <<decoder, left>>

\* A byte is taken and the feed goes on.
Reads == status = "Feeding" /\ left > 0 /\ left' = left - 1 /\ UNCHANGED status

\* A byte is taken and it makes the message malformed: the rest is dropped.
Rejects ==
  /\ status = "Feeding" /\ left > 0
  /\ state' = "Invalid" /\ status' = "InvalidMsg" /\ left' = 0 /\ calls' = <<>>
  /\ UNCHANGED <<array_kind, depth, array_remaining, acc_lo>>

-----------------------------------------------------------------------------
(* Varint bytes: Core::push and what `step` does with the value *)

Continues_but_six_bits(byte) ==
  /\ Reads /\ state \in VarintStates
  /\ ~Overlong(byte, shift) /\ More(byte)
  /\ acc' = Accumulate(acc, byte, shift)
  /\ shift' = shift + PayloadBits - 1
  /\ calls' = <<>>
  /\ UNCHANGED <<state, array_kind, fixlen_type, depth, id, array_remaining,
                 fixlen_total, fixlen_remaining, acc_lo>>

Continues(byte) ==
  /\ Reads /\ state \in VarintStates
  /\ ~Overlong(byte, shift) /\ More(byte)
  /\ acc' = Accumulate(acc, byte, shift)
  /\ shift' = shift + PayloadBits
  /\ calls' = <<>>
  /\ UNCHANGED <<state, array_kind, fixlen_type, depth, id, array_remaining,
                 fixlen_total, fixlen_remaining, acc_lo>>

\* push leaves the accumulator as it is: it is never read again.
OverlongRejected(byte) ==
  /\ state \in VarintStates /\ Overlong(byte, shift)
  /\ Rejects /\ shift' = 0
  /\ UNCHANGED <<acc, id, fixlen_type, fixlen_total, fixlen_remaining>>

\* The byte ends the varint; v is the value handed to the state's handler.
Ends(byte, v) ==
  /\ state \in VarintStates /\ ~Overlong(byte, shift) /\ ~More(byte)
  /\ v = Accumulate(acc, byte, shift)
  /\ acc' = 0 /\ shift' = 0

advance_after_element_but_one_late ==
  /\ array_remaining' = IF array_remaining = 0 THEN 0 ELSE array_remaining - 1
  /\ state' = IF array_remaining > 0 THEN state ELSE "Idle"

\* Next element of the array being read, or back to the field boundary.
advance_after_element ==
  /\ array_remaining' = IF array_remaining = 0 THEN 0 ELSE array_remaining - 1
  /\ state' = IF array_remaining > 1 THEN state ELSE "Idle"

IntegerEnds(byte, v) ==
  /\ Ends(byte, v) /\ Reads
  /\ state \in {"VarintUnsigned", "VarintSigned"}
  /\ calls' = <<IF state = "VarintSigned"
                  THEN [fn |-> "signed", id |-> id, value |-> zigzag_decode(v)]
                  ELSE [fn |-> "unsigned", id |-> id, value |-> v]>>
  /\ advance_after_element
  /\ UNCHANGED <<array_kind, fixlen_type, depth, id, fixlen_total,
                 fixlen_remaining, acc_lo>>

-----------------------------------------------------------------------------
(* on_header *)

\* The header of a value: which state reads it, and as which array kind (the
\* subtype of a fixlen array comes later, "Fp32" stands in until then).
ValueState == [t \in 0..5 |-> CASE t = T_VARINT_UNSIGNED -> "VarintUnsigned"
                                [] t = T_VARINT_SIGNED   -> "VarintSigned"
                                [] t = T_FIXLEN          -> "FixlenLen"
                                [] OTHER                 -> "ArrayCount"]

HeaderOpensValue(byte, v) ==
  /\ Ends(byte, v) /\ Reads /\ state = "Idle"
  /\ v \div 8 <= ID_MAX /\ v % 8 \in WireTypes \cap (0..5)
  /\ id' = v \div 8
  /\ state' = ValueState[v % 8]
  /\ array_kind' = CASE v % 8 = T_VARINTARRAY_UNSIGNED -> "Unsigned"
                     [] v % 8 = T_VARINTARRAY_SIGNED   -> "Signed"
                     [] v % 8 = T_FIXLENARRAY          -> "Fp32"
                     [] OTHER                          -> array_kind
  /\ calls' = <<>>
  /\ UNCHANGED <<fixlen_type, depth, array_remaining, fixlen_total,
                 fixlen_remaining, acc_lo>>

HeaderBeginsSequence_but_unbounded(byte, v) ==
  /\ Ends(byte, v) /\ Reads /\ state = "Idle"
  /\ v \div 8 <= ID_MAX
  /\ v % 8 = T_SEQUENCE_START /\ T_SEQUENCE_START \in WireTypes
  /\ depth' = depth + 1 /\ id' = v \div 8
  /\ calls' = <<[fn |-> "sequence_begin", id |-> v \div 8]>>
  /\ UNCHANGED <<state, array_kind, fixlen_type, array_remaining, fixlen_total,
                 fixlen_remaining, acc_lo>>

HeaderBeginsSequence(byte, v) ==
  /\ Ends(byte, v) /\ Reads /\ state = "Idle"
  /\ v \div 8 <= ID_MAX
  /\ v % 8 = T_SEQUENCE_START /\ T_SEQUENCE_START \in WireTypes
  /\ depth < MaxDepth
  /\ depth' = depth + 1 /\ id' = v \div 8
  /\ calls' = <<[fn |-> "sequence_begin", id |-> v \div 8]>>
  /\ UNCHANGED <<state, array_kind, fixlen_type, array_remaining, fixlen_total,
                 fixlen_remaining, acc_lo>>

HeaderEndsSequence(byte, v) ==
  /\ Ends(byte, v) /\ Reads /\ state = "Idle"
  /\ v \div 8 <= ID_MAX
  /\ v % 8 = T_SEQUENCE_END /\ T_SEQUENCE_END \in WireTypes
  /\ depth # 0
  /\ depth' = depth - 1 /\ id' = v \div 8
  /\ calls' = <<[fn |-> "sequence_end"]>>
  /\ UNCHANGED <<state, array_kind, fixlen_type, array_remaining, fixlen_total,
                 fixlen_remaining, acc_lo>>

BadHeader(v) ==
  \/ v \div 8 > ID_MAX
  \/ v % 8 \notin WireTypes
  \/ v % 8 = T_SEQUENCE_START /\ depth >= MaxDepth
  \/ v % 8 = T_SEQUENCE_END /\ depth = 0

HeaderRejected(byte, v) ==
  /\ Ends(byte, v) /\ state = "Idle" /\ BadHeader(v) /\ Rejects
  /\ id' = IF v \div 8 > ID_MAX THEN id ELSE v \div 8
  /\ UNCHANGED <<fixlen_type, fixlen_total, fixlen_remaining>>

-----------------------------------------------------------------------------
(* on_array_count *)

IntegerArrayCounted_but_none_empty(byte, v) ==
  /\ Ends(byte, v) /\ Reads
  /\ state = "ArrayCount" /\ v <= ARRAY_MAX /\ array_kind # "Fp32"
  /\ calls' = <<[fn |-> "array_begin", id |-> id, kind |-> array_kind, count |-> v]>>
  /\ state' = IF array_kind = "Signed" THEN "VarintSigned" ELSE "VarintUnsigned"
  /\ array_remaining' = v
  /\ UNCHANGED <<array_kind, fixlen_type, depth, id, fixlen_total,
                 fixlen_remaining, acc_lo>>

IntegerArrayCounted(byte, v) ==
  /\ Ends(byte, v) /\ Reads
  /\ state = "ArrayCount" /\ v <= ARRAY_MAX /\ array_kind # "Fp32"
  /\ calls' = <<[fn |-> "array_begin", id |-> id, kind |-> array_kind, count |-> v]>>
  /\ IF v = 0 THEN state' = "Idle" /\ UNCHANGED array_remaining
              ELSE /\ state' = IF array_kind = "Signed" THEN "VarintSigned"
                                                        ELSE "VarintUnsigned"
                   /\ array_remaining' = v
  /\ UNCHANGED <<array_kind, fixlen_type, depth, id, fixlen_total,
                 fixlen_remaining, acc_lo>>

\* A fixlen array is not announced before its fixlen_word.
FixlenArrayCounted(byte, v) ==
  /\ Ends(byte, v) /\ Reads
  /\ state = "ArrayCount" /\ v <= ARRAY_MAX /\ array_kind = "Fp32"
  /\ array_remaining' = v /\ state' = "FixlenArrayLen"
  /\ calls' = <<>>
  /\ UNCHANGED <<array_kind, fixlen_type, depth, id, fixlen_total,
                 fixlen_remaining, acc_lo>>

CountRejected(byte, v) ==
  /\ Ends(byte, v) /\ state = "ArrayCount" /\ v > ARRAY_MAX /\ Rejects
  /\ UNCHANGED <<id, fixlen_type, fixlen_total, fixlen_remaining>>

-----------------------------------------------------------------------------
(* on_fixlen_len *)

\* The word names a subtype of this build and a length the format allows.
FixlenWord(v, t) ==
  /\ t \in from_raw(v % 8) /\ v \div 8 <= ARRAY_MAX
  /\ fixlen_type' = t /\ fixlen_total' = v \div 8 /\ fixlen_remaining' = v \div 8

legal_float(v, t) == Width(t) # 0 /\ v \div 8 = Width(t)

\* The word of a fixlen array announces it, with the kind of its elements.
FixlenArrayAnnounced(byte, v, t) ==
  /\ Ends(byte, v) /\ Reads
  /\ state = "FixlenArrayLen" /\ FixlenWord(v, t) /\ legal_float(v, t)
  /\ calls' = <<[fn |-> "array_begin", id |-> id, kind |-> t,
                 count |-> array_remaining]>>
  /\ state' = IF array_remaining = 0 THEN "Idle" ELSE "FixlenVal"
  /\ UNCHANGED <<array_kind, depth, id, array_remaining, acc_lo>>

\* payload_chunk: a run of string or blob bytes.
payload_chunk(t, total, offset, chunk) ==
  [fn |-> IF t = "Blob" THEN "blob" ELSE "string", id |-> id,
   total |-> total, offset |-> offset, chunk |-> chunk]

\* The word of a scalar announces the field; an empty string or blob is also
\* delivered at once, as the single empty chunk.
FixlenFieldAnnounced(byte, v, t) ==
  /\ Ends(byte, v) /\ Reads
  /\ state = "FixlenLen" /\ FixlenWord(v, t) /\ (Width(t) = 0 \/ legal_float(v, t))
  /\ LET begin == [fn |-> "fixlen_begin", id |-> id, subtype |-> t, total |-> v \div 8]
     IN calls' = IF Width(t) = 0 /\ v \div 8 = 0
                   THEN <<begin, payload_chunk(t, 0, 0, <<>>)>> ELSE <<begin>>
  /\ state' = IF Width(t) # 0 THEN "FixlenVal"
              ELSE IF v \div 8 = 0 THEN "Idle" ELSE "FixlenRaw"
  /\ UNCHANGED <<array_kind, depth, id, array_remaining, acc_lo>>

\* No such subtype, a length past the ceiling, a float of another width, or an
\* array of anything but floats.  The context is already set in the last two.
FixlenWordRejected(byte, v) ==
  /\ Ends(byte, v) /\ state \in {"FixlenLen", "FixlenArrayLen"} /\ Rejects
  /\ UNCHANGED id
  /\ \/ /\ from_raw(v % 8) = {} \/ v \div 8 > ARRAY_MAX
        /\ UNCHANGED <<fixlen_type, fixlen_total, fixlen_remaining>>
     \/ \E t \in FixlenTypes :
          /\ FixlenWord(v, t) /\ ~legal_float(v, t)
          /\ Width(t) # 0 \/ state = "FixlenArrayLen"

-----------------------------------------------------------------------------
(* step_fixlen_val: float payloads share the accumulator with the varints *)

TwoWords == "fp64" \in Features /\ ValueBits = FloatBytes * ByteBits

\* float_push shifts the byte in from the top, across both words if there are
\* two; each word hands its lowest byte down to the next.
PushedHigh(byte) == (acc \div 2^ByteBits) + byte * 2^(ValueBits - ByteBits)
PushedLow_but_no_carry ==
  IF TwoWords THEN acc_lo \div 2^ByteBits ELSE acc_lo

PushedLow ==
  IF TwoWords THEN (acc_lo \div 2^ByteBits)
                     + (acc % 2^ByteBits) * 2^(ValueBits - ByteBits)
              ELSE acc_lo

\* float_take: the bits of a payload whose last byte has been pushed.
FloatBits(high, low) ==
  IF fixlen_type # "Fp64" THEN high \div 2^(ValueBits - FloatBytes * ByteBits)
  ELSE IF TwoWords THEN high * 2^ValueBits + low
  ELSE high

FloatByte(byte) ==
  /\ Reads /\ state = "FixlenVal" /\ fixlen_remaining # 1
  /\ acc' = PushedHigh(byte) /\ acc_lo' = PushedLow
  /\ fixlen_remaining' = fixlen_remaining - 1
  /\ calls' = <<>>
  /\ UNCHANGED <<shift, state, array_kind, fixlen_type, depth, id,
                 array_remaining, fixlen_total>>

FloatEnds_but_not_cleared(byte) ==
  /\ Reads /\ state = "FixlenVal" /\ fixlen_remaining = 1
  /\ calls' = <<[fn |-> IF fixlen_type = "Fp64" THEN "fp64" ELSE "fp32", id |-> id,
                 value |-> FloatBits(PushedHigh(byte), PushedLow)]>>
  /\ acc' = PushedHigh(byte) /\ acc_lo' = PushedLow
  /\ advance_after_element
  /\ fixlen_remaining' = IF array_remaining > 1 THEN fixlen_total ELSE 0
  /\ UNCHANGED <<shift, array_kind, fixlen_type, depth, id, fixlen_total>>

FloatEnds_but_low_word_kept(byte) ==
  /\ Reads /\ state = "FixlenVal" /\ fixlen_remaining = 1
  /\ calls' = <<[fn |-> IF fixlen_type = "Fp64" THEN "fp64" ELSE "fp32", id |-> id,
                 value |-> FloatBits(PushedHigh(byte), PushedLow)]>>
  /\ acc' = 0 /\ acc_lo' = PushedLow
  /\ advance_after_element
  /\ fixlen_remaining' = IF array_remaining > 1 THEN fixlen_total ELSE 0
  /\ UNCHANGED <<shift, array_kind, fixlen_type, depth, id, fixlen_total>>

FloatEnds(byte) ==
  /\ Reads /\ state = "FixlenVal" /\ fixlen_remaining = 1
  /\ calls' = <<[fn |-> IF fixlen_type = "Fp64" THEN "fp64" ELSE "fp32", id |-> id,
                 value |-> FloatBits(PushedHigh(byte), PushedLow)]>>
  /\ acc' = 0
  /\ acc_lo' = IF TwoWords /\ fixlen_type = "Fp64" THEN 0 ELSE PushedLow
  /\ advance_after_element
  /\ fixlen_remaining' = IF array_remaining > 1 THEN fixlen_total ELSE 0
  /\ UNCHANGED <<shift, array_kind, fixlen_type, depth, id, fixlen_total>>

-----------------------------------------------------------------------------
(* The bulk path of `feed` *)

RawRun_but_offset_of_its_end(chunk) ==
  /\ status = "Feeding" /\ left > 0 /\ state = "FixlenRaw"
  /\ Len(chunk) = IF left < fixlen_remaining THEN left ELSE fixlen_remaining
  /\ fixlen_remaining' = fixlen_remaining - Len(chunk)
  /\ calls' = <<payload_chunk(fixlen_type, fixlen_total,
                              fixlen_total - fixlen_remaining', chunk)>>
  /\ left' = left - Len(chunk)
  /\ state' = IF fixlen_remaining' = 0 THEN "Idle" ELSE state
  /\ UNCHANGED <<acc, shift, array_kind, fixlen_type, depth, id, array_remaining,
                 fixlen_total, acc_lo, status>>

RawRun_but_never_done(chunk) ==
  /\ status = "Feeding" /\ left > 0 /\ state = "FixlenRaw"
  /\ Len(chunk) = IF left < fixlen_remaining THEN left ELSE fixlen_remaining
  /\ calls' = <<payload_chunk(fixlen_type, fixlen_total,
                              fixlen_total - fixlen_remaining, chunk)>>
  /\ fixlen_remaining' = fixlen_remaining - Len(chunk)
  /\ left' = left - Len(chunk)
  /\ UNCHANGED <<acc, shift, state, array_kind, fixlen_type, depth, id,
                 array_remaining, fixlen_total, acc_lo, status>>

\* What of the chunk belongs to the payload is handed over in one call.
RawRun(chunk) ==
  /\ status = "Feeding" /\ left > 0 /\ state = "FixlenRaw"
  /\ Len(chunk) = IF left < fixlen_remaining THEN left ELSE fixlen_remaining
  /\ calls' = <<payload_chunk(fixlen_type, fixlen_total,
                              fixlen_total - fixlen_remaining, chunk)>>
  /\ fixlen_remaining' = fixlen_remaining - Len(chunk)
  /\ left' = left - Len(chunk)
  /\ state' = IF fixlen_remaining' = 0 THEN "Idle" ELSE state
  /\ UNCHANGED <<acc, shift, array_kind, fixlen_type, depth, id, array_remaining,
                 fixlen_total, acc_lo, status>>

-----------------------------------------------------------------------------
\* The handlers of a finished varint.
Handles(byte, v) ==
  \/ HeaderOpensValue(byte, v) \/ HeaderBeginsSequence(byte, v)
  \/ HeaderEndsSequence(byte, v) \/ HeaderRejected(byte, v)
  \/ IntegerEnds(byte, v)
  \/ IntegerArrayCounted(byte, v) \/ FixlenArrayCounted(byte, v)
  \/ CountRejected(byte, v)
  \/ \E t \in FixlenTypes : FixlenArrayAnnounced(byte, v, t)
                              \/ FixlenFieldAnnounced(byte, v, t)
  \/ FixlenWordRejected(byte, v)

step(byte) ==
  \/ Continues(byte) \/ OverlongRejected(byte)
  \/ Handles(byte, Accumulate(acc, byte, shift))
  \/ FloatByte(byte) \/ FloatEnds(byte)

\* The runs of payload bytes a chunk can hold.
Runs == UNION {[1..n -> PayloadInput] : n \in 0..MaxChunk}

Decodes ==
  \/ \E byte \in Input : step(byte)
  \/ \E chunk \in Runs : RawRun(chunk)
  \/ FeedReturns

Next == FeedRefused \/ (\E n \in 0..MaxChunk : FeedBegins(n)) \/ Decodes

Spec == Init /\ [][Next]_vars

\* A feed is a loop without waiting: it runs on once it has begun.
FairSpec == Spec /\ WF_vars(Decodes)
-----------------------------------------------------------------------------
(* Properties *)

\* Every variable has its type; the counters have the widths of the code's.
TypeOK ==
  /\ acc \in Unsigned /\ acc_lo \in Unsigned
  /\ shift \in 0..(ValueBits - 1)
  /\ state \in States
  /\ array_kind \in ArrayKinds \ {"Fp64"} /\ fixlen_type \in FixlenTypes
  /\ depth \in 0..MaxDepth /\ id \in Ids
  /\ array_remaining \in 0..ARRAY_MAX
  /\ fixlen_total \in 0..ARRAY_MAX /\ fixlen_remaining \in 0..ARRAY_MAX
  /\ left \in 0..MaxChunk
  /\ status \in {"New", "Feeding", "Complete", "Incomplete", "InvalidMsg"}

\* The payload bits already accumulated lie below `shift` in a varint, so the
\* `|=` of Core::push never meets a bit that is set.
BitsBelowShift == state \in VarintStates => acc < 2^shift

\* One accumulator serves varints and floats.  Whenever either begins it is
\* zero, and the second word of a narrow build with it: no bit of a float
\* leaks into the next varint or the next float, whatever came before.
CleanHigh ==
  /\ state \in VarintStates \cup {"FixlenRaw"} /\ shift = 0 => acc = 0
  /\ state = "FixlenVal" /\ fixlen_remaining = fixlen_total => acc = 0

CleanLow ==
  /\ state \notin {"FixlenVal", "Invalid"} => acc_lo = 0
  /\ state = "FixlenVal" /\ fixlen_remaining = fixlen_total => acc_lo = 0

CleanAccumulator == CleanHigh /\ CleanLow

\* The counts of what is still to come agree with the state that will count
\* them down: none is decremented from 0, a float payload is never read for a
\* string, and a non-zero array_remaining means an array everywhere it is
\* taken to (`advance_after_element` has no other test).
CountsMatchState ==
  /\ state \in {"Idle", "FixlenLen", "FixlenRaw", "ArrayCount"} => array_remaining = 0
  /\ state = "VarintUnsigned" /\ array_remaining # 0 => array_kind = "Unsigned"
  /\ state = "VarintSigned" /\ array_remaining # 0 => array_kind = "Signed"
  /\ state = "FixlenVal" => /\ fixlen_total = Width(fixlen_type)
                            /\ fixlen_remaining \in 1..fixlen_total
                            /\ shift = 0
  /\ state = "FixlenRaw" => /\ Width(fixlen_type) = 0
                            /\ fixlen_remaining \in 1..fixlen_total
                            /\ shift = 0

\* The verdict the code latches: a feed that found the message malformed is
\* followed only by feeds that say so, reading nothing and calling nothing,
\* and the machine is in State::Invalid exactly from that verdict on.
InvalidIsLatched ==
  [][/\ state' = "Invalid" <=> status' = "InvalidMsg"
     /\ status = "InvalidMsg" => status' = "InvalidMsg" /\ calls' = <<>> /\ left' = left]_vars

\* Every feed returns: no state of the machine loops without taking a byte.
FeedTerminates == (status = "Feeding") ~> (status # "Feeding")

\* A callback as VisitorContract knows it: without the value it carries.
Shape(c) ==
  IF c.fn \in {"unsigned", "signed", "fp32", "fp64"} THEN [fn |-> c.fn, id |-> c.id]
  ELSE IF c.fn \in {"string", "blob"}
    THEN [fn |-> c.fn, id |-> c.id, total |-> c.total, offset |-> c.offset,
          len |-> Len(c.chunk)]
  ELSE c

Shapes == [i \in 1..Len(calls) |-> Shape(calls[i])]

\* The field whose callbacks are still coming, read off the machine's state.
InArray == state \in {"VarintUnsigned", "VarintSigned", "FixlenVal"} /\ array_remaining # 0

Field ==
  IF InArray
    THEN [what |-> "array", id |-> id, left |-> array_remaining,
          kind |-> IF state = "FixlenVal" THEN fixlen_type ELSE array_kind]
  ELSE IF state = "FixlenVal"
    THEN [what |-> "float", id |-> id, kind |-> fixlen_type]
  ELSE IF state = "FixlenRaw"
    THEN [what |-> "payload", id |-> id, kind |-> fixlen_type,
          total |-> fixlen_total, got |-> fixlen_total - fixlen_remaining]
  ELSE [what |-> "none"]

Contract == INSTANCE VisitorContract WITH
  nest <- depth, field <- Field, over <- (state = "Invalid"), calls <- Shapes

\* The decoder keeps the visitor contract: arrays and fixlen fields announced
\* once and before their contents, as many elements as announced and under
\* the same id, contiguous chunks up to the total, balanced sequences.
KeepsContract == Contract!Spec
=============================================================================
