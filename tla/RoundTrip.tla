----------------------------- MODULE RoundTrip -----------------------------
(***************************************************************************)
(* An encoder and what its caller has said: the events a decoder should    *)
(* find in the bytes that came out.  The bytes are read by WireGrammar,    *)
(* the same reference the streaming decoder is held to, so what is written *)
(* here and read there meet in one definition.  Nothing is written after a *)
(* cut: the message is then broken, which the encoder's promise covers.    *)
(***************************************************************************)
EXTENDS OStream, WireGrammar

VARIABLE said  \* the events of the writes so far, held-back sequences left out

tripVars == <<vars, said>>

Begin(id) == [fn |-> "sequence_begin", id |-> id]

\* The events of a field, by the writer that was called.
ArrayOf(fn, kind, field) ==
  <<[fn |-> "array_begin", id |-> field.id, kind |-> kind, count |-> Len(field.data)]>>
    \o [i \in 1..Len(field.data) |-> [fn |-> fn, id |-> field.id, value |-> field.data[i]]]

Value(fn, field) == [fn |-> fn, id |-> field.id, value |-> field.data]

FixlenOf(field, subtype, total, event) ==
  <<[fn |-> "fixlen_begin", id |-> field.id, subtype |-> subtype, total |-> total],
    event>>

PayloadOf(fn, subtype, field) ==
  FixlenOf(field, subtype, Len(field.data),
           [fn |-> fn, id |-> field.id, total |-> Len(field.data), offset |-> 0,
            chunk |-> field.data])

Says(field) ==
  CASE field.writer = "write_unsigned" -> <<Value("unsigned", field)>>
    [] field.writer = "write_signed"   -> <<Value("signed", field)>>
    [] field.writer = "write_fp32" -> FixlenOf(field, "Fp32", Width("Fp32"), Value("fp32", field))
    [] field.writer = "write_fp64" -> FixlenOf(field, "Fp64", Width("Fp64"), Value("fp64", field))
    [] field.writer = "write_str"  -> PayloadOf("string", "Str", field)
    [] field.writer = "write_blob" -> PayloadOf("blob", "Blob", field)
    [] field.writer = "write_fixlen" /\ field.subtype = "Blob" -> PayloadOf("blob", "Blob", field)
    [] field.writer = "write_fixlen" /\ field.subtype # "Blob" ->
         FixlenOf(field, field.subtype, Len(field.data),
                  [fn |-> FloatCall(field.subtype), id |-> field.id,
                   value |-> LittleEndian(field.data, ByteBits)])
    [] field.writer = "write_array_unsigned" -> ArrayOf("unsigned", "Unsigned", field)
    [] field.writer = "write_array_signed"   -> ArrayOf("signed", "Signed", field)
    [] field.writer = "write_array_fp32"     -> ArrayOf("fp32", "Fp32", field)
    [] field.writer = "write_array_fp64"     -> ArrayOf("fp64", "Fp64", field)

\* What can be read back: a payload or an array as long as the format's ceiling
\* and its word or count in the value type allow, and a float that write_fixlen is
\* given as bytes in its own width.  No writer checks any of it.
Readable(field) ==
  LET n == Len(field.data)
  IN /\ field.writer \in {"write_str", "write_blob", "write_fixlen"} =>
          n <= ARRAY_MAX /\ n * 8 + 7 \in Unsigned
     /\ field.writer = "write_fixlen" => Width(field.subtype) \in {0, n}
     /\ TypeOf(field) \in {T_VARINTARRAY_UNSIGNED, T_VARINTARRAY_SIGNED, T_FIXLENARRAY} =>
          n <= ARRAY_MAX /\ n \in Unsigned

\* Whatever is written after them, the sequences held back have begun.
SaysAlso(events) == said' = said \o [i \in 1..Len(pending) |-> Begin(pending[i])] \o events

TripInit == Init /\ said = <<>>

TripNext ==
  /\ result # "BufferFull"
  /\ \/ \E field \in FieldInputs : WriteField(field) /\ SaysAlso(Says(field))
     \/ /\ "sequence" \in Features
        /\ \/ \E id \in SequenceIds : FramesEagerly(id) /\ SaysAlso(<<Begin(id)>>)
           \/ write_sequence_end_keep /\ SaysAlso(<<[fn |-> "sequence_end"]>>)
           \/ (Vanishes \/ \E id \in SequenceIds : HoldsBack(id)) /\ UNCHANGED said
     \/ (Refused \/ Pushes \/ Drains \/ Installs \/ taken) /\ UNCHANGED said

TripSpec == TripInit /\ [][TripNext]_tripVars

\* Between writes the bytes that came out, read back, are what was written:
\* the same fields with the same ids and values, in sequences that are framed
\* exactly when they have content or are kept; and the message is complete
\* exactly when the sequences still open are the ones held back.
ReadsBack ==
  call = None /\ result # "BufferFull" =>
    Meaning(Stream) =
      [verdict |-> IF Len(pending) = depth THEN "Complete" ELSE "Incomplete",
       events  |-> said]
=============================================================================
