----------------------------- MODULE WireGrammar -----------------------------
(***************************************************************************)
(* What a whole message means, read in one piece: the events it holds and  *)
(* whether it is complete, incomplete or malformed.  This is the reference *)
(* the streaming decoder is held to; it keeps no state between bytes and   *)
(* knows nothing of chunks.                                                *)
(*                                                                         *)
(* A message is read one item at a time: a header, a count, a word, an     *)
(* integer, a float or a payload, each of which is all there or not.  An   *)
(* event is a callback, a payload being one event however many chunks      *)
(* delivered it.                                                           *)
(***************************************************************************)
EXTENDS Wire, Sequences, FiniteSets

\* A reading is at position p with `nest` sequences open, awaits an item and has
\* met the events so far; or it has ended with a verdict.
At(p, nest, awaits, events) ==
  [verdict |-> "none", p |-> p, nest |-> nest, awaits |-> awaits, events |-> events]

Ended(verdict, events) == [verdict |-> verdict, events |-> events]

\* The items, under the id of their field: a field header; `left` more integers
\* of a kind; the count of an array ("Fp32" if of floats) and the word that names
\* the subtype of its floats; the word of an fp32, fp64, string or blob; `left`
\* more floats of a subtype; the payload of a string or blob.
AHeader              == [is |-> "header"]
Integers(f, k, left) == [is |-> "integers", id |-> f, kind |-> k, left |-> left]
ACount(f, k)         == [is |-> "count", id |-> f, kind |-> k]
AnArrayWord(f, n)    == [is |-> "array word", id |-> f, count |-> n]
AWord(f)             == [is |-> "word", id |-> f]
Floats(f, t, left)   == [is |-> "floats", id |-> f, kind |-> t, left |-> left]
APayload(f, t, n)    == [is |-> "payload", id |-> f, kind |-> t, total |-> n]

-----------------------------------------------------------------------------
(* Numbers *)

\* Little-endian value of digits of `bits` bits, the first the lowest.
LittleEndian(digits, bits) ==
  LET sum[n \in 0..Len(digits)] ==
        IF n = 0 THEN 0 ELSE sum[n - 1] + digits[n] * 2^(bits * (n - 1))
  IN sum[Len(digits)]

\* The payload bits of the varint bytes from p to q.
Digits(s, p, q) == [i \in 1..(q - p + 1) |-> Payload(s[p + i - 1])]

\* A varint reaches from p to the first byte without the continuation flag.  It
\* is malformed as soon as it is known not to fit the value type.
VarintBytes == (ValueBits + PayloadBits - 1) \div PayloadBits

ReadVarint(s, p) ==
  LET ends  == {q \in p..Len(s) : ~More(s[q])}
      last  == IF ends = {} THEN Len(s) ELSE CHOOSE q \in ends : \A r \in ends : q <= r
      size  == last - p + 1
      value == LittleEndian(Digits(s, p, IF size < VarintBytes THEN last
                                                               ELSE p + VarintBytes - 1),
                            PayloadBits)
  IN IF value \notin Unsigned \/ size > VarintBytes \/ (ends = {} /\ size = VarintBytes)
       THEN [is |-> "malformed"]
     ELSE IF ends = {} THEN [is |-> "partial"]
     ELSE [is |-> "read", value |-> value, next |-> last + 1]

-----------------------------------------------------------------------------
(* The items that are varints: v is the value, q the position after it *)

SubtypeOf(word)  == from_raw(word % 8)
IntegerCall(k)   == IF k = "Signed" THEN "signed" ELSE "unsigned"
FloatCall(t)     == IF t = "Fp64" THEN "fp64" ELSE "fp32"
BytesCall(t)     == IF t = "Blob" THEN "blob" ELSE "string"

\* What follows the header of a value.
Opened(f, t) ==
  IF t = T_VARINT_UNSIGNED THEN Integers(f, "Unsigned", 1)
  ELSE IF t = T_VARINT_SIGNED THEN Integers(f, "Signed", 1)
  ELSE IF t = T_FIXLEN THEN AWord(f)
  ELSE ACount(f, IF t = T_VARINTARRAY_UNSIGNED THEN "Unsigned"
                 ELSE IF t = T_VARINTARRAY_SIGNED THEN "Signed" ELSE "Fp32")

FieldHeader(c, v, q) ==
  LET f == v \div 8
      t == v % 8
  IN IF \/ f > ID_MAX \/ t \notin WireTypes
        \/ t = T_SEQUENCE_START /\ c.nest = MaxDepth
        \/ t = T_SEQUENCE_END /\ c.nest = 0
       THEN Ended("InvalidMsg", c.events)
     ELSE IF t = T_SEQUENCE_START
       THEN At(q, c.nest + 1, AHeader, Append(c.events, [fn |-> "sequence_begin", id |-> f]))
     ELSE IF t = T_SEQUENCE_END
       THEN At(q, c.nest - 1, AHeader, Append(c.events, [fn |-> "sequence_end"]))
     ELSE At(q, c.nest, Opened(f, t), c.events)

\* After one of several elements the others, after the last a field header.
Others(a) == IF a.left = 1 THEN AHeader ELSE [a EXCEPT !.left = @ - 1]

Integer(c, v, q) ==
  LET a == c.awaits
  IN At(q, c.nest, Others(a),
        Append(c.events, [fn |-> IntegerCall(a.kind), id |-> a.id,
                          value |-> IF a.kind = "Signed" THEN zigzag_decode(v) ELSE v]))

\* An array of floats does not begin before its word.
Count(c, v, q) ==
  LET a == c.awaits
  IN IF v > ARRAY_MAX THEN Ended("InvalidMsg", c.events)
     ELSE IF a.kind = "Fp32" THEN At(q, c.nest, AnArrayWord(a.id, v), c.events)
     ELSE At(q, c.nest, IF v = 0 THEN AHeader ELSE Integers(a.id, a.kind, v),
             Append(c.events, [fn |-> "array_begin", id |-> a.id, kind |-> a.kind,
                               count |-> v]))

ArrayWord(c, v, q) ==
  LET a      == c.awaits
      floats == {t \in SubtypeOf(v) : Width(t) # 0 /\ v \div 8 = Width(t)}
      t      == CHOOSE x \in floats : TRUE
  IN IF floats = {} \/ v \div 8 > ARRAY_MAX THEN Ended("InvalidMsg", c.events)
     ELSE At(q, c.nest, IF a.count = 0 THEN AHeader ELSE Floats(a.id, t, a.count),
             Append(c.events, [fn |-> "array_begin", id |-> a.id, kind |-> t,
                               count |-> a.count]))

\* The event of a payload of which `chunk` is there.
PayloadEvent(a, chunk) == [fn |-> BytesCall(a.kind), id |-> a.id, total |-> a.total,
                           offset |-> 0, chunk |-> chunk]

\* A payload of no bytes is an event all the same.
Word(c, v, q) ==
  LET f     == c.awaits.id
      n     == v \div 8
      t     == CHOOSE x \in SubtypeOf(v) : TRUE
      begun == Append(c.events, [fn |-> "fixlen_begin", id |-> f, subtype |-> t, total |-> n])
  IN IF SubtypeOf(v) = {} \/ n > ARRAY_MAX \/ Width(t) \notin {0, n}
       THEN Ended("InvalidMsg", c.events)
     ELSE IF Width(t) # 0 THEN At(q, c.nest, Floats(f, t, 1), begun)
     ELSE IF n # 0 THEN At(q, c.nest, APayload(f, t, n), begun)
     ELSE At(q, c.nest, AHeader, Append(begun, PayloadEvent(APayload(f, t, 0), <<>>)))

-----------------------------------------------------------------------------
(* The items that are bytes *)

Float(s, c) ==
  LET a   == c.awaits
      end == c.p + Width(a.kind)
  IN IF Len(s) < end - 1 THEN Ended("Incomplete", c.events)
     ELSE At(end, c.nest, Others(a),
             Append(c.events, [fn |-> FloatCall(a.kind), id |-> a.id,
                               value |-> LittleEndian(SubSeq(s, c.p, end - 1), ByteBits)]))

\* What has arrived of a payload is an event.
PayloadBytes(s, c) ==
  LET a   == c.awaits
      end == c.p + a.total
  IN IF Len(s) < c.p THEN Ended("Incomplete", c.events)
     ELSE IF Len(s) < end - 1
       THEN Ended("Incomplete", Append(c.events, PayloadEvent(a, SubSeq(s, c.p, Len(s)))))
     ELSE At(end, c.nest, AHeader, Append(c.events, PayloadEvent(a, SubSeq(s, c.p, end - 1))))

-----------------------------------------------------------------------------
\* A varint that has been read, as the item it is.
Read(c, v, q) ==
  IF c.awaits.is = "header"          THEN FieldHeader(c, v, q)
  ELSE IF c.awaits.is = "integers"   THEN Integer(c, v, q)
  ELSE IF c.awaits.is = "count"      THEN Count(c, v, q)
  ELSE IF c.awaits.is = "array word" THEN ArrayWord(c, v, q)
  ELSE Word(c, v, q)

Varint(s, c) ==
  LET r == ReadVarint(s, c.p)
  IN IF r.is = "read" THEN Read(c, r.value, r.next)
     ELSE Ended(IF r.is = "partial" THEN "Incomplete" ELSE "InvalidMsg", c.events)

\* The reading after one more item.  The end of the message is no item of it.
Item(s, c) ==
  IF c.verdict # "none" THEN c
  ELSE IF c.awaits.is = "header" /\ c.p > Len(s)
    THEN Ended(IF c.nest = 0 THEN "Complete" ELSE "Incomplete", c.events)
  ELSE IF c.awaits.is = "floats" THEN Float(s, c)
  ELSE IF c.awaits.is = "payload" THEN PayloadBytes(s, c)
  ELSE Varint(s, c)

\* The reading of s after so many items.  Each has a byte at least.
Readings(s) ==
  LET reading[n \in 0..(Len(s) + 1)] ==
        IF n = 0 THEN At(1, 0, AHeader, <<>>) ELSE Item(s, reading[n - 1])
  IN reading

Meaning(s) ==
  LET end == Readings(s)[Len(s) + 1]
  IN [verdict |-> end.verdict, events |-> end.events]
=============================================================================
