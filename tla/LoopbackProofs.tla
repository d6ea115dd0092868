--------------------------- MODULE LoopbackProofs ---------------------------
(***************************************************************************)
(* Proofs about encoder and decoder together, for every width and every    *)
(* set of buffers, fields and features a build can have.                   *)
(***************************************************************************)
EXTENDS Loopback, OStreamProofs

\* The receiver again, with what is proved about it.
R == INSTANCE DecodingProofs WITH
  acc <- r_acc, shift <- r_shift, state <- r_state, array_kind <- r_array_kind,
  fixlen_type <- r_fixlen_type, depth <- r_depth, id <- r_id,
  array_remaining <- r_array_remaining, fixlen_total <- r_fixlen_total,
  fixlen_remaining <- r_fixlen_remaining, acc_lo <- r_acc_lo,
  left <- r_left, status <- r_status, calls <- r_calls,
  seen <- SubSeq(emitted, 1, fed), log <- heard,
  Input <- Bytes, PayloadInput <- Bytes

-----------------------------------------------------------------------------
(* The receiver is the decoder *)

\* What the decoder assumes of its parameters holds of those it is given here: it
\* may be fed any byte, in chunks of the size the sink feeds it.
LEMMA AnyInput ==
  /\ Bytes \subseteq R!Bytes /\ MaxChunk \in Nat /\ MaxMessage \in Nat
  /\ \A n \in 0..2 * ValueBits : 2^n \in Nat \ {0}
  /\ \A m, n \in 0..2 * ValueBits : m + n <= 2 * ValueBits => 2^(m + n) = 2^m * 2^n
  /\ Features \subseteq {"fixlen", "fp64", "array", "sequence"}
  /\ "fp64" \in Features => "fixlen" \in Features
  /\ PayloadBits \in Nat \ {0} /\ 8 <= 2^PayloadBits
  /\ FloatBytes \in Nat \ {0}
  /\ ValueBits \in {FloatBytes * R!ByteBits, 2 * FloatBytes * R!ByteBits}
  /\ \A k \in 0..ValueBits : k * PayloadBits # ValueBits
  /\ FormatMax \in Nat /\ MaxDepth \in Nat /\ Target32 \in BOOLEAN
BY StreamAssumption, FeedAssumption, WidthAssumption, FeatureAssumption, PowerAssumption
DEF Bytes, R!Bytes, ByteBits, R!ByteBits

\* Both receivers start alike,
LEMMA SameStart == Receiver!Init <=> R!Init
BY DEF Receiver!Init, R!Init, Receiver!Unsigned, R!Unsigned

\* Its steps are the decoder's.
LEMMA SameBegins == \A x : Receiver!FeedBegins(x) <=> R!FeedBegins(x)
BY DEF Receiver!FeedBegins, R!FeedBegins, Receiver!decoder, R!decoder

\* return alike,
LEMMA SameReturns == Receiver!FeedReturns <=> R!FeedReturns
BY DEF Receiver!FeedReturns, R!FeedReturns, Receiver!at_field_boundary, R!at_field_boundary,
       Receiver!decoder, R!decoder

\* read a byte alike,
LEMMA SameReads == \A x : Receiver!step(x) <=> R!step(x)
BY DEF Receiver!step, R!step, Receiver!Continues, R!Continues, Receiver!OverlongRejected,
       R!OverlongRejected, Receiver!Handles, R!Handles, Receiver!Accumulate, R!Accumulate,
       Receiver!FloatByte, R!FloatByte, Receiver!FloatEnds, R!FloatEnds, Receiver!Reads, R!Reads,
       Receiver!VarintStates, R!VarintStates, Receiver!Overlong, R!Overlong, Receiver!More, R!More,
       Receiver!Rejects, R!Rejects, Receiver!HeaderOpensValue, R!HeaderOpensValue,
       Receiver!HeaderBeginsSequence, R!HeaderBeginsSequence, Receiver!HeaderEndsSequence,
       R!HeaderEndsSequence, Receiver!HeaderRejected, R!HeaderRejected, Receiver!IntegerEnds,
       R!IntegerEnds, Receiver!IntegerArrayCounted, R!IntegerArrayCounted,
       Receiver!FixlenArrayCounted, R!FixlenArrayCounted, Receiver!CountRejected, R!CountRejected,
       Receiver!FixlenTypes, R!FixlenTypes, Receiver!FixlenArrayAnnounced, R!FixlenArrayAnnounced,
       Receiver!FixlenFieldAnnounced, R!FixlenFieldAnnounced, Receiver!FixlenWordRejected,
       R!FixlenWordRejected, Receiver!payload_at, R!payload_at, Receiver!Payload, R!Payload,
       Receiver!PushedHigh, R!PushedHigh, Receiver!PushedLow, R!PushedLow, Receiver!FloatBits,
       R!FloatBits, Receiver!TwoWords, R!TwoWords, Receiver!advance_after_element,
       R!advance_after_element, Receiver!Ends, R!Ends, Receiver!ID_MAX, R!ID_MAX, Receiver!WireTypes,
       R!WireTypes, Receiver!ValueState, R!ValueState, Receiver!T_VARINTARRAY_UNSIGNED,
       R!T_VARINTARRAY_UNSIGNED, Receiver!Unsigned, R!Unsigned, Receiver!T_VARINTARRAY_SIGNED,
       R!T_VARINTARRAY_SIGNED, Receiver!Signed, R!Signed, Receiver!T_FIXLENARRAY, R!T_FIXLENARRAY,
       Receiver!T_SEQUENCE_START, R!T_SEQUENCE_START, Receiver!T_SEQUENCE_END, R!T_SEQUENCE_END,
       Receiver!BadHeader, R!BadHeader, Receiver!zigzag_decode, R!zigzag_decode, Receiver!ARRAY_MAX,
       R!ARRAY_MAX, Receiver!FixlenWord, R!FixlenWord, Receiver!legal_float, R!legal_float,
       Receiver!Width, R!Width, Receiver!payload_chunk, R!payload_chunk, Receiver!from_raw,
       R!from_raw, Receiver!ByteBits, R!ByteBits, Receiver!shifted_in_halves, R!shifted_in_halves,
       Receiver!shifted, R!shifted, Receiver!T_VARINT_UNSIGNED, R!T_VARINT_UNSIGNED,
       Receiver!T_VARINT_SIGNED, R!T_VARINT_SIGNED, Receiver!T_FIXLEN, R!T_FIXLEN,
       Receiver!FixlenCode, R!FixlenCode

\* take a run of payload bytes alike,
LEMMA SameRun == \A x : Receiver!RawRun(x) <=> R!RawRun(x)
BY DEF Receiver!RawRun, R!RawRun, Receiver!payload_chunk, R!payload_chunk

\* are heard alike,
LEMMA SameHears == Receiver!Hears <=> R!Hears
BY DEF Receiver!Hears, R!Hears, Receiver!Heard, R!Heard, Receiver!Join, R!Join

\* and are clean alike.
LEMMA SameClean == Receiver!CleanAccumulator <=> R!CleanAccumulator
BY DEF Receiver!CleanAccumulator, R!CleanAccumulator, Receiver!CleanHigh, R!CleanHigh,
       Receiver!CleanLow, R!CleanLow, Receiver!VarintStates, R!VarintStates

-----------------------------------------------------------------------------
(* What the receiver has taken *)

\* The receiver has been fed a prefix of what was handed over, by a sink there is;
\* it is inside a feed only while the sink runs.
Fed ==
  /\ emitted \in Seq(Bytes) /\ fed \in 0..Len(emitted)
  /\ fed > 0 => sinks /\ r_status # "New"
  /\ r_status = "Feeding" => pc = "sink"

Received == R!Inv /\ R!LowInv /\ R!HInv /\ R!Returned

\* A byte or a run more of what was handed over.
LEMMA FeedGrows ==
  ASSUME NEW e \in Seq(Bytes), NEW m \in 0..Len(e), NEW k \in Nat, m + k <= Len(e)
  PROVE  /\ SubSeq(e, 1, m) \in Seq(Bytes)
         /\ SubSeq(e, m + 1, m + k) \in Seq(Bytes) /\ Len(SubSeq(e, m + 1, m + k)) = k
         /\ SubSeq(e, 1, m + k) = SubSeq(e, 1, m) \o SubSeq(e, m + 1, m + k)
         /\ k = 1 => /\ e[m + 1] \in Bytes
                     /\ SubSeq(e, 1, m + 1) = Append(SubSeq(e, 1, m), e[m + 1])
<1>0. Len(e) \in Nat /\ m \in Nat /\ \A i \in 1..Len(e) : e[i] \in Bytes
  BY LenProperties, ElementOfSeq
<1>1. SubSeq(e, 1, m) \in Seq(Bytes)
  <2>1. \A i \in 1..m : e[i] \in Bytes
    BY <1>0
  <2> QED BY <1>0, <2>1, SubSeqProperties
<1>2. SubSeq(e, m + 1, m + k) \in Seq(Bytes) /\ Len(SubSeq(e, m + 1, m + k)) = k
  <2>1. \A i \in (m + 1)..(m + k) : e[i] \in Bytes
    BY <1>0
  <2>2. m + 1 \in Int /\ m + k \in Int
    BY <1>0
  <2>3. Len(SubSeq(e, m + 1, m + k)) = IF m + 1 <= m + k THEN m + k - (m + 1) + 1 ELSE 0
    BY <2>1, <2>2, SubSeqProperties
  <2>4. SubSeq(e, m + 1, m + k) \in Seq(Bytes)
    BY <2>1, <2>2, SubSeqProperties
  <2> QED BY <1>0, <2>3, <2>4
<1>3. SubSeq(e, 1, m + k) = SubSeq(e, 1, m) \o SubSeq(e, m + 1, m + k)
  <2>1. 1 \in 1..(Len(e) + 1) /\ m \in (1 - 1)..Len(e) /\ m + k \in m..Len(e)
    BY <1>0
  <2> QED BY <2>1, ConcatAdjacentSubSeq
<1>4. ASSUME k = 1
      PROVE  /\ e[m + 1] \in Bytes
             /\ SubSeq(e, 1, m + 1) = Append(SubSeq(e, 1, m), e[m + 1])
  <2>1. 1 \in 1..Len(e) /\ m + 1 \in 1..Len(e) /\ (m + 1) - 1 = m
    BY <1>0, <1>4
  <2>2. SubSeq(e, 1, m + 1) = SubSeq(e, 1, m) \o <<e[m + 1]>>
    BY <2>1, SubSeqRecursiveSecond
  <2>3. e[m + 1] \in Bytes
    BY <1>0, <2>1
  <2> QED BY <1>1, <2>2, <2>3, AppendIsConcat
<1> QED BY <1>1, <1>2, <1>3, <1>4

\* What is handed over only grows.
LEMMA HandedOverGrows ==
  ASSUME IInv, [Next]_vars
  PROVE  sinks' = sinks /\ (emitted' = emitted \/ emitted' = Stream)
<1>1. CASE UNCHANGED vars
  BY <1>1 DEF vars, streamVars
<1>2. CASE WritesField \/ BeginsSequence \/ EndsSequence \/ Refused
  BY <1>2 DEF WritesField, WriteField, BeginsSequence, write_sequence_begin_lazy, HoldsBack,
     FramesEagerly, EndsSequence, write_sequence_end, write_sequence_end_keep, Vanishes, Begins,
     Refused, streamVars
<1>3. CASE Pushes
  BY <1>3 DEF Pushes, StoreByte, BufferFull, DrainsWhenFull, HandsOver, streamVars
<1>4. CASE Drains
  BY <1>4 DEF Drains, flush, HandsOver, SinkReturns, SwapReturns, streamVars
<1>5. CASE Installs \/ taken
  BY <1>5 DEF Installs, buffer_set, install, HandsOver, taken, streamVars
<1> QED BY <1>1, <1>2, <1>3, <1>4, <1>5 DEF Next

\* The steps of the round trip are the encoder's.
LEMMA TripStepsAreSteps == [TripNext]_tripVars => [Next]_vars
BY DEF TripNext, tripVars, Next, WritesField, BeginsSequence, EndsSequence,
   write_sequence_begin_lazy, write_sequence_end

\* While the encoder goes on the receiver stands still.
LEMMA WritesReceived ==
  ASSUME IInv, IInv', Fed, Received, Writes
  PROVE  Fed' /\ UNCHANGED R!historyVars
<1>1. /\ fed = Len(emitted) /\ r_status # "Feeding" /\ fed' = fed /\ heard' = heard
      /\ r_status' = r_status /\ UNCHANGED R!vars
  BY DEF Writes, receiver, R!vars, R!decoder
<1>2. sinks' = sinks /\ (emitted' = emitted \/ emitted' = Stream)
  BY TripStepsAreSteps, HandedOverGrows DEF Writes
<1>3. emitted \in Seq(Bytes) /\ emitted' \in Seq(Bytes)
  BY DEF IInv, TypeOK, BufferTypeOK
<1>4. /\ SubSeq(emitted', 1, fed) = SubSeq(emitted, 1, fed)
      /\ fed \in 0..Len(emitted')
  <2>1. CASE emitted' = emitted
    BY <1>1, <2>1 DEF Fed
  <2>2. CASE emitted' = Stream
    <3>1. PICK more : more = SubSeq(mem[buffer], room + 1, offset)
      OBVIOUS
    <3>2. more \in Seq(Bytes) /\ Stream = emitted \o more
      <4>1. /\ offset \in Nat /\ room \in Nat /\ offset <= Size[buffer]
            /\ mem[buffer] \in Seq(Bytes) /\ Len(mem[buffer]) = Size[buffer]
            /\ Size[buffer] \in Nat
        BY StreamAssumption DEF IInv, TypeOK, BufferTypeOK
      <4>2. \A i \in (room + 1)..offset : mem[buffer][i] \in Bytes
        BY <4>1, ElementOfSeq
      <4> QED BY <3>1, <4>1, <4>2, SubSeqProperties DEF Stream
    <3>3. /\ SubSeq(emitted \o more, 1, Len(emitted)) = emitted
          /\ Len(emitted \o more) = Len(emitted) + Len(more)
          /\ Len(emitted) \in Nat /\ Len(more) \in Nat
      BY <1>3, <3>2, FirstPart, Followed
    <3>4. SubSeq(emitted, 1, Len(emitted)) = emitted
      BY <1>3, SubSeqFull
    <3> QED BY <1>1, <2>2, <3>2, <3>3, <3>4
  <2> QED BY <1>2, <2>1, <2>2
<1>5. Fed'
  BY <1>1, <1>2, <1>3, <1>4 DEF Fed
<1>6. UNCHANGED R!historyVars
  BY <1>1, <1>4 DEF R!historyVars
<1> QED BY <1>5, <1>6

\* A byte or a run of bytes is one the decoder is promised.
LEMMA AnyRun ==
  ASSUME NEW n \in 1..MaxChunk, NEW run \in Seq(Bytes), Len(run) = n
  PROVE  run \in R!Runs
<1>1. n \in 0..MaxChunk
  OBVIOUS
<1>2. run \in [1..n -> Bytes]
  BY LenProperties
<1> QED BY <1>1, <1>2 DEF R!Runs

\* What the sink does is what the decoder does with the bytes handed over.
LEMMA ReceivesMoves ==
  ASSUME IInv, Fed, Receives
  PROVE  Fed' /\ R!HistoryMoves
<1>1. /\ pc = "sink" /\ pc' = pc /\ emitted' = emitted /\ sinks' = sinks
  BY DEF Receives, tripVars, vars, streamVars, doingVars
<1>2. /\ emitted \in Seq(Bytes) /\ fed \in Nat /\ fed <= Len(emitted) /\ Len(emitted) \in Nat
      /\ sinks
  BY <1>1, LenProperties DEF Fed, IInv, Phases
<1>3. ASSUME NEW n \in 1..MaxChunk, n <= Len(emitted) - fed, Receiver!FeedBegins(n), Takes(0)
      PROVE  Fed' /\ R!HistoryMoves
  <2>1. R!FeedBegins(n) /\ r_status' = "Feeding"
    BY <1>3, SameBegins DEF R!FeedBegins
  <2>2. n \in 0..MaxChunk /\ r_calls' = <<>>
    BY <2>1 DEF R!FeedBegins
  <2>3. fed' = fed /\ heard' = heard
    BY <1>2, <1>3, <2>2, SameHears, R!HearsNothing, AnyInput DEF Takes
  <2>4. Fed'
    BY <1>1, <1>2, <2>1, <2>3 DEF Fed
  <2> QED BY <1>1, <2>1, <2>2, <2>3, <2>4 DEF R!HistoryMoves
<1>4. ASSUME Receiver!FeedReturns, Takes(0)
      PROVE  Fed' /\ R!HistoryMoves
  <2>1. R!FeedReturns
    BY <1>4, SameReturns
  <2>2. r_calls' = <<>> /\ r_status' \in {"Complete", "Incomplete"}
    BY <2>1 DEF R!FeedReturns
  <2>3. fed' = fed /\ heard' = heard
    BY <1>2, <1>4, <2>2, SameHears, R!HearsNothing, AnyInput DEF Takes
  <2>4. Fed'
    BY <1>1, <1>2, <2>2, <2>3 DEF Fed
  <2> QED BY <1>1, <2>1, <2>3, <2>4 DEF R!HistoryMoves
<1>5. ASSUME fed < Len(emitted), Receiver!step(emitted[fed + 1]), Takes(1)
      PROVE  Fed' /\ R!HistoryMoves
  <2>1. R!step(emitted[fed + 1])
    BY <1>5, SameReads
  <2>2. /\ fed + 1 \in Nat /\ fed + 1 <= Len(emitted) /\ fed \in 0..Len(emitted)
        /\ emitted[fed + 1] \in Bytes
        /\ SubSeq(emitted, 1, fed + 1) = Append(SubSeq(emitted, 1, fed), emitted[fed + 1])
    BY <1>2, <1>5, FeedGrows
  <2>3. r_status' # "New"
    BY <2>1, <2>2, R!TakenInFeed, AnyInput
  <2>4. fed' = fed + 1 /\ R!Hears
    BY <1>5, SameHears DEF Takes
  <2>5. Fed'
    BY <1>1, <1>2, <2>2, <2>3, <2>4 DEF Fed
  <2>6. SubSeq(emitted', 1, fed') = Append(SubSeq(emitted, 1, fed), emitted[fed + 1])
    BY <1>1, <2>2, <2>4
  <2> QED BY <2>1, <2>2, <2>4, <2>5, <2>6 DEF R!HistoryMoves
<1>6. ASSUME NEW n \in 1..MaxChunk, n <= Len(emitted) - fed,
             Receiver!RawRun(SubSeq(emitted, fed + 1, fed + n)), Takes(n)
      PROVE  Fed' /\ R!HistoryMoves
  <2>1. PICK run : run = SubSeq(emitted, fed + 1, fed + n)
    OBVIOUS
  <2>2. /\ fed + n \in Nat /\ fed + n <= Len(emitted) /\ fed \in 0..Len(emitted)
        /\ run \in Seq(Bytes) /\ Len(run) = n
        /\ SubSeq(emitted, 1, fed + n) = SubSeq(emitted, 1, fed) \o run
    BY <1>2, <1>6, <2>1, FeedGrows
  <2>3. run \in R!Runs /\ R!RawRun(run)
    BY <1>6, <2>1, <2>2, AnyRun, SameRun
  <2>4. r_status' # "New"
    BY <2>3, R!TakenInFeed, AnyInput
  <2>5. fed' = fed + n /\ R!Hears
    BY <1>6, SameHears DEF Takes
  <2>6. Fed'
    BY <1>1, <1>2, <2>2, <2>4, <2>5 DEF Fed
  <2>7. SubSeq(emitted', 1, fed') = SubSeq(emitted, 1, fed) \o run
    BY <1>1, <2>2, <2>5
  <2> QED BY <2>3, <2>5, <2>6, <2>7 DEF R!HistoryMoves
<1> QED BY <1>3, <1>4, <1>5, <1>6 DEF Receives

\* Either goes on, and what is known of the receiver stays so.
LEMMA LoopKept ==
  ASSUME IInv, IInv', Fed, Received, [LoopNext]_loopVars
  PROVE  Fed' /\ Received'
<1>1. Fed' /\ [R!HistoryMoves]_R!historyVars
  <2>1. CASE UNCHANGED loopVars
    <3>1. /\ emitted' = emitted /\ fed' = fed /\ heard' = heard /\ sinks' = sinks
          /\ r_status' = r_status /\ pc' = pc /\ UNCHANGED R!vars
      BY <2>1 DEF loopVars, tripVars, vars, streamVars, doingVars, receiver, R!vars, R!decoder
    <3> QED BY <3>1 DEF Fed, R!historyVars
  <2>2. CASE Writes
    BY <2>2, WritesReceived
  <2>3. CASE Receives
    BY <2>3, ReceivesMoves
  <2> QED BY <2>1, <2>2, <2>3 DEF LoopNext
<1>2. [R!Next]_R!vars
  BY <1>1, R!MovesAreSteps, AnyInput
<1>3. R!Inv'
  BY <1>2, R!NextInv, AnyInput DEF Received
<1>4. R!LowInv'
  BY <1>2, R!LowNext, AnyInput DEF Received
<1>5. R!HInv'
  BY <1>1, <1>3, <1>4, R!HistoryStep, AnyInput DEF Received
<1>6. R!Returned'
  BY <1>1, <1>3, R!ReturnedStep, AnyInput DEF Received
<1> QED BY <1>1, <1>3, <1>4, <1>5, <1>6 DEF Received

\* The loop starts in the invariants of its encoder and of its receiver.
LEMMA LoopStart == LoopInit => IInv /\ Fed /\ Received
<1> SUFFICES ASSUME LoopInit PROVE IInv /\ Fed /\ Received
  OBVIOUS
<1>1. IInv
  BY InitInv DEF LoopInit, TripInit
<1>2. R!Init /\ emitted = <<>> /\ fed = 0 /\ heard = <<>> /\ r_status = "New"
  BY SameStart DEF LoopInit, TripInit, Init, R!Init
<1>3. SubSeq(emitted, 1, fed) = <<>>
  BY <1>2, SubSeqEmpty
<1>4. R!HistoryInit
  BY <1>2, <1>3 DEF R!HistoryInit
<1>5. R!Inv /\ R!LowInv
  BY <1>2, R!InitInv, AnyInput, R!LowInvInit
<1>6. R!HInv /\ R!Returned
  BY <1>4, R!HistoryStart, AnyInput
<1>7. Fed
  BY <1>2 DEF Fed
<1> QED BY <1>1, <1>5, <1>6, <1>7 DEF Received

\* It stays in them.
LEMMA LoopInvariance == LoopSpec => [](IInv /\ Fed /\ Received)
<1>1. [LoopNext]_loopVars => [Next]_vars
  BY TripStepsAreSteps DEF LoopNext, Writes, Receives, loopVars, tripVars
<1>2. IInv /\ [LoopNext]_loopVars => IInv'
  BY <1>1, NextInv
<1>3. IInv /\ Fed /\ Received /\ [LoopNext]_loopVars => (IInv /\ Fed /\ Received)'
  BY <1>2, LoopKept
<1> QED BY <1>3, LoopStart, PTL DEF LoopSpec

\* The receiver's accumulator is clean whenever a value begins, whatever the
\* encoder writes and however its sink cuts it.
THEOREM ReceiverAlwaysClean == LoopSpec => []ReceiverClean
<1>1. Received => ReceiverClean
  <2>1. R!Inv /\ R!LowInv => R!CleanAccumulator
    BY DEF R!Inv, R!LowInv, R!CleanAccumulator
  <2> QED BY <2>1, SameClean DEF Received, ReceiverClean
<1> QED BY <1>1, LoopInvariance, PTL

-----------------------------------------------------------------------------
(* What is written can be read back *)

\* The events of N elements are a sequence.
LEMMA EventsAre ==
  ASSUME NEW N \in Nat, NEW e
  PROVE  IsSequence([i \in 1..N |-> e[i]])
<1>1. [i \in 1..N |-> e[i]] \in Seq({e[i] : i \in 1..N})
  OBVIOUS
<1> QED BY <1>1 DEF IsSequence

\* Two events are a sequence.
LEMMA EventTwo == ASSUME NEW x, NEW y PROVE IsSequence(<<x, y>>)
<1>1. <<x, y>> \in Seq({x, y})
  OBVIOUS
<1> QED BY <1>1 DEF IsSequence

\* The elements of an array: after the last a field header, after each other the next.
LEMMA ElementsAdd ==
  ASSUME NEW parts, Len(parts) \in Nat, \A i \in 1..Len(parts) : parts[i] \in Seq(Bytes),
         NEW nest, NEW item, NEW e,
         \A i \in 1..Len(parts) :
           /\ Adds(parts[i], nest, item[i], nest, Others(item[i]), <<e[i]>>)
           /\ Others(item[i]) = IF i = Len(parts) THEN AHeader ELSE item[i + 1]
  PROVE  Adds(Concatenated(parts), nest, IF Len(parts) = 0 THEN AHeader ELSE item[1],
              nest, AHeader, [i \in 1..Len(parts) |-> e[i]])
<1> DEFINE N == Len(parts)
           nests == [i \in 0..N |-> nest]
           a == [i \in 0..N |-> IF i = N THEN AHeader ELSE item[i + 1]]
<1>1. \A i \in 0..N : nests[i] = nest
  OBVIOUS
<1>2. \A i \in 0..N : a[i] = IF i = N THEN AHeader ELSE item[i + 1]
  OBVIOUS
<1> HIDE DEF nests, a
<1>3. \A i \in 1..N : Adds(parts[i], nests[i - 1], a[i - 1], nests[i], a[i], <<e[i]>>)
  <2> SUFFICES ASSUME NEW i \in 1..N
               PROVE  Adds(parts[i], nests[i - 1], a[i - 1], nests[i], a[i], <<e[i]>>)
    OBVIOUS
  <2>1. i - 1 \in 0..N /\ i \in 0..N /\ i - 1 # N /\ (i - 1) + 1 = i
    OBVIOUS
  <2>2. nests[i - 1] = nest /\ nests[i] = nest /\ a[i - 1] = item[i] /\ a[i] = Others(item[i])
    BY <1>1, <1>2, <2>1
  <2>3. Adds(parts[i], nest, item[i], nest, Others(item[i]), <<e[i]>>)
    OBVIOUS
  <2> QED BY <2>2, <2>3
<1>4. Adds(Concatenated(parts), nests[0], a[0], nests[N], a[N], [i \in 1..N |-> e[i]])
  BY <1>3, PartsAdd
<1>5. nests[0] = nest /\ nests[N] = nest /\ a[N] = AHeader
      /\ a[0] = IF N = 0 THEN AHeader ELSE item[1]
  <2>1. 0 \in 0..N /\ N \in 0..N /\ 0 + 1 = 1
    OBVIOUS
  <2> QED BY <1>1, <1>2, <2>1
<1> QED BY <1>4, <1>5

\* The elements of an integer array add one event each.
LEMMA IntegersAdd ==
  ASSUME NEW data, Len(data) \in Nat, NEW u, NEW nest, NEW f, NEW k, NEW fn, fn = IntegerCall(k),
         \A i \in 1..Len(data) :
           u[i] \in Unsigned /\ data[i] = IF k = "Signed" THEN zigzag_decode(u[i]) ELSE u[i]
  PROVE  Adds(Concatenated([i \in 1..Len(data) |-> VarintOf[u[i]]]), nest,
              IF Len(data) = 0 THEN AHeader ELSE Integers(f, k, Len(data)), nest, AHeader,
              [i \in 1..Len(data) |-> [fn |-> fn, id |-> f, value |-> data[i]]])
<1> DEFINE N == Len(data)
           parts == [i \in 1..N |-> VarintOf[u[i]]]
           item == [i \in 1..N |-> Integers(f, k, N - i + 1)]
           e == [i \in 1..N |-> [fn |-> fn, id |-> f, value |-> data[i]]]
<1>1. Len(parts) = N /\ \A i \in 1..N : parts[i] = VarintOf[u[i]]
  OBVIOUS
<1>2. \A i \in 1..N : item[i] = Integers(f, k, N - i + 1)
  OBVIOUS
<1>3. \A i \in 1..N : e[i] = [fn |-> fn, id |-> f, value |-> data[i]]
  OBVIOUS
<1>4. e = [i \in 1..N |-> e[i]]
  OBVIOUS
<1> HIDE DEF parts, item, e
<1>5. \A i \in 1..N : parts[i] \in Seq(Bytes)
  BY <1>1, VarintTyped
<1>6. ASSUME NEW i \in 1..N
      PROVE  /\ Adds(parts[i], nest, item[i], nest, Others(item[i]), <<e[i]>>)
             /\ Others(item[i]) = IF i = N THEN AHeader ELSE item[i + 1]
  <2>1. PICK v \in Unsigned : v = u[i]
    OBVIOUS
  <2>2. PICK left \in Nat : left = N - i + 1
    OBVIOUS
  <2>3. PICK x : x = Integers(f, k, left)
    OBVIOUS
  <2>4. Adds(VarintOf[v], nest, x, nest, Others(x),
             <<[fn |-> IntegerCall(k), id |-> f,
                value |-> IF k = "Signed" THEN zigzag_decode(v) ELSE v]>>)
    BY <2>3, IntegerAdds
  <2>5. parts[i] = VarintOf[v] /\ item[i] = x
    BY <1>1, <1>2, <2>1, <2>2, <2>3
  <2>6. e[i] = [fn |-> IntegerCall(k), id |-> f,
                value |-> IF k = "Signed" THEN zigzag_decode(v) ELSE v]
    BY <1>3, <2>1
  <2>7. Others(x) = IF i = N THEN AHeader ELSE item[i + 1]
    <3>1. CASE i = N
      BY <2>2, <2>3, <3>1 DEF Others, Integers
    <3>2. CASE i # N
      <4>1. i + 1 \in 1..N /\ left # 1 /\ N - (i + 1) + 1 = left - 1
        BY <2>2, <3>2
      <4>2. item[i + 1] = Integers(f, k, left - 1)
        BY <1>2, <4>1
      <4>3. Others(x) = Integers(f, k, left - 1)
        BY <2>3, <4>1 DEF Others, Integers
      <4> QED BY <3>2, <4>2, <4>3
    <3> QED BY <3>1, <3>2
  <2> QED BY <2>4, <2>5, <2>6, <2>7
<1>7. Adds(Concatenated(parts), nest, IF Len(parts) = 0 THEN AHeader ELSE item[1],
           nest, AHeader, [i \in 1..Len(parts) |-> e[i]])
  <2>1. Len(parts) \in Nat /\ \A i \in 1..Len(parts) : parts[i] \in Seq(Bytes)
    BY <1>1, <1>5
  <2>2. \A i \in 1..Len(parts) :
          /\ Adds(parts[i], nest, item[i], nest, Others(item[i]), <<e[i]>>)
          /\ Others(item[i]) = IF i = Len(parts) THEN AHeader ELSE item[i + 1]
    BY <1>1, <1>6
  <2> QED BY <2>1, <2>2, ElementsAdd, Zenon
<1>8. N # 0 => item[1] = Integers(f, k, N)
  BY <1>2
<1>9. Adds(Concatenated(parts), nest, IF N = 0 THEN AHeader ELSE Integers(f, k, N),
           nest, AHeader, e)
  BY <1>1, <1>4, <1>7, <1>8
<1> QED BY <1>9 DEF parts, e

\* So do the elements of an array of floats.
LEMMA FloatsAdd ==
  ASSUME NEW t \in {"Fp32", "Fp64"}, NEW data \in Seq(BitsOf(t)), NEW nest, NEW f
  PROVE  Adds(Concatenated(FloatParts(data, t)), nest,
              IF Len(data) = 0 THEN AHeader ELSE Floats(f, t, Len(data)), nest, AHeader,
              [i \in 1..Len(data) |-> [fn |-> FloatCall(t), id |-> f, value |-> data[i]]])
<1> DEFINE N == Len(data)
           parts == [i \in 1..N |-> LeBytes(data[i], Width(t))]
           item == [i \in 1..N |-> Floats(f, t, N - i + 1)]
           e == [i \in 1..N |-> [fn |-> FloatCall(t), id |-> f, value |-> data[i]]]
<1>0. N \in Nat /\ \A i \in 1..N : data[i] \in BitsOf(t)
  BY LenProperties, ElementOfSeq
<1>1. Len(parts) = N /\ \A i \in 1..N : parts[i] = LeBytes(data[i], Width(t))
  BY <1>0
<1>2. \A i \in 1..N : item[i] = Floats(f, t, N - i + 1)
  OBVIOUS
<1>3. \A i \in 1..N : e[i] = [fn |-> FloatCall(t), id |-> f, value |-> data[i]]
  OBVIOUS
<1>4. e = [i \in 1..N |-> e[i]]
  OBVIOUS
<1>x. parts = FloatParts(data, t)
  BY DEF FloatParts
<1> HIDE DEF parts, item, e
<1>5. \A i \in 1..N : parts[i] \in Seq(Bytes)
  BY <1>0, <1>1, LeBytesTyped
<1>6. ASSUME NEW i \in 1..N
      PROVE  /\ Adds(parts[i], nest, item[i], nest, Others(item[i]), <<e[i]>>)
             /\ Others(item[i]) = IF i = N THEN AHeader ELSE item[i + 1]
  <2>1. PICK v \in BitsOf(t) : v = data[i]
    BY <1>0
  <2>2. PICK left \in Nat : left = N - i + 1
    BY <1>0
  <2>3. PICK x : x = Floats(f, t, left)
    OBVIOUS
  <2>4. Adds(LeBytes(v, Width(t)), nest, x, nest, Others(x),
             <<[fn |-> FloatCall(t), id |-> f, value |-> v]>>)
    BY <2>3, FloatAdds
  <2>5. parts[i] = LeBytes(v, Width(t)) /\ item[i] = x
    BY <1>1, <1>2, <2>1, <2>2, <2>3
  <2>6. e[i] = [fn |-> FloatCall(t), id |-> f, value |-> v]
    BY <1>3, <2>1
  <2>7. Others(x) = IF i = N THEN AHeader ELSE item[i + 1]
    <3>1. CASE i = N
      BY <1>0, <2>2, <2>3, <3>1 DEF Others, Floats
    <3>2. CASE i # N
      <4>1. i + 1 \in 1..N /\ left # 1 /\ N - (i + 1) + 1 = left - 1
        BY <1>0, <2>2, <3>2
      <4>2. item[i + 1] = Floats(f, t, left - 1)
        BY <1>2, <4>1
      <4>3. Others(x) = Floats(f, t, left - 1)
        BY <2>3, <4>1 DEF Others, Floats
      <4> QED BY <3>2, <4>2, <4>3
    <3> QED BY <3>1, <3>2
  <2> QED BY <2>4, <2>5, <2>6, <2>7
<1>7. Adds(Concatenated(parts), nest, IF Len(parts) = 0 THEN AHeader ELSE item[1],
           nest, AHeader, [i \in 1..Len(parts) |-> e[i]])
  <2>1. Len(parts) \in Nat /\ \A i \in 1..Len(parts) : parts[i] \in Seq(Bytes)
    BY <1>0, <1>1, <1>5
  <2>2. \A i \in 1..Len(parts) :
          /\ Adds(parts[i], nest, item[i], nest, Others(item[i]), <<e[i]>>)
          /\ Others(item[i]) = IF i = Len(parts) THEN AHeader ELSE item[i + 1]
    BY <1>1, <1>6
  <2> QED BY <2>1, <2>2, ElementsAdd, Zenon
<1>8. N # 0 => item[1] = Floats(f, t, N)
  BY <1>0, <1>2
<1>9. Adds(Concatenated(parts), nest, IF N = 0 THEN AHeader ELSE Floats(f, t, N),
           nest, AHeader, e)
  BY <1>1, <1>4, <1>7, <1>8
<1> QED BY <1>9, <1>x DEF e

\* What each writer's field says, and what the reading awaits after its header.
LEMMA Saying ==
  ASSUME NEW field
  PROVE  LET data == field.data
         IN /\ field.writer = "write_unsigned" => Says(field) = <<Value("unsigned", field)>>
            /\ field.writer = "write_signed" => Says(field) = <<Value("signed", field)>>
            /\ field.writer = "write_fp32" =>
                 Says(field) = FixlenOf(field, "Fp32", Width("Fp32"), Value("fp32", field))
            /\ field.writer = "write_fp64" =>
                 Says(field) = FixlenOf(field, "Fp64", Width("Fp64"), Value("fp64", field))
            /\ field.writer = "write_str" => Says(field) = PayloadOf("string", "Str", field)
            /\ field.writer = "write_blob" => Says(field) = PayloadOf("blob", "Blob", field)
            /\ field.writer = "write_fixlen" /\ field.subtype = "Blob" =>
                 Says(field) = PayloadOf("blob", "Blob", field)
            /\ field.writer = "write_fixlen" /\ field.subtype # "Blob" =>
                 Says(field) = FixlenOf(field, field.subtype, Len(data),
                                        [fn |-> FloatCall(field.subtype), id |-> field.id,
                                         value |-> LittleEndian(data, ByteBits)])
            /\ field.writer = "write_array_unsigned" =>
                 Says(field) = ArrayOf("unsigned", "Unsigned", field)
            /\ field.writer = "write_array_signed" =>
                 Says(field) = ArrayOf("signed", "Signed", field)
            /\ field.writer = "write_array_fp32" => Says(field) = ArrayOf("fp32", "Fp32", field)
            /\ field.writer = "write_array_fp64" => Says(field) = ArrayOf("fp64", "Fp64", field)
BY DEF Says

\* What the header of a field leaves the reading in.
LEMMA OpenedBy ==
  ASSUME NEW field, IsField(field), NEW f
  PROVE  /\ field.writer = "write_unsigned" =>
              Opened(f, TypeOf(field)) = Integers(f, "Unsigned", 1)
         /\ field.writer = "write_signed" => Opened(f, TypeOf(field)) = Integers(f, "Signed", 1)
         /\ field.writer \in {"write_fp32", "write_fp64", "write_str", "write_blob", "write_fixlen"}
              => Opened(f, TypeOf(field)) = AWord(f) /\ "fixlen" \in Features
         /\ field.writer = "write_array_unsigned" =>
              /\ Opened(f, TypeOf(field)) = ACount(f, "Unsigned")
              /\ TypeOf(field) = T_VARINTARRAY_UNSIGNED
         /\ field.writer = "write_array_signed" =>
              /\ Opened(f, TypeOf(field)) = ACount(f, "Signed")
              /\ TypeOf(field) = T_VARINTARRAY_SIGNED
         /\ field.writer \in {"write_array_fp32", "write_array_fp64"} =>
              /\ Opened(f, TypeOf(field)) = ACount(f, "Fp32")
              /\ TypeOf(field) = T_FIXLENARRAY
BY DEF IsField, TypeOf, WireTypes, FixlenWriter, Opened, T_VARINT_UNSIGNED, T_VARINT_SIGNED,
   T_FIXLEN, T_VARINTARRAY_UNSIGNED, T_VARINTARRAY_SIGNED, T_FIXLENARRAY, T_SEQUENCE_START,
   T_SEQUENCE_END

\* The word of a float fits the value type.
LEMMA FloatWordFits ==
  ASSUME NEW t \in {"Fp32", "Fp64"}
  PROVE  Width(t) * 8 + 7 \in Unsigned /\ Width(t) <= ARRAY_MAX
<1>1. PICK m \in Nat : m = Width(t)
  BY FloatWidths
<1>2. m <= 2 * FloatBytes
  BY <1>1, WidthAssumption DEF Width
<1>3. PICK b \in Nat : b = FloatBytes
  BY WidthAssumption
<1>4. m * 8 + 7 \in Unsigned /\ m <= ARRAY_MAX
  BY <1>2, <1>3, ReadableAssumption, Widths, Ceilings DEF Unsigned
<1> QED BY <1>1, <1>4

\* A float alone, as a float or as its bytes.
LEMMA FloatFieldAdds ==
  ASSUME NEW t \in FixlenTypes \cap {"Fp32", "Fp64"}, NEW field, NEW nest,
         NEW w \in Seq(Bytes), Len(w) = Width(t)
  PROVE  Adds(Fixlen(w, t), nest, AWord(field.id), nest, AHeader,
              FixlenOf(field, t, Width(t), [fn |-> FloatCall(t), id |-> field.id,
                                            value |-> LittleEndian(w, ByteBits)]))
<1> DEFINE f == field.id
           z == FixlenWordOf(Width(t), t)
           begun == [fn |-> "fixlen_begin", id |-> f, subtype |-> t, total |-> Width(t)]
           e == [fn |-> FloatCall(t), id |-> f, value |-> LittleEndian(w, ByteBits)]
<1>1. Width(t) \in Nat \ {0}
  BY FloatWidths
<1>2. z \in Seq(Bytes)
  BY <1>1, WordTyped DEF FixlenCode
<1>3. Width(t) * 8 + 7 \in Unsigned /\ Width(t) <= ARRAY_MAX
  BY FloatWordFits
<1>4. Adds(z, nest, AWord(f), nest, Floats(f, t, 1), <<begun>>)
  BY <1>1, <1>3, WordAdds
<1>5. Others(Floats(f, t, 1)) = AHeader
  BY DEF Others, Floats
<1>6. Adds(w, nest, Floats(f, t, 1), nest, AHeader, <<e>>)
  BY <1>5, FloatBytesAdd
<1>7. Fixlen(w, t) = z \o w /\ FixlenOf(field, t, Width(t), e) = <<begun, e>>
  BY DEF FixlenOf, Fixlen
<1> HIDE DEF z, begun, e
<1>8. IsSequence(<<begun>>) /\ IsSequence(<<e>>) /\ <<begun>> \o <<e>> = <<begun, e>>
  <2>1. IsSequence(<<>>)
    BY EmptySeq DEF IsSequence
  <2> QED BY <2>1, EventOne, OneAndOne
<1>9. Adds(z \o w, nest, AWord(f), nest, AHeader, <<begun>> \o <<e>>)
  BY <1>2, <1>4, <1>6, <1>8, AddsThen
<1>10. Adds(Fixlen(w, t), nest, AWord(f), nest, AHeader, FixlenOf(field, t, Width(t), e))
  BY <1>7, <1>8, <1>9
<1> QED BY <1>10 DEF e

\* The word and the bytes of a float given as a float add it.
LEMMA BitsFieldAdds ==
  ASSUME NEW t \in FixlenTypes \cap {"Fp32", "Fp64"}, NEW field, NEW nest,
         field.data \in BitsOf(t)
  PROVE  Adds(Fixlen(LeBytes(field.data, Width(t)), t), nest, AWord(field.id), nest, AHeader,
              FixlenOf(field, t, Width(t), Value(FloatCall(t), field)))
<1>1. PICK bits \in BitsOf(t) : bits = field.data
  OBVIOUS
<1>2. PICK w : w = LeBytes(bits, Width(t))
  OBVIOUS
<1>3. w \in Seq(Bytes) /\ Len(w) = Width(t) /\ LittleEndian(w, ByteBits) = bits
  BY <1>2, LeBytesTyped, FloatWorth
<1>4. Value(FloatCall(t), field) = [fn |-> FloatCall(t), id |-> field.id,
                                    value |-> LittleEndian(w, ByteBits)]
  BY <1>1, <1>3 DEF Value
<1> QED BY <1>1, <1>2, <1>3, <1>4, FloatFieldAdds

\* The bytes of a string or of a blob, none included.
LEMMA PayloadFieldAdds ==
  ASSUME NEW t \in FixlenTypes \cap {"Str", "Blob"}, NEW field, field.data \in Seq(Bytes),
         Len(field.data) <= ARRAY_MAX, Len(field.data) * 8 + 7 \in Unsigned, NEW nest
  PROVE  Adds(Fixlen(field.data, t), nest, AWord(field.id), nest, AHeader,
              PayloadOf(BytesCall(t), t, field))
<1> DEFINE f == field.id
           w == field.data
           n == Len(w)
           z == FixlenWordOf(n, t)
           begun == [fn |-> "fixlen_begin", id |-> f, subtype |-> t, total |-> n]
           e == PayloadEvent(APayload(f, t, n), w)
<1>1. n \in Nat /\ Width(t) = 0
  BY LenProperties DEF Width
<1>2. z \in Seq(Bytes)
  BY <1>1, WordTyped DEF FixlenCode
<1>3. PayloadOf(BytesCall(t), t, field) = <<begun, e>> /\ Fixlen(w, t) = z \o w
  BY DEF PayloadOf, FixlenOf, PayloadEvent, APayload, Fixlen
<1>4. CASE w = <<>>
  <2>1. n = 0
    BY <1>4, EmptySeq
  <2>2. Adds(z, nest, AWord(f), nest, AHeader,
             <<[fn |-> "fixlen_begin", id |-> f, subtype |-> t, total |-> n],
               PayloadEvent(APayload(f, t, 0), <<>>)>>)
    BY <1>1, <2>1, WordAdds
  <2>3. z \o w = z
    BY <1>2, <1>4, ConcatEmptySeq
  <2> QED BY <1>3, <1>4, <2>1, <2>2, <2>3
<1>5. CASE w # <<>>
  <2>1. n # 0
    BY <1>5, EmptySeq
  <2>2. Adds(z, nest, AWord(f), nest, APayload(f, t, n), <<begun>>)
    BY <1>1, <2>1, WordAdds
  <2>3. Adds(w, nest, APayload(f, t, n), nest, AHeader, <<e>>)
    BY <1>5, PayloadAdds
  <2>4. IsSequence(<<begun>>) /\ IsSequence(<<e>>) /\ <<begun>> \o <<e>> = <<begun, e>>
    <3> HIDE DEF begun, e
    <3>1. IsSequence(<<>>)
      BY EmptySeq DEF IsSequence
    <3> QED BY <3>1, EventOne, OneAndOne
  <2> HIDE DEF w, z, n, begun, e
  <2>5. Adds(z \o w, nest, AWord(f), nest, AHeader, <<begun>> \o <<e>>)
    <3>1. w \in Seq(Bytes)
      BY DEF w
    <3> QED BY <1>2, <2>2, <2>3, <2>4, <3>1, AddsThen
  <2>6. Adds(Fixlen(w, t), nest, AWord(f), nest, AHeader, PayloadOf(BytesCall(t), t, field))
    BY <1>3, <2>4, <2>5
  <2> QED BY <2>6 DEF w
<1> QED BY <1>4, <1>5

\* An array of integers, as the count and its elements.
LEMMA IntegerArrayAdds ==
  ASSUME NEW field, Len(field.data) \in Unsigned, Len(field.data) <= ARRAY_MAX, NEW u,
         NEW k \in {"Unsigned", "Signed"},
         \A i \in 1..Len(field.data) :
           /\ u[i] \in Unsigned
           /\ field.data[i] = IF k = "Signed" THEN zigzag_decode(u[i]) ELSE u[i],
         NEW nest
  PROVE  Adds(CountOf(field.data) \o Concatenated([i \in 1..Len(field.data) |-> VarintOf[u[i]]]),
              nest, ACount(field.id, k), nest, AHeader, ArrayOf(IntegerCall(k), k, field))
<1> DEFINE f == field.id
           data == field.data
           n == Len(data)
           c == CountOf(data)
           parts == [i \in 1..n |-> VarintOf[u[i]]]
           w == Concatenated(parts)
           begun == [fn |-> "array_begin", id |-> f, kind |-> k, count |-> n]
           es == [i \in 1..n |-> [fn |-> IntegerCall(k), id |-> f, value |-> data[i]]]
           a == IF n = 0 THEN AHeader ELSE Integers(f, k, n)
<1>1. n \in Nat
  <2>1. 2^ValueBits \in Nat
    BY Widths
  <2> QED BY <2>1 DEF Unsigned
<1>2. c \in Seq(Bytes)
  BY <1>1, CountTyped
<1>3. w \in Seq(Bytes)
  <2>1. Len(parts) = n /\ \A i \in 1..n : parts[i] = VarintOf[u[i]]
    BY <1>1
  <2> HIDE DEF parts
  <2>2. \A i \in 1..n : parts[i] \in Seq(Bytes)
    BY <2>1, VarintTyped
  <2> QED BY <1>1, <2>1, <2>2, ConcatenatedTyped
<1>4. Adds(c, nest, ACount(f, k), nest, a, <<begun>>)
  BY CountAdds
<1>5. Adds(w, nest, a, nest, AHeader, es)
  BY <1>1, IntegersAdd
<1>6. ArrayOf(IntegerCall(k), k, field) = <<begun>> \o es
  BY DEF ArrayOf
<1>7. IsSequence(<<begun>>)
  <2> HIDE DEF begun
  <2>1. IsSequence(<<>>)
    BY EmptySeq DEF IsSequence
  <2> QED BY <2>1, EventOne
<1>8. IsSequence(es)
  <2> DEFINE e == [i \in 1..n |-> [fn |-> IntegerCall(k), id |-> f, value |-> data[i]]]
  <2>1. e = [i \in 1..n |-> e[i]]
    OBVIOUS
  <2> HIDE DEF e
  <2>2. IsSequence([i \in 1..n |-> e[i]])
    BY <1>1, EventsAre
  <2> QED BY <2>1, <2>2 DEF e
<1> HIDE DEF c, w, begun, es, a
<1>9. Adds(c \o w, nest, ACount(f, k), nest, AHeader, <<begun>> \o es)
  BY <1>2, <1>3, <1>4, <1>5, <1>7, <1>8, AddsThen
<1> QED BY <1>6, <1>9 DEF c, w

\* An array of floats has a word between the count and the elements.
LEMMA FloatArrayAdds ==
  ASSUME NEW t \in FixlenTypes \cap {"Fp32", "Fp64"}, NEW field, field.data \in Seq(BitsOf(t)),
         Len(field.data) \in Unsigned, Len(field.data) <= ARRAY_MAX, NEW nest
  PROVE  Adds(FloatArray(field.data, t), nest, ACount(field.id, "Fp32"), nest, AHeader,
              ArrayOf(FloatCall(t), t, field))
<1> DEFINE f == field.id
           data == field.data
           n == Len(data)
           c == CountOf(data)
           z == FixlenWordOf(Width(t), t)
           w == Concatenated(FloatParts(data, t))
           begun == [fn |-> "array_begin", id |-> f, kind |-> t, count |-> n]
           es == [i \in 1..n |-> [fn |-> FloatCall(t), id |-> f, value |-> data[i]]]
           a == IF n = 0 THEN AHeader ELSE Floats(f, t, n)
<1>1. n \in Nat
  BY LenProperties
<1>2. c \in Seq(Bytes) /\ z \in Seq(Bytes) /\ w \in Seq(Bytes)
  <2>1. Width(t) \in Nat
    BY FloatWidths
  <2>2. z \in Seq(Bytes)
    BY <2>1, WordTyped DEF FixlenCode
  <2> QED BY <1>1, <2>2, CountTyped, PartsTyped
<1>3. Adds(c, nest, ACount(f, "Fp32"), nest, AnArrayWord(f, n), <<>>)
  BY CountAdds
<1>4. Adds(z, nest, AnArrayWord(f, n), nest, a, <<begun>>)
  BY FloatWordFits, ArrayWordAdds
<1>5. Adds(w, nest, a, nest, AHeader, es)
  BY FloatsAdd
<1>6. ArrayOf(FloatCall(t), t, field) = <<begun>> \o es
      /\ FloatArray(data, t) = (c \o z) \o w
  BY FloatArrayIs DEF ArrayOf
<1>7. IsSequence(<<begun>>) /\ IsSequence(<<>>)
  <2> HIDE DEF begun
  <2>1. IsSequence(<<>>)
    BY EmptySeq DEF IsSequence
  <2> QED BY <2>1, EventOne
<1>8. IsSequence(es)
  <2> DEFINE e == [i \in 1..n |-> [fn |-> FloatCall(t), id |-> f, value |-> data[i]]]
  <2>1. e = [i \in 1..n |-> e[i]]
    OBVIOUS
  <2> HIDE DEF e
  <2>2. IsSequence([i \in 1..n |-> e[i]])
    BY <1>1, EventsAre
  <2> QED BY <2>1, <2>2 DEF e
<1> HIDE DEF c, z, w, begun, es, a
<1>9. Adds(c \o z, nest, ACount(f, "Fp32"), nest, a, <<begun>>)
  <2>1. Adds(c \o z, nest, ACount(f, "Fp32"), nest, a, <<>> \o <<begun>>)
    BY <1>2, <1>3, <1>4, <1>7, AddsThen
  <2>2. <<>> \o <<begun>> = <<begun>>
    BY <1>7, EventsJoin
  <2> QED BY <2>1, <2>2
<1>10. c \o z \in Seq(Bytes)
  BY <1>2, ConcatProperties
<1>11. Adds((c \o z) \o w, nest, ACount(f, "Fp32"), nest, AHeader, <<begun>> \o es)
  BY <1>2, <1>5, <1>7, <1>8, <1>9, <1>10, AddsThen
<1> QED BY <1>6, <1>11

\* Whatever follows the header of a readable field adds what the field says.
LEMMA BodyAdds ==
  ASSUME NEW field, IsField(field), Readable(field), NEW nest
  PROVE  Adds(Body(field), nest, Opened(field.id, TypeOf(field)), nest, AHeader, Says(field))
<1> DEFINE f == field.id
           data == field.data
<1>1. CASE field.writer = "write_unsigned"
  <2>1. data \in Unsigned
    BY <1>1 DEF IsField
  <2>2. Adds(VarintOf[data], nest, Integers(f, "Unsigned", 1), nest,
             Others(Integers(f, "Unsigned", 1)),
             <<[fn |-> IntegerCall("Unsigned"), id |-> f,
                value |-> IF "Unsigned" = "Signed" THEN zigzag_decode(data) ELSE data]>>)
    BY <2>1, IntegerAdds
  <2>3. Others(Integers(f, "Unsigned", 1)) = AHeader
    BY DEF Others, Integers
  <2>4. Says(field) = <<[fn |-> "unsigned", id |-> f, value |-> data]>>
    BY <1>1, Saying DEF Value
  <2> QED BY <1>1, <2>2, <2>3, <2>4, Bodies, OpenedBy DEF IntegerCall
<1>2. CASE field.writer = "write_signed"
  <2>1. data \in Signed
    BY <1>2 DEF IsField
  <2>2. PICK v \in Unsigned : v = zigzag_encode(data) /\ zigzag_decode(v) = data
    BY <2>1, ZigZagRoundTrip
  <2>3. Adds(VarintOf[v], nest, Integers(f, "Signed", 1), nest,
             Others(Integers(f, "Signed", 1)),
             <<[fn |-> IntegerCall("Signed"), id |-> f,
                value |-> IF "Signed" = "Signed" THEN zigzag_decode(v) ELSE v]>>)
    BY IntegerAdds
  <2>4. Others(Integers(f, "Signed", 1)) = AHeader
    BY DEF Others, Integers
  <2>5. Says(field) = <<[fn |-> "signed", id |-> f, value |-> data]>>
    BY <1>2, Saying DEF Value
  <2>6. Body(field) = VarintOf[v]
    BY <1>2, <2>2, Bodies
  <2> QED BY <1>2, <2>2, <2>3, <2>4, <2>5, <2>6, OpenedBy DEF IntegerCall
<1>3. CASE field.writer = "write_fp32"
  <2>1. data \in BitsOf("Fp32")
    BY <1>3 DEF IsField
  <2>2. "Fp32" \in FixlenTypes \cap {"Fp32", "Fp64"}
    BY DEF FixlenTypes
  <2>3. Adds(Fixlen(LeBytes(data, Width("Fp32")), "Fp32"), nest, AWord(f), nest, AHeader,
             FixlenOf(field, "Fp32", Width("Fp32"), Value(FloatCall("Fp32"), field)))
    BY <2>1, <2>2, BitsFieldAdds
  <2>4. FloatCall("Fp32") = "fp32"
    BY DEF FloatCall
  <2> QED BY <1>3, <2>3, <2>4, Bodies, OpenedBy, Saying
<1>4. CASE field.writer = "write_fp64"
  <2>1. data \in BitsOf("Fp64") /\ "fp64" \in Features
    BY <1>4 DEF IsField
  <2>2. "Fp64" \in FixlenTypes \cap {"Fp32", "Fp64"}
    BY <2>1 DEF FixlenTypes
  <2>3. Adds(Fixlen(LeBytes(data, Width("Fp64")), "Fp64"), nest, AWord(f), nest, AHeader,
             FixlenOf(field, "Fp64", Width("Fp64"), Value(FloatCall("Fp64"), field)))
    BY <2>1, <2>2, BitsFieldAdds
  <2>4. FloatCall("Fp64") = "fp64"
    BY DEF FloatCall
  <2> QED BY <1>4, <2>3, <2>4, Bodies, OpenedBy, Saying
<1>5. CASE field.writer \in {"write_str", "write_blob", "write_fixlen"}
  <2>1. data \in Seq(Bytes) /\ Len(data) <= ARRAY_MAX /\ Len(data) * 8 + 7 \in Unsigned
    BY <1>5 DEF IsField, Readable
  <2>2. "Str" \in FixlenTypes \cap {"Str", "Blob"} /\ "Blob" \in FixlenTypes \cap {"Str", "Blob"}
    BY DEF FixlenTypes
  <2>3. \A t \in {"Str", "Blob"} :
          Adds(Fixlen(data, t), nest, AWord(f), nest, AHeader, PayloadOf(BytesCall(t), t, field))
    BY <2>1, <2>2, PayloadFieldAdds
  <2>4. BytesCall("Str") = "string" /\ BytesCall("Blob") = "blob"
    BY DEF BytesCall
  <2>5. Opened(f, TypeOf(field)) = AWord(f)
    BY <1>5, OpenedBy
  <2>6. CASE field.writer = "write_str"
    BY <2>3, <2>4, <2>5, <2>6, Bodies, Saying
  <2>7. CASE field.writer = "write_blob"
    BY <2>3, <2>4, <2>5, <2>7, Bodies, Saying
  <2>8. CASE field.writer = "write_fixlen" /\ field.subtype = "Blob"
    BY <2>3, <2>4, <2>5, <2>8, Bodies, Saying
  <2>9. CASE field.writer = "write_fixlen" /\ field.subtype # "Blob"
    <3>1. PICK t \in FixlenTypes \cap {"Fp32", "Fp64"} : t = field.subtype
      BY <2>9 DEF IsField, FixlenTypes
    <3>2. Width(t) = Len(data)
      BY <2>9, <3>1, FloatWidths DEF Readable
    <3>3. PICK w \in Seq(Bytes) : w = data
      BY <2>1
    <3>4. Adds(Fixlen(w, t), nest, AWord(f), nest, AHeader,
               FixlenOf(field, t, Width(t), [fn |-> FloatCall(t), id |-> f,
                                             value |-> LittleEndian(w, ByteBits)]))
      BY <3>2, <3>3, FloatFieldAdds
    <3> QED BY <2>5, <2>9, <3>1, <3>2, <3>3, <3>4, Bodies, Saying
  <2> QED BY <1>5, <2>6, <2>7, <2>8, <2>9
<1>6. ASSUME TypeOf(field) \in {T_VARINTARRAY_UNSIGNED, T_VARINTARRAY_SIGNED, T_FIXLENARRAY}
      PROVE  Len(data) \in Unsigned /\ Len(data) <= ARRAY_MAX
  BY <1>6 DEF Readable
<1>7. CASE field.writer = "write_array_unsigned"
  <2>1. data \in Seq(Unsigned)
    BY <1>7 DEF IsField
  <2>2. \A i \in 1..Len(data) :
          /\ data[i] \in Unsigned
          /\ data[i] = IF "Unsigned" = "Signed" THEN zigzag_decode(data[i]) ELSE data[i]
    BY <2>1, ElementOfSeq
  <2>3. Len(data) \in Unsigned /\ Len(data) <= ARRAY_MAX
    BY <1>6, <1>7, OpenedBy
  <2>4. Adds(CountOf(data) \o Concatenated([i \in 1..Len(data) |-> VarintOf[data[i]]]),
             nest, ACount(f, "Unsigned"), nest, AHeader,
             ArrayOf(IntegerCall("Unsigned"), "Unsigned", field))
    BY <2>2, <2>3, IntegerArrayAdds
  <2>5. IntegerCall("Unsigned") = "unsigned"
    BY DEF IntegerCall
  <2>6. Body(field) = CountOf(data) \o Concatenated([i \in 1..Len(data) |-> VarintOf[data[i]]])
    BY <1>7, Bodies DEF Varints
  <2> QED BY <1>7, <2>4, <2>5, <2>6, OpenedBy, Saying
<1>8. CASE field.writer = "write_array_signed"
  <2> DEFINE u == [i \in 1..Len(data) |-> zigzag_encode(data[i])]
  <2>1. data \in Seq(Signed)
    BY <1>8 DEF IsField
  <2>2. \A i \in 1..Len(data) : u[i] = zigzag_encode(data[i])
    OBVIOUS
  <2>3. Concatenated([i \in 1..Len(data) |-> VarintOf[u[i]]]) = Concatenated(ZigZags(data))
    <3>1. [i \in 1..Len(data) |-> VarintOf[u[i]]] = ZigZags(data)
      BY DEF ZigZags
    <3> QED BY <3>1, Zenon
  <2> HIDE DEF u
  <2>4. \A i \in 1..Len(data) :
          /\ u[i] \in Unsigned
          /\ data[i] = IF "Signed" = "Signed" THEN zigzag_decode(u[i]) ELSE u[i]
    BY <2>1, <2>2, ElementOfSeq, ZigZagRoundTrip
  <2>5. Len(data) \in Unsigned /\ Len(data) <= ARRAY_MAX
    BY <1>6, <1>8, OpenedBy
  <2>6. Adds(CountOf(data) \o Concatenated([i \in 1..Len(data) |-> VarintOf[u[i]]]),
             nest, ACount(f, "Signed"), nest, AHeader,
             ArrayOf(IntegerCall("Signed"), "Signed", field))
    BY <2>4, <2>5, IntegerArrayAdds
  <2>7. IntegerCall("Signed") = "signed"
    BY DEF IntegerCall
  <2>8. Body(field) = CountOf(data) \o Concatenated([i \in 1..Len(data) |-> VarintOf[u[i]]])
    BY <1>8, <2>3, Bodies
  <2> QED BY <1>8, <2>6, <2>7, <2>8, OpenedBy, Saying
<1>9. CASE field.writer = "write_array_fp32"
  <2>1. data \in Seq(BitsOf("Fp32")) /\ "Fp32" \in FixlenTypes \cap {"Fp32", "Fp64"}
    BY <1>9 DEF IsField, FixlenTypes
  <2>2. Len(data) \in Unsigned /\ Len(data) <= ARRAY_MAX
    BY <1>6, <1>9, OpenedBy
  <2>3. Adds(FloatArray(data, "Fp32"), nest, ACount(f, "Fp32"), nest, AHeader,
             ArrayOf(FloatCall("Fp32"), "Fp32", field))
    BY <2>1, <2>2, FloatArrayAdds
  <2>4. FloatCall("Fp32") = "fp32"
    BY DEF FloatCall
  <2> QED BY <1>9, <2>3, <2>4, Bodies, OpenedBy, Saying
<1>10. CASE field.writer = "write_array_fp64"
  <2>1. data \in Seq(BitsOf("Fp64")) /\ "Fp64" \in FixlenTypes \cap {"Fp32", "Fp64"}
    BY <1>10 DEF IsField, FixlenTypes
  <2>2. Len(data) \in Unsigned /\ Len(data) <= ARRAY_MAX
    BY <1>6, <1>10, OpenedBy
  <2>3. Adds(FloatArray(data, "Fp64"), nest, ACount(f, "Fp32"), nest, AHeader,
             ArrayOf(FloatCall("Fp64"), "Fp64", field))
    BY <2>1, <2>2, FloatArrayAdds
  <2>4. FloatCall("Fp64") = "fp64"
    BY DEF FloatCall
  <2> QED BY <1>10, <2>3, <2>4, Bodies, OpenedBy, Saying
<1> QED BY <1>1, <1>2, <1>3, <1>4, <1>5, <1>7, <1>8, <1>9, <1>10 DEF IsField

\* What a field says is a sequence of events.
LEMMA SaidAre ==
  ASSUME NEW field, IsField(field), Readable(field)
  PROVE  IsSequence(Says(field))
<1> DEFINE data == field.data
<1>1. \A x : IsSequence(<<x>>)
  <2>1. IsSequence(<<>>)
    BY EmptySeq DEF IsSequence
  <2> QED BY <2>1, EventOne
<1>2. \A subtype, total, event : IsSequence(FixlenOf(field, subtype, total, event))
  BY EventTwo DEF FixlenOf
<1>3. \A fn, subtype : IsSequence(PayloadOf(fn, subtype, field))
  BY <1>2 DEF PayloadOf
<1>4. ASSUME NEW fn, NEW kind, Len(data) \in Nat
      PROVE  IsSequence(ArrayOf(fn, kind, field))
  <2> DEFINE e == [i \in 1..Len(data) |-> [fn |-> fn, id |-> field.id, value |-> data[i]]]
             b == <<[fn |-> "array_begin", id |-> field.id, kind |-> kind, count |-> Len(data)]>>
  <2>1. e = [i \in 1..Len(data) |-> e[i]] /\ ArrayOf(fn, kind, field) = b \o e
    BY DEF ArrayOf
  <2>2. IsSequence(b)
    BY <1>1
  <2> HIDE DEF e, b
  <2>3. IsSequence([i \in 1..Len(data) |-> e[i]])
    BY <1>4, EventsAre
  <2> QED BY <2>1, <2>2, <2>3, EventsJoin
<1>5. field.writer \in {"write_array_unsigned", "write_array_signed", "write_array_fp32",
                        "write_array_fp64"} => Len(data) \in Nat
  BY LenProperties DEF IsField
<1>7. field.writer \in {"write_array_unsigned", "write_array_signed", "write_array_fp32",
                        "write_array_fp64"} => IsSequence(Says(field))
  BY <1>4, <1>5, Saying
<1>8. field.writer \in {"write_unsigned", "write_signed", "write_fp32", "write_fp64", "write_str",
                        "write_blob", "write_fixlen"} => IsSequence(Says(field))
  BY <1>1, <1>2, <1>3, Saying
<1> QED BY <1>7, <1>8 DEF IsField

\* The bytes of a field, read after a field header is awaited, are what it says.
LEMMA FieldAdds ==
  ASSUME NEW field, IsField(field), Readable(field), field.id \in Ids, NEW nest
  PROVE  /\ Adds(FieldBytes(field), nest, AHeader, nest, AHeader, Says(field))
         /\ IsSequence(Says(field))
<1>1. PICK t : t = TypeOf(field)
  OBVIOUS
<1>2. PICK h : h = Header(field.id, t)
  OBVIOUS
<1>3. PICK b : b = Body(field)
  OBVIOUS
<1>4. PICK e : e = Says(field)
  OBVIOUS
<1>5. t \in 0..5 /\ t \in WireTypes /\ FieldBytes(field) = h \o b
  BY <1>1, <1>2, <1>3, FieldTyped DEF FieldBytes
<1>6. h \in Seq(Bytes)
  <2>1. field.id \in Ids \cup {0} /\ t \in 0..7
    BY <1>5
  <2> QED BY <1>2, <2>1, HeaderTyped
<1>7. b \in Seq(Bytes)
  BY <1>3, BodyTyped
<1>8. IsSequence(e) /\ IsSequence(<<>>)
  BY <1>4, SaidAre, EmptySeq DEF IsSequence
<1>9. Adds(h, nest, AHeader, nest, Opened(field.id, t), <<>>)
  <2>1. field.id \in Ids \cup {0} /\ t \in WireTypes \cap (0..5)
    BY <1>5
  <2> QED BY <1>2, <2>1, HeaderAdds
<1>10. Adds(b, nest, Opened(field.id, t), nest, AHeader, e)
  BY <1>1, <1>3, <1>4, BodyAdds
<1>11. Adds(h \o b, nest, AHeader, nest, AHeader, <<>> \o e)
  BY <1>6, <1>7, <1>8, <1>9, <1>10, AddsThen
<1>12. <<>> \o e = e
  BY <1>8, EventsJoin
<1> QED BY <1>4, <1>5, <1>8, <1>11, <1>12

\* The headers of a run begin their sequences, one inside the other.
LEMMA RunAdds ==
  ASSUME NEW ids \in Seq(Ids), ids # <<>> => "sequence" \in Features,
         NEW nest \in Nat, nest + Len(ids) <= MaxDepth
  PROVE  /\ Adds(Owing(ids), nest, AHeader, nest + Len(ids), AHeader,
                 [i \in 1..Len(ids) |-> Begin(ids[i])])
         /\ IsSequence([i \in 1..Len(ids) |-> Begin(ids[i])])
<1> DEFINE N == Len(ids)
           parts == Openings(ids)
           nests == [i \in 0..N |-> nest + i]
           a == [i \in 0..N |-> AHeader]
           e == [i \in 1..N |-> Begin(ids[i])]
<1>0. N \in Nat /\ (N # 0 => "sequence" \in Features) /\ MaxDepth \in Nat
      /\ \A i \in 1..N : ids[i] \in Ids
  BY LenProperties, EmptySeq, ElementOfSeq, WidthAssumption
<1>1. Len(parts) = N /\ \A i \in 1..N : parts[i] = Header(ids[i], T_SEQUENCE_START)
  BY <1>0 DEF Openings, Opening
<1>2. \A i \in 0..N : nests[i] = nest + i /\ a[i] = AHeader
  OBVIOUS
<1>3. \A i \in 1..N : e[i] = [fn |-> "sequence_begin", id |-> ids[i]]
  BY DEF Begin
<1>4. e = [i \in 1..N |-> e[i]]
  OBVIOUS
<1>5. Owing(ids) = Concatenated(parts)
  BY DEF Owing, Each, Openings, Opening
<1> HIDE DEF parts, nests, a, e
<1>6. \A i \in 1..N : parts[i] \in Seq(Bytes)
  <2> SUFFICES ASSUME NEW i \in 1..N PROVE parts[i] \in Seq(Bytes)
    OBVIOUS
  <2>1. PICK id \in Ids \cup {0} : id = ids[i]
    BY <1>0
  <2>2. Header(id, T_SEQUENCE_START) \in Seq(Bytes)
    BY HeaderTyped DEF T_SEQUENCE_START
  <2> QED BY <1>1, <2>1, <2>2
<1>7. ASSUME NEW i \in 1..N
      PROVE  Adds(parts[i], nests[i - 1], a[i - 1], nests[i], a[i], <<e[i]>>)
  <2>1. PICK m \in Nat : m = nest + (i - 1)
    BY <1>0
  <2>2. m # MaxDepth /\ nests[i - 1] = m /\ nests[i] = m + 1 /\ a[i - 1] = AHeader
        /\ a[i] = AHeader
    <3>1. i - 1 \in 0..N /\ i \in 0..N /\ nest + i = m + 1
      BY <1>0, <2>1
    <3>2. m # MaxDepth
      BY <1>0, <2>1
    <3> QED BY <1>2, <2>1, <3>1, <3>2
  <2>3. PICK id \in Ids \cup {0} : id = ids[i]
    BY <1>0
  <2>4. "sequence" \in Features
    BY <1>0
  <2>5. Adds(Header(id, T_SEQUENCE_START), m, AHeader, m + 1, AHeader,
             <<[fn |-> "sequence_begin", id |-> id]>>)
    BY <2>2, <2>4, HeaderAdds
  <2> QED BY <1>1, <1>3, <2>2, <2>3, <2>5
<1>8. Adds(Concatenated(parts), nests[0], a[0], nests[N], a[N], [i \in 1..N |-> e[i]])
  <2>1. Len(parts) \in Nat /\ \A i \in 1..Len(parts) : parts[i] \in Seq(Bytes)
    BY <1>0, <1>1, <1>6
  <2>2. \A i \in 1..Len(parts) :
          Adds(parts[i], nests[i - 1], a[i - 1], nests[i], a[i], <<e[i]>>)
    BY <1>1, <1>7
  <2>3. Adds(Concatenated(parts), nests[0], a[0], nests[Len(parts)], a[Len(parts)],
             [i \in 1..Len(parts) |-> e[i]])
    BY <2>1, <2>2, PartsAdd, Zenon
  <2> QED BY <1>1, <2>3
<1>9. nests[0] = nest /\ nests[N] = nest + N /\ a[0] = AHeader /\ a[N] = AHeader
  BY <1>0, <1>2
<1>10. IsSequence([i \in 1..N |-> e[i]])
  BY <1>0, EventsAre
<1>11. Adds(Owing(ids), nest, AHeader, nest + N, AHeader, e) /\ IsSequence(e)
  BY <1>4, <1>5, <1>8, <1>9, <1>10
<1> QED BY <1>11 DEF e

-----------------------------------------------------------------------------
(* What the caller has said is in the bytes *)

\* The bytes so far, and those the write in progress still has to put out.
Coming == IF Busy THEN Stream \o Rest ELSE Stream

\* The sequences that are framed once they are out.
Framing == IF Busy THEN depth + call.gain ELSE depth - Len(pending)

\* Read from the start, whatever follows, s is a whole number of fields: it leaves
\* `nest` sequences open and has the events.
ReadsAs(s, nest, events) ==
  \E n \in 0..Len(s) : ReadingIs(s, n, At(Len(s) + 1, nest, AHeader, events))

\* The inductive invariant: unless the buffer ran out, what comes is what was said.
SaidInv ==
  /\ IsSequence(said)
  /\ result # "BufferFull" => ReadsAs(Coming, Framing, said)
  /\ depth > 0 \/ (Busy /\ call.gain # 0) => "sequence" \in Features

\* What is added to such bytes is added to what they say.
LEMMA ReadsOn ==
  ASSUME NEW s \in Seq(Bytes), NEW w \in Seq(Bytes), NEW nest, NEW more, NEW events, NEW adds,
         IsSequence(events), IsSequence(adds),
         ReadsAs(s, nest, events), Adds(w, nest, AHeader, more, AHeader, adds)
  PROVE  ReadsAs(s \o w, more, events \o adds)
BY DEF ReadsAs, Adds

\* A write begins: its bytes come after those of the sequences held back.
LEMMA WriteSays ==
  ASSUME IInv, SaidInv, result # "BufferFull",
         NEW own \in Seq(Bytes), NEW gain \in {-1, 0, 1}, Begins(own, gain),
         NEW events, IsSequence(events), SaysAlso(events),
         Adds(own, depth, AHeader, depth + gain, AHeader, events),
         gain # 0 => "sequence" \in Features
  PROVE  SaidInv'
<1>1. PICK run : run = [i \in 1..Len(pending) |-> Begin(pending[i])]
  OBVIOUS
<1>2. PICK o : o = Owing(pending)
  OBVIOUS
<1>3. /\ pending \in Seq(Ids) /\ Len(pending) \in Nat /\ depth \in Nat /\ Len(pending) <= depth
      /\ depth <= MaxDepth /\ MaxDepth \in Nat
  BY LenProperties, WidthAssumption DEF IInv, TypeOK, CallTypeOK, HeldBackAreOpen
<1>4. PICK nest \in Nat : nest = depth - Len(pending)
  BY <1>3
<1>5. o \in Seq(Bytes) /\ Stream \in Seq(Bytes)
  BY <1>2, <1>3, OwingBytes, StreamTyped DEF IInv, TypeOK
<1>6. Adds(o, nest, AHeader, depth, AHeader, run) /\ IsSequence(run)
  <2>1. nest + Len(pending) = depth /\ nest + Len(pending) <= MaxDepth
    BY <1>3, <1>4
  <2>2. pending # <<>> => "sequence" \in Features
    <3>1. pending # <<>> => Len(pending) \in Nat \ {0}
      BY <1>3, EmptySeq
    <3> QED BY <1>3, <3>1 DEF SaidInv
  <2> QED BY <1>1, <1>2, <1>3, <2>1, <2>2, RunAdds
<1>7. ReadsAs(Stream, nest, said) /\ IsSequence(said)
  <2>1. ~Busy
    BY DEF Begins, IInv, Phases
  <2> QED BY <1>4, <2>1 DEF SaidInv, Coming, Framing
<1>8. Busy' /\ Coming' = Stream \o (o \o own) /\ Framing' = depth + gain
  <2>1. Busy' /\ call'.gain = gain /\ Stream' = Stream /\ Rest' = o \o own
    BY <1>2, BeginsOwing
  <2>2. depth' = depth
    BY DEF Begins, streamVars
  <2> QED BY <2>1, <2>2 DEF Coming, Framing
<1>9. ReadsAs((Stream \o o) \o own, depth + gain, (said \o run) \o events)
  <2>1. ReadsAs(Stream \o o, depth, said \o run)
    BY <1>5, <1>6, <1>7, ReadsOn
  <2>2. Stream \o o \in Seq(Bytes) /\ IsSequence(said \o run)
    BY <1>5, <1>6, <1>7, ConcatProperties, EventsJoin
  <2> QED BY <2>1, <2>2, ReadsOn
<1>10. (Stream \o o) \o own = Stream \o (o \o own)
  BY <1>5, Assoc
<1>11. said' = (said \o run) \o events /\ IsSequence(said')
  <2>1. said' = (said \o run) \o events
    BY <1>1 DEF SaysAlso
  <2>2. IsSequence(said \o run)
    BY <1>6, <1>7, EventsJoin
  <2> QED BY <2>1, <2>2, EventsJoin
<1>12. ReadsAs(Coming', Framing', said')
  BY <1>8, <1>9, <1>10, <1>11
<1>13. depth' > 0 \/ (Busy' /\ call'.gain # 0) => "sequence" \in Features
  <2>1. depth' = depth /\ call'.gain = gain
    BY BeginsOwing DEF Begins, streamVars
  <2> QED BY <2>1 DEF SaidInv
<1> QED BY <1>11, <1>12, <1>13 DEF SaidInv

\* A sequence that is held back, or that vanishes, changes no byte.
LEMMA HeldBackSays ==
  ASSUME IInv, SaidInv, result # "BufferFull", UNCHANGED said, "sequence" \in Features,
         Vanishes \/ \E id \in SequenceIds : HoldsBack(id)
  PROVE  SaidInv'
<1>1. pending \in Seq(Ids) /\ Len(pending) \in Nat /\ depth \in Nat /\ ~Busy
  BY LenProperties DEF IInv, TypeOK, CallTypeOK, Phases, Vanishes, HoldsBack
<1>2. /\ UNCHANGED <<mem, buffer, offset, room, emitted, call>> /\ pc = "idle"
      /\ result' = "Ok"
  BY DEF Vanishes, HoldsBack, doingVars
<1>3. depth' - Len(pending') = depth - Len(pending)
  <2>1. CASE Vanishes
    <3>1. Len(SubSeq(pending, 1, Len(pending) - 1)) = Len(pending) - 1
      BY <1>1, <2>1, Shorter DEF Vanishes
    <3> QED BY <1>1, <2>1, <3>1 DEF Vanishes
  <2>2. CASE \E id \in SequenceIds : HoldsBack(id)
    <3>1. PICK id \in SequenceIds : HoldsBack(id)
      BY <2>2
    <3>2. id \in Ids /\ pending' = Append(pending, id) /\ depth' = depth + 1
      BY <3>1 DEF HoldsBack
    <3>3. Len(Append(pending, id)) = Len(pending) + 1
      BY <1>1, <3>2, AppendProperties
    <3> QED BY <1>1, <3>2, <3>3
  <2> QED BY <2>1, <2>2
<1>4. ~Busy' /\ Stream' = Stream
  BY <1>1, <1>2 DEF Busy, Stream
<1>5. Coming' = Coming /\ Framing' = Framing
  BY <1>1, <1>3, <1>4 DEF Coming, Framing
<1>6. ReadsAs(Coming', Framing', said')
  BY <1>5 DEF SaidInv
<1> QED BY <1>4, <1>6 DEF SaidInv

\* A byte goes where it was coming from.
LEMMA StoreByteSays ==
  ASSUME IInv, SaidInv, UNCHANGED said, result # "BufferFull", StoreByte
  PROVE  SaidInv'
<1>1. Busy
  BY StoreByteOwing
<1>2. IF Busy' THEN depth' = depth /\ call' = call ELSE depth' = depth + call.gain
  BY <1>1 DEF StoreByte, PartDone, Busy
<1>3. depth \in Nat /\ depth' \in Nat
  <2>1. IInv'
    BY NextInv DEF Next, Pushes
  <2> QED BY <2>1 DEF IInv, TypeOK, CallTypeOK
<1>4. CASE Busy'
  <2>1. Stream' \o Rest' = Stream \o Rest /\ call' = call
    BY <1>4, StoreByteOwing
  <2>2. Coming' = Coming /\ Framing' = Framing /\ depth' = depth
    BY <1>1, <1>2, <1>4, <2>1 DEF Coming, Framing
  <2>3. ReadsAs(Coming', Framing', said')
    BY <2>2 DEF SaidInv
  <2> QED BY <1>1, <2>1, <2>2, <2>3 DEF SaidInv
<1>5. CASE ~Busy'
  <2>1. Stream' = Stream \o Rest /\ pending' = <<>>
    BY <1>5, StoreByteOwing
  <2>2. Len(pending') = 0
    BY <2>1, EmptySeq
  <2>3. Coming' = Coming /\ Framing' = Framing
    BY <1>1, <1>2, <1>3, <1>5, <2>1, <2>2 DEF Coming, Framing
  <2>4. ReadsAs(Coming', Framing', said')
    BY <2>3 DEF SaidInv
  <2>5. depth' > 0 => "sequence" \in Features
    BY <1>1, <1>2, <1>3, <1>5 DEF SaidInv, IInv, TypeOK, CallTypeOK, Busy
  <2> QED BY <1>5, <2>4, <2>5 DEF SaidInv
<1> QED BY <1>4, <1>5

\* Neither a drain nor a buffer that is installed changes what comes.
LEMMA MovesSay ==
  ASSUME SaidInv, UNCHANGED said, result # "BufferFull", Stream' = Stream,
         UNCHANGED <<depth, pending, call, part>>
  PROVE  SaidInv'
<1>1. Busy' <=> Busy
  BY DEF Busy
<1>2. Rest' = Rest
  BY DEF Rest
<1>3. Coming' = Coming /\ Framing' = Framing
  BY <1>1, <1>2 DEF Coming, Framing
<1>4. ReadsAs(Coming', Framing', said')
  BY <1>3 DEF SaidInv
<1> QED BY <1>1, <1>4 DEF SaidInv

\* Every step of the encoder keeps it.
LEMMA SaidNext ==
  ASSUME IInv, PInv, SaidInv, [TripNext]_tripVars
  PROVE  SaidInv'
<1>1. CASE UNCHANGED tripVars
  <2>1. UNCHANGED vars /\ UNCHANGED said
    BY <1>1 DEF tripVars
  <2>2. /\ UNCHANGED <<depth, pending, call, part, result, mem, buffer, offset, room, emitted>>
    BY <2>1 DEF vars, streamVars, doingVars
  <2>3. Stream' = Stream
    BY <2>2 DEF Stream
  <2>4. result' = result /\ said' = said
    BY <2>1, <2>2
  <2>5. CASE result # "BufferFull"
    BY <2>2, <2>3, <2>4, <2>5, MovesSay
  <2>6. CASE result = "BufferFull"
    BY <2>2, <2>4, <2>6 DEF SaidInv, Busy
  <2> QED BY <2>5, <2>6
<1>2. ASSUME result # "BufferFull", NEW field \in FieldInputs, WriteField(field),
             SaysAlso(Says(field))
      PROVE  SaidInv'
  <2>1. field.id \in Ids /\ Begins(FieldBytes(field), 0) /\ IsField(field) /\ Readable(field)
    BY <1>2, FieldAssumption, ReadableAssumption DEF WriteField
  <2>2. PICK own : own = FieldBytes(field)
    OBVIOUS
  <2>3. PICK events : events = Says(field)
    OBVIOUS
  <2>4. own \in Seq(Bytes) /\ IsSequence(events)
        /\ Adds(own, depth, AHeader, depth, AHeader, events)
    BY <2>1, <2>2, <2>3, FieldTyped, FieldAdds
  <2>5. depth + 0 = depth
    BY DEF IInv, TypeOK, CallTypeOK
  <2> QED BY <1>2, <2>1, <2>2, <2>3, <2>4, <2>5, WriteSays
<1>3. ASSUME result # "BufferFull", "sequence" \in Features, NEW id \in SequenceIds,
             FramesEagerly(id), SaysAlso(<<Begin(id)>>)
      PROVE  SaidInv'
  <2>1. id \in Ids \cup {0} /\ Begins(Header(id, T_SEQUENCE_START), 1) /\ depth # MaxDepth
    BY <1>3, WidthAssumption DEF FramesEagerly, IInv, TypeOK, CallTypeOK
  <2>2. PICK own : own = Header(id, T_SEQUENCE_START)
    OBVIOUS
  <2>3. PICK e : e = Begin(id)
    OBVIOUS
  <2>4. own \in Seq(Bytes)
    BY <2>1, <2>2, HeaderTyped DEF T_SEQUENCE_START
  <2>5. IsSequence(<<e>>)
    BY EmptySeq, EventOne DEF IsSequence
  <2>6. Adds(own, depth, AHeader, depth + 1, AHeader, <<e>>)
    BY <1>3, <2>1, <2>2, <2>3, HeaderAdds DEF Begin
  <2> QED BY <1>3, <2>1, <2>2, <2>3, <2>4, <2>5, <2>6, WriteSays
<1>4. ASSUME result # "BufferFull", "sequence" \in Features, write_sequence_end_keep,
             SaysAlso(<<[fn |-> "sequence_end"]>>)
      PROVE  SaidInv'
  <2>1. 0 \in Ids \cup {0} /\ Begins(Header(0, T_SEQUENCE_END), -1) /\ depth # 0
        /\ depth - 1 = depth + -1
    BY <1>4 DEF write_sequence_end_keep, IInv, TypeOK, CallTypeOK
  <2>2. PICK own : own = Header(0, T_SEQUENCE_END)
    OBVIOUS
  <2>3. PICK e : e = [fn |-> "sequence_end"]
    OBVIOUS
  <2>4. own \in Seq(Bytes)
    BY <2>1, <2>2, HeaderTyped DEF T_SEQUENCE_END
  <2>5. IsSequence(<<e>>)
    BY EmptySeq, EventOne DEF IsSequence
  <2>6. Adds(own, depth, AHeader, depth - 1, AHeader, <<e>>)
    BY <1>4, <2>1, <2>2, <2>3, HeaderAdds
  <2> QED BY <1>4, <2>1, <2>2, <2>3, <2>4, <2>5, <2>6, WriteSays
<1>5. ASSUME result # "BufferFull", Refused, UNCHANGED said
      PROVE  SaidInv'
  <2>1. /\ UNCHANGED <<depth, pending, call, part, mem, buffer, offset, room, emitted>>
    BY <1>5 DEF Refused, streamVars, doingVars
  <2> QED BY <1>5, <2>1, MovesSay DEF Stream
<1>6. ASSUME result # "BufferFull", Pushes, UNCHANGED said
      PROVE  SaidInv'
  <2>1. CASE StoreByte
    BY <1>6, <2>1, StoreByteSays
  <2>2. CASE BufferFull
    <3>1. result' = "BufferFull" /\ call' = None /\ depth' = depth
      BY <2>2 DEF BufferFull, streamVars
    <3> QED BY <1>6, <3>1 DEF SaidInv, Busy
  <2>3. CASE DrainsWhenFull
    BY <1>6, <2>3, DrainsMove, MovesSay DEF PInv
  <2> QED BY <1>6, <2>1, <2>2, <2>3 DEF Pushes
<1>7. ASSUME result # "BufferFull", Drains \/ Installs \/ taken, UNCHANGED said
      PROVE  SaidInv'
  BY <1>7, DrainsMove, InstallsMove, MovesSay DEF PInv, Drains
<1>8. CASE TripNext
  BY <1>2, <1>3, <1>4, <1>5, <1>6, <1>7, <1>8, HeldBackSays DEF TripNext
<1> QED BY <1>1, <1>8

-----------------------------------------------------------------------------
(* It is read back *)

\* Between calls it is the property itself.
LEMMA SaidIsRead == IInv /\ SaidInv => ReadsBack
<1> SUFFICES ASSUME IInv, SaidInv, call = None, result # "BufferFull"
             PROVE  Meaning(Stream) =
                      [verdict |-> IF Len(pending) = depth THEN "Complete" ELSE "Incomplete",
                       events  |-> said]
  BY DEF ReadsBack
<1>1. PICK s \in Seq(Bytes) : s = Stream
  BY StreamTyped DEF IInv, TypeOK
<1>2. PICK nest \in Nat : nest = depth - Len(pending) /\ (nest = 0 <=> Len(pending) = depth)
  <2>1. pending \in Seq(Ids) /\ Len(pending) \in Nat /\ depth \in Nat /\ Len(pending) <= depth
    BY LenProperties DEF IInv, TypeOK, CallTypeOK, HeldBackAreOpen
  <2> QED BY <2>1
<1>3. PICK c : c = At(Len(s) + 1, nest, AHeader, said)
  OBVIOUS
<1>4. PICK n \in 0..Len(s) : ReadingIs(s, n, c)
  BY <1>1, <1>2, <1>3 DEF SaidInv, ReadsAs, Coming, Framing, Busy
<1>5. Readings(s)[n] = c
  <2>1. s \o <<>> = s /\ <<>> \in Seq(Bytes)
    BY EmptySeq, ConcatEmptySeq
  <2> QED BY <1>4, <2>1 DEF ReadingIs
<1>6. PICK verdict : verdict = IF nest = 0 THEN "Complete" ELSE "Incomplete"
  OBVIOUS
<1>7. Len(s) \in Nat
  BY LenProperties
<1>8. Item(s, c) = Ended(verdict, said)
  BY <1>3, <1>6, <1>7 DEF Item, At, AHeader
<1>9. Readings(s)[n + 1] = Ended(verdict, said)
  <2>1. n + 1 \in 1..(Len(s) + 1) /\ (n + 1) - 1 = n
    BY <1>7
  <2> QED BY <1>5, <1>8, <2>1, ReadingsAre
<1>10. Meaning(s) = Ended(verdict, said)
  <2>1. n + 1 \in 0..(Len(s) + 1) /\ verdict # "none"
    BY <1>6, <1>7
  <2> QED BY <1>9, <2>1, EndStays
<1> QED BY <1>1, <1>2, <1>6, <1>10 DEF Ended

\* An encoder that is built has said nothing and put out nothing.
LEMMA SaidStart == TripInit => SaidInv
<1> SUFFICES ASSUME TripInit PROVE SaidInv
  OBVIOUS
<1>1. IInv
  BY InitInv DEF TripInit
<1>2. call = None /\ depth = 0 /\ pending = <<>> /\ said = <<>> /\ emitted = <<>>
      /\ room = offset /\ offset \in Nat
  BY StreamAssumption DEF TripInit, Init
<1>3. Stream = <<>>
  BY <1>2 DEF Stream
<1>4. IsSequence(said) /\ Len(<<>>) = 0
  BY <1>2, EmptySeq DEF IsSequence
<1>5. ReadingIs(<<>>, 0, Start)
  BY ReadingsAre DEF ReadingIs
<1>6. Coming = <<>> /\ Framing = 0
  <2>1. ~Busy /\ Len(pending) = 0
    BY <1>2, <1>4 DEF Busy
  <2>2. Coming = Stream
    BY <2>1 DEF Coming
  <2>3. Framing = depth - Len(pending)
    BY <2>1 DEF Framing
  <2> QED BY <1>2, <1>3, <2>1, <2>2, <2>3
<1>7. ReadsAs(Coming, Framing, said)
  BY <1>2, <1>4, <1>5, <1>6 DEF ReadsAs, Start
<1> QED BY <1>2, <1>4, <1>7 DEF SaidInv, Busy

\* The invariants are kept together,
LEMMA TripNextInv ==
  IInv /\ PInv /\ SaidInv /\ [TripNext]_tripVars => (IInv /\ PInv /\ SaidInv)'
<1>1. [TripNext]_tripVars => [Next]_vars
  BY TripStepsAreSteps
<1>2. IInv /\ [TripNext]_tripVars => IInv'
  BY <1>1, NextInv
<1>3. IInv /\ PInv /\ [TripNext]_tripVars => PInv'
  BY <1>1, PromiseNext
<1> QED BY <1>2, <1>3, SaidNext

\* hold at first,
LEMMA TripStart == TripInit => IInv /\ PInv /\ SaidInv
BY InitInv, PromiseInit, SaidStart DEF TripInit

\* Between writes the bytes that came out, read back, are what was written, for
\* every width, every set of buffers and every field the format can hold.
THEOREM AlwaysReadsBack == TripSpec => []ReadsBack
<1>1. IInv /\ PInv /\ SaidInv => ReadsBack
  BY SaidIsRead
<1> QED BY <1>1, TripStart, TripNextInv, PTL DEF TripSpec

\* and hold behind a sink that reads as well.
LEMMA LoopSaid == LoopSpec => [](IInv /\ PInv /\ SaidInv)
<1>1. LoopInit => IInv /\ PInv /\ SaidInv
  BY TripStart DEF LoopInit
<1>2. [LoopNext]_loopVars => [TripNext]_tripVars
  BY DEF LoopNext, Writes, Receives, loopVars
<1> QED BY <1>1, <1>2, TripNextInv, PTL DEF LoopSpec

\* The same while a receiver listens.
THEOREM LoopReadsBack == LoopSpec => []ReadsBack
<1>1. IInv /\ PInv /\ SaidInv => ReadsBack
  BY SaidIsRead
<1> QED BY <1>1, LoopSaid, PTL

-----------------------------------------------------------------------------
(* It arrives *)

\* Both ends are held to one reference: that the decoder's has names of its own
\* makes no difference.
LEMMA SameNames ==
  /\ R!Unsigned = Unsigned /\ R!ID_MAX = ID_MAX /\ R!ARRAY_MAX = ARRAY_MAX
  /\ R!WireTypes = WireTypes /\ R!VarintBytes = VarintBytes /\ R!ByteBits = ByteBits
  /\ R!AHeader = AHeader
BY DEF R!Unsigned, Unsigned, R!ID_MAX, ID_MAX, R!ARRAY_MAX, ARRAY_MAX, R!WireTypes, WireTypes,
       R!VarintBytes, VarintBytes, R!ByteBits, ByteBits, R!AHeader, AHeader,
       R!T_VARINT_UNSIGNED, T_VARINT_UNSIGNED, R!T_VARINT_SIGNED, T_VARINT_SIGNED, R!T_FIXLEN,
       T_FIXLEN, R!T_VARINTARRAY_UNSIGNED, T_VARINTARRAY_UNSIGNED, R!T_VARINTARRAY_SIGNED,
       T_VARINTARRAY_SIGNED, R!T_FIXLENARRAY, T_FIXLENARRAY, R!T_SEQUENCE_START,
       T_SEQUENCE_START, R!T_SEQUENCE_END, T_SEQUENCE_END

\* Both readings have the same items,
LEMMA SameShapes ==
  /\ \A p, nest, a, events : R!At(p, nest, a, events) = At(p, nest, a, events)
  /\ \A v, events : R!Ended(v, events) = Ended(v, events)
  /\ \A f, k, n : /\ R!Integers(f, k, n) = Integers(f, k, n)
                  /\ R!Floats(f, k, n) = Floats(f, k, n)
                  /\ R!APayload(f, k, n) = APayload(f, k, n)
                  /\ R!ACount(f, k) = ACount(f, k) /\ R!AnArrayWord(f, n) = AnArrayWord(f, n)
                  /\ R!AWord(f) = AWord(f)
BY DEF R!At, At, R!Ended, Ended, R!Integers, Integers, R!Floats, Floats, R!APayload, APayload,
       R!ACount, ACount, R!AnArrayWord, AnArrayWord, R!AWord, AWord

\* the same events,
LEMMA SameCalls ==
  /\ \A k : R!IntegerCall(k) = IntegerCall(k) /\ R!FloatCall(k) = FloatCall(k)
             /\ R!BytesCall(k) = BytesCall(k)
  /\ \A v : R!zigzag_decode(v) = zigzag_decode(v)
BY DEF R!IntegerCall, IntegerCall, R!FloatCall, FloatCall, R!BytesCall, BytesCall,
       R!zigzag_decode, zigzag_decode

\* the same widths,
LEMMA SameWidths == \A t : R!Width(t) = Width(t)
BY DEF R!Width, Width

\* the same numbers,
LEMMA SameNumbers == \A digits, bits : R!LittleEndian(digits, bits) = LittleEndian(digits, bits)
BY DEF R!LittleEndian, LittleEndian

\* open fields alike,
LEMMA SameOpened == \A f, t : R!Opened(f, t) = Opened(f, t)
BY SameShapes DEF R!Opened, Opened, R!T_VARINT_UNSIGNED, T_VARINT_UNSIGNED, R!T_VARINT_SIGNED,
   T_VARINT_SIGNED, R!T_FIXLEN, T_FIXLEN, R!T_VARINTARRAY_UNSIGNED, T_VARINTARRAY_UNSIGNED,
   R!T_VARINTARRAY_SIGNED, T_VARINTARRAY_SIGNED

\* go on in arrays alike,
LEMMA SameOthers == \A a : R!Others(a) = Others(a)
BY SameNames DEF R!Others, Others

\* read varints alike,
LEMMA SameVarint == \A s, p : R!ReadVarint(s, p) = ReadVarint(s, p)
BY DEF R!ReadVarint, ReadVarint, R!More, More, R!Digits, Digits, R!Payload, Payload,
       R!LittleEndian, LittleEndian, R!VarintBytes, VarintBytes, R!Unsigned, Unsigned

\* and headers,
LEMMA SameFieldHeader == \A c, v, q : R!FieldHeader(c, v, q) = FieldHeader(c, v, q)
BY SameNames, SameShapes, SameOpened DEF R!FieldHeader, FieldHeader, R!T_SEQUENCE_START,
   T_SEQUENCE_START, R!T_SEQUENCE_END, T_SEQUENCE_END

\* integers,
LEMMA SameInteger == \A c, v, q : R!Integer(c, v, q) = Integer(c, v, q)
BY SameShapes, SameOthers, SameCalls DEF R!Integer, Integer

\* counts,
LEMMA SameCount == \A c, v, q : R!Count(c, v, q) = Count(c, v, q)
BY SameNames, SameShapes DEF R!Count, Count

\* the words of arrays,
LEMMA SameArrayWord == \A c, v, q : R!ArrayWord(c, v, q) = ArrayWord(c, v, q)
BY DEF R!ArrayWord, ArrayWord, R!SubtypeOf, SubtypeOf, R!from_raw, from_raw, R!FixlenTypes,
       FixlenTypes, R!FixlenCode, FixlenCode, R!Width, Width, R!At, At, R!Ended, Ended,
       R!Floats, Floats, R!AHeader, AHeader, R!ARRAY_MAX, ARRAY_MAX

\* payloads,
LEMMA SamePayloadEvent == \A a, chunk : R!PayloadEvent(a, chunk) = PayloadEvent(a, chunk)
BY SameCalls DEF R!PayloadEvent, PayloadEvent

\* the words of fields,
LEMMA SameWord == \A c, v, q : R!Word(c, v, q) = Word(c, v, q)
BY DEF R!Word, Word, R!SubtypeOf, SubtypeOf, R!from_raw, from_raw, R!FixlenTypes, FixlenTypes,
       R!FixlenCode, FixlenCode, R!Width, Width, R!At, At, R!Ended, Ended, R!Floats, Floats,
       R!APayload, APayload, R!AHeader, AHeader, R!ARRAY_MAX, ARRAY_MAX, R!PayloadEvent,
       PayloadEvent, R!BytesCall, BytesCall

\* all that follows a varint,
LEMMA SameRead == \A c, v, q : R!Read(c, v, q) = Read(c, v, q)
BY SameFieldHeader, SameInteger, SameCount, SameArrayWord, SameWord DEF R!Read, Read

\* every item,
LEMMA SameItem == \A s, c : R!Item(s, c) = Item(s, c)
<1> SUFFICES ASSUME NEW s, NEW c PROVE R!Item(s, c) = Item(s, c)
  OBVIOUS
<1>1. R!Varint(s, c) = Varint(s, c)
  BY SameVarint, SameRead, SameShapes DEF R!Varint, Varint
<1>2. R!Float(s, c) = Float(s, c)
  BY SameShapes, SameOthers, SameCalls, SameWidths, SameNumbers, SameNames DEF R!Float, Float
<1>3. R!PayloadBytes(s, c) = PayloadBytes(s, c)
  BY SameShapes, SameNames, SamePayloadEvent DEF R!PayloadBytes, PayloadBytes
<1> QED BY <1>1, <1>2, <1>3, SameShapes DEF R!Item, Item

\* and so give the same bytes the same meaning.
LEMMA SameMeaning == \A s \in Seq(Bytes) : R!Meaning(s) = Meaning(s)
<1> SUFFICES ASSUME NEW s \in Seq(Bytes) PROVE R!Meaning(s) = Meaning(s)
  OBVIOUS
<1> DEFINE N == Len(s) + 1
           S == {n \in Nat : n <= N => R!Readings(s)[n] = Readings(s)[n]}
<1>1. N \in Nat /\ s \in Seq(R!Bytes)
  BY LenProperties DEF R!Bytes, R!ByteBits, Bytes, ByteBits
<1>2. /\ Readings(s)[0] = Start /\ R!Readings(s)[0] = R!Start
      /\ \A n \in 1..N : Readings(s)[n] = Item(s, Readings(s)[n - 1])
      /\ \A n \in 1..N : R!Readings(s)[n] = R!Item(s, R!Readings(s)[n - 1])
  BY <1>1, ReadingsAre, R!ReadingsAre, AnyInput
<1>3. 0 \in S
  BY <1>1, <1>2, SameShapes, SameNames DEF R!Start, Start
<1>4. ASSUME NEW n \in Nat, n \in S PROVE n + 1 \in S
  <2> SUFFICES ASSUME n + 1 <= N PROVE R!Readings(s)[n + 1] = Readings(s)[n + 1]
    OBVIOUS
  <2>1. n + 1 \in 1..N /\ (n + 1) - 1 = n /\ R!Readings(s)[n] = Readings(s)[n]
    BY <1>1, <1>4
  <2> QED BY <1>2, <2>1, SameItem
<1> HIDE DEF S
<1>5. N \in S
  BY <1>1, <1>3, <1>4, Induction
<1>6. R!Readings(s)[N] = Readings(s)[N]
  BY <1>1, <1>5 DEF S
<1> QED BY <1>6 DEF R!Meaning, Meaning

\* All that came out has been handed over when as much has been taken.
LEMMA AllIsHeard ==
  ASSUME IInv, Fed, fed = Len(Stream)
  PROVE  SubSeq(emitted, 1, fed) = Stream
<1>1. PICK more : more = SubSeq(mem[buffer], room + 1, offset)
  OBVIOUS
<1>2. /\ offset \in Nat /\ room \in Nat /\ offset <= Size[buffer]
      /\ mem[buffer] \in Seq(Bytes) /\ Len(mem[buffer]) = Size[buffer]
      /\ Size[buffer] \in Nat /\ emitted \in Seq(Bytes)
  BY StreamAssumption DEF IInv, TypeOK, BufferTypeOK
<1>3. \A i \in (room + 1)..offset : mem[buffer][i] \in Bytes
  BY <1>2, ElementOfSeq
<1>4. more \in Seq(Bytes) /\ Stream = emitted \o more
  BY <1>1, <1>2, <1>3, SubSeqProperties DEF Stream
<1>5. /\ SubSeq(emitted \o more, 1, Len(emitted)) = emitted
      /\ Len(emitted \o more) = Len(emitted) + Len(more)
      /\ Len(emitted) \in Nat /\ Len(more) \in Nat
  BY <1>2, <1>4, FirstPart, Followed
<1>6. Len(more) = 0 /\ fed = Len(emitted)
  <2>1. fed = Len(emitted) + Len(more)
    BY <1>4, <1>5
  <2>2. PICK a \in Nat, m \in Nat : a = Len(emitted) /\ m = Len(more)
    BY <1>5
  <2>3. fed <= a
    BY <2>2 DEF Fed
  <2>4. fed = a + m
    BY <2>1, <2>2
  <2>5. m = 0 /\ fed = a
    BY <2>2, <2>3, <2>4
  <2> QED BY <2>2, <2>5
<1>7. Stream = emitted
  BY <1>2, <1>4, <1>6, EmptySeq, ConcatEmptySeq
<1>8. SubSeq(emitted, 1, Len(emitted)) = emitted
  BY <1>2, SubSeqFull
<1> QED BY <1>6, <1>7, <1>8

\* What is written arrives: when all of it has been flushed, the receiving visitor
\* has seen exactly what the caller wrote, value for value, wherever the buffers
\* ended and the feeds began, and the last feed said COMPLETE exactly if no sequence
\* that was framed is still open.
THEOREM AlwaysArrives == LoopSpec => []Arrives
<1>1. IInv /\ Fed /\ Received /\ ReadsBack => Arrives
  <2> SUFFICES ASSUME IInv, Fed, Received, ReadsBack,
                      call = None, pc = "idle", fed = Len(Stream), fed > 0
               PROVE  /\ heard = said
                      /\ r_status = IF Len(pending) = depth THEN "Complete" ELSE "Incomplete"
    BY DEF Arrives
  <2>1. result # "BufferFull"
    BY DEF Fed, IInv, NoBufferFullWithASink
  <2>2. Meaning(Stream) =
          [verdict |-> IF Len(pending) = depth THEN "Complete" ELSE "Incomplete", events |-> said]
    BY <2>1 DEF ReadsBack
  <2>3. R!Meaning(SubSeq(emitted, 1, fed)) = Meaning(Stream)
    BY AllIsHeard, SameMeaning, StreamTyped DEF IInv, TypeOK
  <2>4. R!Meaning(SubSeq(emitted, 1, fed)) = R!Ended(R!Verdict, heard)
    BY R!MeaningOfSeen, AnyInput DEF Received
  <2>5. r_status \notin {"New", "Feeding"}
    BY DEF Fed
  <2>6. r_status = R!Meaning(SubSeq(emitted, 1, fed)).verdict
    BY <2>5, R!VerdictOfSeen, AnyInput DEF Received, R!VerdictIsTheMessages
  <2>7. heard = R!Meaning(SubSeq(emitted, 1, fed)).events
    BY <2>4 DEF R!Ended
  <2> QED BY <2>2, <2>3, <2>6, <2>7
<1> QED BY <1>1, LoopInvariance, LoopReadsBack, PTL
=============================================================================
