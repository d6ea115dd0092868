--------------------------- MODULE OStreamProofs ---------------------------
(***************************************************************************)
(* Proofs about the encoder, for every set of buffers of every size, every *)
(* field and every behaviour of the sink, and about a caller without one   *)
(* that recovers from BufferFull.                                          *)
(***************************************************************************)
EXTENDS Recovery, WireProofs

\* What each phase of a write owes the next: a write in progress has bytes left
\* and its change of depth is possible, a drain knows where it goes on, and a
\* byte that comes after one has room.
Phases ==
  /\ pc = "idle" => ~Busy /\ then = None
  /\ pc \in {"push", "store"} => Busy /\ then = None
  /\ pc = "sink" => sinks /\ then # None /\ (Busy <=> then.is = "push")
  /\ pc = "store" => sinks /\ offset < Size[buffer]

CallIsPossible ==
  Busy => /\ part # <<>> /\ call.own # <<>>
          /\ call.gain = 1 => depth < MaxDepth
          /\ call.gain = -1 => depth > 0

DrainsMakeRoom == sinks => Size[buffer] > 0

\* The inductive invariant.
IInv == TypeOK /\ HeldBackAreOpen /\ NoBufferFullWithASink
          /\ Phases /\ CallIsPossible /\ DrainsMakeRoom

-----------------------------------------------------------------------------
(* Sequences *)

\* What is left of a sequence without its first or its last element.
LEMMA Shorter ==
  ASSUME NEW S, NEW s \in Seq(S), s # <<>>
  PROVE  /\ Head(s) \in S /\ Tail(s) \in Seq(S)
         /\ Len(s) \in Nat \ {0} /\ Len(Tail(s)) = Len(s) - 1
         /\ Len(s) > 1 => Tail(s) # <<>>
         /\ SubSeq(s, 1, Len(s) - 1) \in Seq(S)
         /\ Len(SubSeq(s, 1, Len(s) - 1)) = Len(s) - 1
<1>1. Len(s) \in Nat \ {0} /\ \A i \in 1..Len(s) : s[i] \in S
  BY EmptySeq, ElementOfSeq
<1>2. Head(s) \in S /\ Tail(s) \in Seq(S) /\ Len(Tail(s)) = Len(s) - 1
  BY HeadTailProperties
<1>3. Len(s) > 1 => Tail(s) # <<>>
  BY <1>1, <1>2, EmptySeq
<1>4. /\ SubSeq(s, 1, Len(s) - 1) \in Seq(S)
      /\ Len(SubSeq(s, 1, Len(s) - 1)) = Len(s) - 1
  BY <1>1, SubSeqProperties
<1> QED BY <1>1, <1>2, <1>3, <1>4

\* The message so far is a sequence of bytes.
LEMMA StreamTyped == ASSUME BufferTypeOK PROVE Stream \in Seq(Bytes) /\ Len(Stream) \in Nat
<1>1. /\ offset \in 0..Size[buffer] /\ Size[buffer] \in Nat /\ room \in 0..offset
      /\ mem[buffer] \in Seq(Bytes) /\ Len(mem[buffer]) = Size[buffer]
  BY StreamAssumption DEF BufferTypeOK
<1>2. \A i \in (room + 1)..offset : mem[buffer][i] \in Bytes
  BY <1>1, ElementOfSeq
<1>3. SubSeq(mem[buffer], room + 1, offset) \in Seq(Bytes)
  BY <1>1, <1>2, SubSeqProperties
<1>4. Stream \in Seq(Bytes)
  BY <1>3, ConcatProperties DEF Stream, BufferTypeOK
<1> QED BY <1>4, LenProperties

-----------------------------------------------------------------------------
(* The inductive invariant holds at first *)

\* However it is built, an encoder starts in the invariant.
LEMMA InitInv == Init => IInv
<1> SUFFICES ASSUME Init PROVE IInv
  OBVIOUS
<1>1. Size \in [Buffers -> Nat] /\ First \in Buffers /\ Offsets \subseteq Nat
  BY StreamAssumption
<1>2. 0 \in Bytes
  BY Widths DEF Bytes
<1>3. BufferTypeOK
  <2>1. \A b \in Buffers : [i \in 1..Size[b] |-> 0] \in Seq(Bytes)
                             /\ Len([i \in 1..Size[b] |-> 0]) = Size[b]
    BY <1>1, <1>2
  <2>2. mem \in [Buffers -> Seq(Bytes)] /\ \A b \in Buffers : Len(mem[b]) = Size[b]
    BY <2>1 DEF Init
  <2>3. offset \in 0..Size[buffer] /\ buffer \in Buffers /\ room \in 0..offset
    BY <1>1 DEF Init, check_install
  <2> QED BY <2>2, <2>3, EmptySeq DEF Init, Built, BufferTypeOK
<1>4. HandoverTypeOK
  BY DEF Init, HandoverTypeOK
<1>5. CallTypeOK
  BY WidthAssumption, EmptySeq DEF Init, CallTypeOK
<1>6. HeldBackAreOpen /\ NoBufferFullWithASink /\ Phases /\ CallIsPossible
  BY StreamAssumption, EmptySeq
  DEF Init, HeldBackAreOpen, NoBufferFullWithASink, Phases, CallIsPossible, Busy
<1>7. DrainsMakeRoom
  BY <1>1 DEF Init, check_install, MIN_OUTPUT_BUFFER, DrainsMakeRoom
<1> QED BY <1>3, <1>4, <1>5, <1>6, <1>7 DEF IInv, TypeOK

-----------------------------------------------------------------------------
(* Writes begin *)

\* A write that may begin leaves the invariant as it was, whatever its bytes.
LEMMA BeginsInv ==
  ASSUME IInv, NEW own \in Seq(Bytes), own # <<>>, NEW gain \in {-1, 0, 1},
         gain = 1 => depth < MaxDepth, gain = -1 => depth > 0, Begins(own, gain)
  PROVE  IInv'
<1> USE DEF Begins, streamVars
<1>1. BufferTypeOK' /\ HandoverTypeOK'
  BY DEF IInv, TypeOK, BufferTypeOK, HandoverTypeOK
<1>2. part' \in Seq(Bytes) /\ part' # <<>>
  <2>1. CASE pending = <<>>
    BY <2>1
  <2>2. CASE pending # <<>>
    <3>1. Head(pending) \in Ids
      BY <2>2, Shorter DEF IInv, TypeOK, CallTypeOK
    <3> QED BY <3>1, <2>2, HeaderTyped DEF T_SEQUENCE_START
  <2> QED BY <2>1, <2>2
<1>3. call' \in [is : {"write"}, own : Seq(Bytes), gain : {-1, 0, 1},
                 size : Nat, pending : Seq(Ids)]
  BY StreamTyped DEF IInv, TypeOK, CallTypeOK
<1>4. CallTypeOK'
  BY <1>2, <1>3 DEF IInv, TypeOK, CallTypeOK, check_install
<1>5. call' # None /\ call'.own = own /\ call'.gain = gain
  BY DEF None
<1>6. Phases' /\ CallIsPossible'
  BY <1>2, <1>5 DEF IInv, Phases, CallIsPossible, Busy
<1>7. HeldBackAreOpen' /\ NoBufferFullWithASink' /\ DrainsMakeRoom'
  BY DEF IInv, HeldBackAreOpen, NoBufferFullWithASink, DrainsMakeRoom
<1> QED BY <1>1, <1>4, <1>6, <1>7 DEF IInv, TypeOK

\* What changes only the result, the depth and the run, between writes.
LEMMA BetweenWritesInv ==
  ASSUME IInv, pc = "idle", pending' \in Seq(Ids), depth' \in 0..MaxDepth, HeldBackAreOpen',
         result' \in {"Ok", "Argument"},
         UNCHANGED <<sinks, takes, buffer, offset, mem, next, retired, doingVars, free, room,
                     emitted>>
  PROVE  IInv'
<1> USE DEF doingVars
<1>1. BufferTypeOK' /\ HandoverTypeOK'
  BY DEF IInv, TypeOK, BufferTypeOK, HandoverTypeOK
<1>2. CallTypeOK'
  BY DEF IInv, TypeOK, CallTypeOK, check_install
<1>3. Phases' /\ CallIsPossible' /\ DrainsMakeRoom' /\ NoBufferFullWithASink'
  BY DEF IInv, Phases, CallIsPossible, Busy, DrainsMakeRoom, NoBufferFullWithASink
<1> QED BY <1>1, <1>2, <1>3 DEF IInv, TypeOK

\* Writes that begin, and those refused, keep it.
LEMMA WritesInv ==
  ASSUME IInv, WritesField \/ BeginsSequence \/ EndsSequence \/ Refused
  PROVE  IInv'
<1>0. /\ pending \in Seq(Ids) /\ Len(pending) \in Nat /\ depth \in 0..MaxDepth /\ MaxDepth \in Nat
      /\ HeldBackAreOpen
  BY WidthAssumption, LenProperties DEF IInv, TypeOK, CallTypeOK
<1>1. CASE WritesField
  <2>1. PICK field \in FieldInputs : field.id \in Ids /\ Begins(FieldBytes(field), 0)
    BY <1>1 DEF WritesField, WriteField
  <2>2. FieldBytes(field) \in Seq(Bytes) /\ FieldBytes(field) # <<>>
    BY <2>1, FieldAssumption, FieldTyped
  <2> QED BY <2>1, <2>2, BeginsInv
<1>2. ASSUME NEW id \in SequenceIds, HoldsBack(id) PROVE IInv'
  <2>1. /\ pending' = Append(pending, id) /\ depth' = depth + 1
        /\ id \in Ids /\ depth < MaxDepth /\ Len(pending) < LAZY_SEQ_DEPTH
    BY <1>2 DEF HoldsBack
  <2>2. pending' \in Seq(Ids) /\ Len(pending') = Len(pending) + 1
    BY <1>0, <2>1, AppendProperties
  <2>3. depth' \in 0..MaxDepth /\ HeldBackAreOpen'
    BY <1>0, <2>1, <2>2, StreamAssumption DEF HeldBackAreOpen
  <2> QED BY <1>2, <2>2, <2>3, BetweenWritesInv DEF HoldsBack
<1>3. ASSUME NEW id \in SequenceIds, FramesEagerly(id) PROVE IInv'
  <2>1. Header(id, T_SEQUENCE_START) \in Seq(Bytes) /\ Header(id, T_SEQUENCE_START) # <<>>
    BY <1>3, HeaderTyped DEF FramesEagerly, T_SEQUENCE_START
  <2> QED BY <1>3, <2>1, BeginsInv DEF FramesEagerly
<1>4. CASE Vanishes
  <2>1. /\ pending' = SubSeq(pending, 1, Len(pending) - 1) /\ depth' = depth - 1
        /\ pending # <<>> /\ depth > 0
    BY <1>4 DEF Vanishes
  <2>2. pending' \in Seq(Ids) /\ Len(pending') = Len(pending) - 1
    BY <1>0, <2>1, Shorter
  <2>3. depth' \in 0..MaxDepth /\ HeldBackAreOpen'
    BY <1>0, <2>1, <2>2, StreamAssumption DEF HeldBackAreOpen
  <2> QED BY <1>4, <2>2, <2>3, BetweenWritesInv DEF Vanishes
<1>5. ASSUME depth > 0, Begins(Header(0, T_SEQUENCE_END), -1) PROVE IInv'
  <2>1. Header(0, T_SEQUENCE_END) \in Seq(Bytes) /\ Header(0, T_SEQUENCE_END) # <<>>
    BY HeaderTyped DEF T_SEQUENCE_END
  <2> QED BY <1>5, <2>1, BeginsInv
<1>6. CASE Refused
  BY <1>0, <1>6, BetweenWritesInv DEF Refused, streamVars, HeldBackAreOpen
<1> QED
  BY <1>1, <1>2, <1>3, <1>4, <1>5, <1>6
  DEF BeginsSequence, EndsSequence, write_sequence_begin_lazy, write_sequence_end,
      write_sequence_end_keep

-----------------------------------------------------------------------------
(* Bytes go out *)

\* Storing a byte keeps it.
LEMMA StoreByteInv == ASSUME IInv, StoreByte PROVE IInv'
<1>0. /\ pc \in {"push", "store"} /\ offset < Size[buffer] /\ offset' = offset + 1
      /\ UNCHANGED <<sinks, takes, buffer, next, retired, then, free, room, emitted>>
  BY DEF StoreByte
<1>1. /\ Busy /\ then = None /\ part \in Seq(Bytes) /\ part # <<>> /\ call.own # <<>>
      /\ pending \in Seq(Ids) /\ depth \in 0..MaxDepth
      /\ call.own \in Seq(Bytes) /\ call.gain \in {-1, 0, 1}
      /\ call.gain = 1 => depth < MaxDepth
      /\ call.gain = -1 => depth > 0
  BY <1>0 DEF IInv, TypeOK, CallTypeOK, Phases, CallIsPossible, Busy
<1>2. BufferTypeOK'
  <2>1. /\ offset \in 0..Size[buffer] /\ Size[buffer] \in Nat /\ buffer \in Buffers
        /\ mem[buffer] \in Seq(Bytes) /\ Len(mem[buffer]) = Size[buffer]
    BY StreamAssumption DEF IInv, TypeOK, BufferTypeOK
  <2>2. offset + 1 \in 1..Len(mem[buffer]) /\ Head(part) \in Bytes
    BY <1>0, <1>1, <2>1, Shorter
  <2> DEFINE stored == [mem[buffer] EXCEPT ![offset + 1] = Head(part)]
  <2>3. stored \in Seq(Bytes) /\ Len(stored) = Len(mem[buffer])
    BY <2>1, <2>2, ExceptSeq
  <2>4. mem' = [mem EXCEPT ![buffer] = stored]
    BY DEF StoreByte
  <2> HIDE DEF stored
  <2>5. mem' \in [Buffers -> Seq(Bytes)] /\ \A b \in Buffers : Len(mem'[b]) = Size[b]
    BY <2>1, <2>3, <2>4 DEF IInv, TypeOK, BufferTypeOK
  <2> QED BY <1>0, <2>1, <2>5 DEF IInv, TypeOK, BufferTypeOK
<1>3. HandoverTypeOK' /\ DrainsMakeRoom'
  BY <1>0 DEF IInv, TypeOK, HandoverTypeOK, DrainsMakeRoom
<1>4. CASE Len(part) > 1
  <2>1. part' = Tail(part) /\ pc' = "push" /\ UNCHANGED <<depth, pending, call, result>>
    BY <1>4 DEF StoreByte
  <2>2. part' \in Seq(Bytes) /\ part' # <<>>
    BY <2>1, <1>1, <1>4, Shorter
  <2>3. CallTypeOK'
    BY <1>0, <2>1, <2>2 DEF IInv, TypeOK, CallTypeOK, check_install
  <2>4. Phases' /\ CallIsPossible' /\ HeldBackAreOpen' /\ NoBufferFullWithASink'
    BY <1>0, <1>1, <2>1, <2>2
    DEF IInv, Phases, CallIsPossible, Busy, HeldBackAreOpen, NoBufferFullWithASink
  <2> QED BY <1>2, <1>3, <2>3, <2>4 DEF IInv, TypeOK
<1>5. CASE Len(part) <= 1 /\ pending # <<>>
  <2>1. /\ pending' = Tail(pending) /\ pc' = "push" /\ UNCHANGED <<depth, call, result>>
        /\ part' = IF Tail(pending) = <<>> THEN call.own
                   ELSE Header(Head(Tail(pending)), T_SEQUENCE_START)
    BY <1>1, <1>5, LenProperties DEF StoreByte, PartDone
  <2>2. /\ Tail(pending) \in Seq(Ids) /\ Len(Tail(pending)) = Len(pending) - 1
        /\ Len(pending) \in Nat
    BY <1>1, <1>5, Shorter
  <2>3. part' \in Seq(Bytes) /\ part' # <<>>
    <3>1. CASE Tail(pending) = <<>>
      BY <1>1, <2>1, <3>1
    <3>2. CASE Tail(pending) # <<>>
      <4>1. Head(Tail(pending)) \in Ids
        BY <2>2, <3>2, Shorter
      <4> DEFINE header == Header(Head(Tail(pending)), T_SEQUENCE_START)
      <4>2. header \in Seq(Bytes) /\ header # <<>>
        <5>1. \A id \in Ids : Header(id, T_SEQUENCE_START) \in Seq(Bytes)
                               /\ Header(id, T_SEQUENCE_START) # <<>>
          BY HeaderTyped DEF T_SEQUENCE_START
        <5> QED BY <4>1, <5>1
      <4>3. part' = header
        BY <2>1, <3>2
      <4> QED BY <4>2, <4>3
    <3> QED BY <3>1, <3>2
  <2>4. CallTypeOK'
    BY <1>0, <2>1, <2>2, <2>3 DEF IInv, TypeOK, CallTypeOK, check_install
  <2>5. HeldBackAreOpen'
    BY <1>1, <2>1, <2>2, StreamAssumption DEF IInv, HeldBackAreOpen
  <2>6. Phases' /\ CallIsPossible' /\ NoBufferFullWithASink'
    BY <1>0, <1>1, <2>1, <2>3 DEF IInv, Phases, CallIsPossible, Busy, NoBufferFullWithASink
  <2> QED BY <1>2, <1>3, <2>4, <2>5, <2>6 DEF IInv, TypeOK
<1>6. CASE Len(part) <= 1 /\ pending = <<>>
  <2>1. /\ depth' = depth + call.gain /\ result' = "Ok" /\ UNCHANGED pending
        /\ pc' = "idle" /\ call' = None /\ part' = <<>>
    BY <1>1, <1>6, LenProperties DEF StoreByte, PartDone
  <2>2. depth' \in 0..MaxDepth
    BY <1>1, <2>1, WidthAssumption
  <2>3. CallTypeOK'
    BY <1>0, <1>1, <2>1, <2>2, EmptySeq DEF IInv, TypeOK, CallTypeOK, check_install
  <2>4. HeldBackAreOpen'
    BY <1>6, <2>1, <2>2, EmptySeq, StreamAssumption DEF HeldBackAreOpen
  <2>5. Phases' /\ CallIsPossible' /\ NoBufferFullWithASink'
    BY <1>0, <1>1, <2>1 DEF Phases, CallIsPossible, Busy, NoBufferFullWithASink
  <2> QED BY <1>2, <1>3, <2>3, <2>4, <2>5 DEF IInv, TypeOK
<1> QED BY <1>1, <1>4, <1>5, <1>6, LenProperties

\* With a sink this step does not occur: a drain always makes room.
LEMMA BufferFullInv == ASSUME IInv, BufferFull PROVE IInv'
<1> USE DEF BufferFull, streamVars
<1>1. pc = "push" /\ ~sinks
  <2>1. offset \in Nat /\ Size[buffer] \in Nat
    BY StreamAssumption DEF IInv, TypeOK, BufferTypeOK
  <2> QED BY <2>1 DEF IInv, Phases
<1>2. BufferTypeOK' /\ HandoverTypeOK'
  BY DEF IInv, TypeOK, BufferTypeOK, HandoverTypeOK
<1>3. CallTypeOK'
  BY EmptySeq DEF IInv, TypeOK, CallTypeOK, check_install
<1>4. Phases' /\ CallIsPossible' /\ DrainsMakeRoom' /\ HeldBackAreOpen' /\ NoBufferFullWithASink'
  BY <1>1 DEF IInv, Phases, CallIsPossible, Busy, DrainsMakeRoom, HeldBackAreOpen,
              NoBufferFullWithASink
<1> QED BY <1>2, <1>3, <1>4 DEF IInv, TypeOK

-----------------------------------------------------------------------------
(* Draining *)

\* Handing a unit over, whatever for, with everything else as it was.
LEMMA HandsOverInv ==
  ASSUME IInv, sinks, NEW goal, HandsOver(goal),
         \/ goal = [is |-> "push"] /\ pc = "push"
         \/ goal = [is |-> "flush"] /\ pc = "idle"
         \/ /\ pc = "idle"
            /\ \E b \in Buffers, off \in Nat :
                 check_install(b, off) /\ goal = [is |-> "swap", buffer |-> b, offset |-> off],
         free' \subseteq Buffers,
         UNCHANGED <<streamVars, mem, next, retired, call, part, result>>
  PROVE  IInv'
<1> USE DEF HandsOver, streamVars
<1>1. BufferTypeOK'
  <2>1. offset \in 0..Size[buffer]
    BY DEF IInv, TypeOK, BufferTypeOK
  <2> QED BY <2>1, StreamTyped, StreamAssumption DEF IInv, TypeOK, BufferTypeOK
<1>2. HandoverTypeOK'
  BY DEF IInv, TypeOK, HandoverTypeOK
<1>3. \/ then' \in {None} \cup [is : {"push", "flush"}]
      \/ /\ then' \in [is : {"swap"}, buffer : Buffers, offset : Nat]
         /\ check_install(then'.buffer, then'.offset)
  OBVIOUS
<1>4. CallTypeOK'
  BY <1>3 DEF IInv, TypeOK, CallTypeOK, check_install
<1>5. then' # None /\ (then'.is = "push" <=> pc = "push") /\ pc \in {"push", "idle"}
  BY DEF None
<1>6. Phases'
  BY <1>5 DEF IInv, Phases, Busy
<1>7. CallIsPossible' /\ DrainsMakeRoom' /\ HeldBackAreOpen' /\ NoBufferFullWithASink'
  BY DEF IInv, CallIsPossible, Busy, DrainsMakeRoom, HeldBackAreOpen, NoBufferFullWithASink
<1> QED BY <1>1, <1>2, <1>4, <1>6, <1>7 DEF IInv, TypeOK

\* The replacement in the channel, when there is one, has room for a byte.
LEMMA NextFits ==
  ASSUME HandoverTypeOK, next # None
  PROVE  /\ next.buffer \in Buffers /\ next.offset \in Nat
         /\ next.offset < Size[next.buffer] /\ Size[next.buffer] \in Nat
BY StreamAssumption DEF HandoverTypeOK

\* Writing resumes in a buffer with room at the cursor, and the channel is empty
\* or as it was.
LEMMA ResumesInv ==
  ASSUME IInv, pc = "sink", then' = None,
         buffer' \in Buffers, offset' \in 0..Size[buffer'], offset' < Size[buffer'],
         room' \in 0..offset', next' \in {None, next},
         retired' \in {retired, [is |-> "buffer", buffer |-> buffer]},
         pc' = IF then.is = "push" THEN "store" ELSE "idle",
         UNCHANGED <<sinks, takes, mem, depth, pending, call, part, result, free, emitted>>
  PROVE  IInv'
<1>0. Size[buffer'] \in Nat /\ buffer \in Buffers
  BY StreamAssumption DEF IInv, TypeOK, BufferTypeOK
<1>1. BufferTypeOK'
  BY DEF IInv, TypeOK, BufferTypeOK
<1>2. HandoverTypeOK'
  BY <1>0 DEF IInv, TypeOK, HandoverTypeOK
<1>3. CallTypeOK'
  BY DEF IInv, TypeOK, CallTypeOK
<1>4. Phases' /\ DrainsMakeRoom'
  BY <1>0 DEF IInv, Phases, Busy, DrainsMakeRoom
<1>5. CallIsPossible' /\ HeldBackAreOpen' /\ NoBufferFullWithASink'
  BY DEF IInv, CallIsPossible, Busy, HeldBackAreOpen, NoBufferFullWithASink
<1> QED BY <1>1, <1>2, <1>3, <1>4, <1>5 DEF IInv, TypeOK

\* Draining, and the sink's return, keep it.
LEMMA DrainsInv ==
  ASSUME IInv, DrainsWhenFull \/ flush \/ SinkReturns \/ SwapReturns
  PROVE  IInv'
<1>1. CASE DrainsWhenFull
  <2>1. free' \subseteq Buffers
    BY <1>1 DEF DrainsWhenFull, IInv, TypeOK, BufferTypeOK
  <2> QED BY <1>1, <2>1, HandsOverInv DEF DrainsWhenFull
<1>2. CASE flush
  <2>1. free' \subseteq Buffers
    BY <1>2 DEF flush, IInv, TypeOK, BufferTypeOK
  <2> QED BY <1>2, <2>1, HandsOverInv DEF flush
<1>3. CASE SinkReturns
  <2>1. CASE takes /\ next # None
    <3>1. /\ buffer' = next.buffer /\ offset' = next.offset /\ room' = next.offset
          /\ retired' = [is |-> "buffer", buffer |-> buffer] /\ next' = None
      BY <1>3, <2>1 DEF SinkReturns, Returns
    <3>2. /\ next.buffer \in Buffers /\ next.offset \in Nat
          /\ next.offset < Size[next.buffer] /\ Size[next.buffer] \in Nat
      BY <2>1, NextFits DEF IInv, TypeOK
    <3>3. offset' \in 0..Size[buffer'] /\ room' \in 0..offset'
      BY <3>1, <3>2
    <3> QED BY <1>3, <3>1, <3>2, <3>3, ResumesInv DEF SinkReturns
  <2>2. CASE ~(takes /\ next # None)
    <3>1. offset' = 0 /\ room' = 0 /\ UNCHANGED <<buffer, next, retired>>
      BY <1>3, <2>2 DEF SinkReturns, Returns
    <3>2. buffer' \in Buffers /\ Size[buffer'] \in Nat /\ Size[buffer'] > 0
      BY <1>3, <3>1, StreamAssumption
      DEF SinkReturns, IInv, Phases, DrainsMakeRoom, TypeOK, BufferTypeOK
    <3>3. offset' \in 0..Size[buffer'] /\ room' \in 0..offset' /\ offset' < Size[buffer']
      BY <3>1, <3>2
    <3> QED BY <1>3, <3>1, <3>2, <3>3, ResumesInv DEF SinkReturns
  <2> QED BY <2>1, <2>2
<1>4. CASE SwapReturns
  <2>1. /\ buffer' = then.buffer /\ offset' = then.offset /\ room' = then.offset
        /\ then.is = "swap" /\ pc = "sink"
    BY <1>4 DEF SwapReturns
  <2>2. then.buffer \in Buffers /\ then.offset \in Nat /\ check_install(then.buffer, then.offset)
    BY <2>1 DEF IInv, TypeOK, CallTypeOK, None
  <2>3. Size[buffer'] \in Nat /\ offset' < Size[buffer'] /\ offset' \in Nat
    BY <2>1, <2>2, StreamAssumption DEF check_install, MIN_OUTPUT_BUFFER, IInv, Phases
  <2>4. offset' \in 0..Size[buffer'] /\ room' \in 0..offset'
    BY <2>1, <2>3
  <2>5. next' \in {None, next} /\ retired' \in {retired, [is |-> "buffer", buffer |-> buffer]}
    BY <1>4 DEF SwapReturns
  <2>6. pc' = IF then.is = "push" THEN "store" ELSE "idle"
    BY <1>4 DEF SwapReturns
  <2> QED BY <1>4, <2>1, <2>2, <2>3, <2>4, <2>5, <2>6, ResumesInv DEF SwapReturns
<1> QED BY <1>1, <1>2, <1>3, <1>4

-----------------------------------------------------------------------------
(* Installations *)

\* Swapping the buffer keeps it.
LEMMA BufferSetInv ==
  ASSUME IInv, NEW b \in free, NEW off \in Offsets, buffer_set(b, off)
  PROVE  IInv'
<1>0. /\ b \in Buffers /\ off \in Nat /\ Size[b] \in Nat /\ free' \subseteq Buffers /\ pc = "idle"
      /\ UNCHANGED <<sinks, takes, depth, pending, mem, next, retired, call, part, result>>
  BY StreamAssumption DEF buffer_set, IInv, TypeOK, BufferTypeOK
<1>1. CASE check_install(b, off) /\ sinks /\ offset > 0
  <2>1. HandsOver([is |-> "swap", buffer |-> b, offset |-> off]) /\ UNCHANGED <<buffer, offset>>
    BY <1>1 DEF buffer_set
  <2> QED BY <1>0, <1>1, <2>1, HandsOverInv DEF streamVars
<1>2. CASE check_install(b, off) /\ ~(sinks /\ offset > 0)
  <2>1. /\ emitted' = Stream /\ buffer' = b /\ offset' = off /\ room' = off
        /\ UNCHANGED <<pc, then>>
    BY <1>2 DEF buffer_set
  <2>2. BufferTypeOK'
    <3>1. off <= Size[b]
      BY <1>2 DEF check_install
    <3> QED BY <1>0, <2>1, <3>1, StreamTyped DEF IInv, TypeOK, BufferTypeOK
  <2>3. HandoverTypeOK' /\ CallTypeOK'
    BY <1>0, <2>1 DEF IInv, TypeOK, HandoverTypeOK, CallTypeOK, check_install
  <2>4. Phases' /\ CallIsPossible' /\ HeldBackAreOpen' /\ NoBufferFullWithASink'
    BY <1>0, <2>1
    DEF IInv, Phases, CallIsPossible, Busy, HeldBackAreOpen, NoBufferFullWithASink
  <2>5. DrainsMakeRoom'
    BY <1>0, <1>2, <2>1 DEF check_install, MIN_OUTPUT_BUFFER, DrainsMakeRoom
  <2> QED BY <2>2, <2>3, <2>4, <2>5 DEF IInv, TypeOK
<1>3. CASE ~check_install(b, off)
  <2>1. UNCHANGED <<buffer, offset, room, emitted, pc, then>>
    BY <1>3 DEF buffer_set
  <2>2. BufferTypeOK' /\ HandoverTypeOK' /\ CallTypeOK'
    BY <1>0, <2>1 DEF IInv, TypeOK, BufferTypeOK, HandoverTypeOK, CallTypeOK, check_install
  <2>3. /\ Phases' /\ CallIsPossible' /\ HeldBackAreOpen' /\ NoBufferFullWithASink'
        /\ DrainsMakeRoom'
    BY <1>0, <2>1 DEF IInv, Phases, CallIsPossible, Busy, HeldBackAreOpen,
                      NoBufferFullWithASink, DrainsMakeRoom
  <2> QED BY <2>2, <2>3 DEF IInv, TypeOK
<1> QED BY <1>1, <1>2, <1>3

\* install and taken change the channel and the pool, and nothing else.
LEMMA HandoverInv ==
  ASSUME IInv, taken \/ \E b \in free, off \in Offsets : install(b, off)
  PROVE  IInv'
<1>1. /\ free' \subseteq Buffers
      /\ UNCHANGED <<streamVars, mem, doingVars, result, room, emitted>>
  <2>1. CASE taken
    <3>1. retired.buffer \in Buffers
      BY <2>1 DEF taken, IInv, TypeOK, HandoverTypeOK
    <3> QED BY <2>1, <3>1 DEF taken, IInv, TypeOK, BufferTypeOK
  <2>2. CASE \E b \in free, off \in Offsets : install(b, off)
    BY <2>2 DEF install, IInv, TypeOK, BufferTypeOK
  <2> QED BY <2>1, <2>2
<1>2. HandoverTypeOK'
  <2>1. CASE taken
    BY <2>1 DEF taken, IInv, TypeOK, HandoverTypeOK
  <2>2. ASSUME NEW b \in free, NEW off \in Offsets, install(b, off) PROVE HandoverTypeOK'
    <3>1. b \in Buffers /\ off \in Nat /\ Size[b] \in Nat
      BY StreamAssumption DEF IInv, TypeOK, BufferTypeOK
    <3>2. retired' = retired
      BY <2>2 DEF install
    <3>3. CASE off < Size[b]
      <4>1. next' = [is |-> "buffer", buffer |-> b, offset |-> off]
        BY <2>2, <3>1, <3>3 DEF install, MIN_OUTPUT_BUFFER
      <4> QED BY <3>1, <3>2, <3>3, <4>1 DEF IInv, TypeOK, HandoverTypeOK
    <3>4. CASE ~(off < Size[b])
      <4>1. next' = next
        BY <2>2, <3>1, <3>4 DEF install, MIN_OUTPUT_BUFFER
      <4> QED BY <3>2, <4>1 DEF IInv, TypeOK, HandoverTypeOK
    <3> QED BY <3>3, <3>4
  <2> QED BY <2>1, <2>2
<1>3. BufferTypeOK' /\ CallTypeOK'
  BY <1>1 DEF streamVars, doingVars, IInv, TypeOK, BufferTypeOK, CallTypeOK, check_install
<1>4. /\ Phases' /\ CallIsPossible' /\ HeldBackAreOpen' /\ NoBufferFullWithASink'
      /\ DrainsMakeRoom'
  BY <1>1 DEF streamVars, doingVars, IInv, Phases, CallIsPossible, Busy, HeldBackAreOpen,
              NoBufferFullWithASink, DrainsMakeRoom
<1> QED BY <1>2, <1>3, <1>4 DEF IInv, TypeOK

-----------------------------------------------------------------------------
(* Invariance *)

\* Every step keeps it.
LEMMA NextInv == IInv /\ [Next]_vars => IInv'
<1> SUFFICES ASSUME IInv, [Next]_vars PROVE IInv'
  OBVIOUS
<1>1. CASE WritesField \/ BeginsSequence \/ EndsSequence \/ Refused
  BY <1>1, WritesInv
<1>2. CASE Pushes
  BY <1>2, StoreByteInv, BufferFullInv, DrainsInv DEF Pushes
<1>3. CASE Drains
  BY <1>3, DrainsInv DEF Drains
<1>4. CASE Installs
  BY <1>4, BufferSetInv, HandoverInv DEF Installs
<1>5. CASE taken
  BY <1>5, HandoverInv
<1>6. CASE UNCHANGED vars
  <2>1. BufferTypeOK' /\ HandoverTypeOK' /\ CallTypeOK'
    BY <1>6 DEF vars, streamVars, doingVars, IInv, TypeOK, BufferTypeOK, HandoverTypeOK,
                CallTypeOK, check_install
  <2>2. /\ Phases' /\ CallIsPossible' /\ HeldBackAreOpen' /\ NoBufferFullWithASink'
        /\ DrainsMakeRoom'
    BY <1>6 DEF vars, streamVars, doingVars, IInv, Phases, CallIsPossible, Busy,
                HeldBackAreOpen, NoBufferFullWithASink, DrainsMakeRoom
  <2> QED BY <2>1, <2>2 DEF IInv, TypeOK
<1> QED BY <1>1, <1>2, <1>3, <1>4, <1>5, <1>6 DEF Next

\* It always holds.
LEMMA Invariance == Spec => []IInv
BY InitInv, NextInv, PTL DEF Spec

\* Every variable of the encoder stays in its type: in particular the cursor
\* stays inside the active buffer, which is what the clamp in `drain` and the
\* checked store in `push_byte` of ostream.rs are there for.
THEOREM TypeCorrect == Spec => []TypeOK
<1>1. IInv => TypeOK
  BY DEF IInv
<1> QED BY <1>1, Invariance, PTL

\* The held-back headers are a run of open sequences that fits the window,
\* whatever the order of writes, cuts and drains: `npending` of ostream.rs
\* never counts a sequence that is not open.
THEOREM HeldBackAlwaysOpen == Spec => []HeldBackAreOpen
<1>1. IInv => HeldBackAreOpen
  BY DEF IInv
<1> QED BY <1>1, Invariance, PTL

\* An encoder with a sink never reports BufferFull, however small its buffers
\* and whatever its sink installs: the checks at the installations are enough.
THEOREM NeverFullWithASink == Spec => []NoBufferFullWithASink
<1>1. IInv => NoBufferFullWithASink
  BY DEF IInv
<1> QED BY <1>1, Invariance, PTL

-----------------------------------------------------------------------------
(* The encoder implements MessageWriter: each of its steps is one the promise
   allows, or none its caller can see *)

-----------------------------------------------------------------------------
(* What a run of held-back headers is *)

\* The header of one held-back sequence, those of a run, and the first n of them.
Opening(id) == Header(id, T_SEQUENCE_START)
Openings(ids) == [i \in 1..Len(ids) |-> Opening(ids[i])]
Upto(ids) == Prefixes(Openings(ids))
Framed(ids, n) == Promise!Framing(SubSeq(ids, 1, n))

\* The headers of held-back sequences, prefix by prefix.
LEMMA FramingIs ==
  ASSUME NEW ids, Len(ids) \in Nat
  PROVE  Promise!Framing(ids) = Upto(ids)[Len(ids)]
<1>1. Promise!Framing(ids) = Concatenated(Openings(ids))
  BY DEF Promise!Framing, Promise!Each, Promise!Concatenated, Concatenated, Openings, Opening,
     Promise!Header, Header, Promise!VarintOf, VarintOf, Promise!Unsigned, Unsigned,
     Promise!VarintByte, VarintByte, Promise!T_SEQUENCE_START, T_SEQUENCE_START
<1>2. Len(Openings(ids)) = Len(ids)
  BY DEF Openings
<1> QED BY <1>1, <1>2, ConcatenatedIs DEF Upto

\* Each prefix is one header more.
LEMMA UptoIs ==
  ASSUME NEW ids, Len(ids) \in Nat
  PROVE  /\ Upto(ids)[0] = <<>>
         /\ \A n \in 1..Len(ids) : Upto(ids)[n] = Upto(ids)[n - 1] \o Opening(ids[n])
<1>1. Len(Openings(ids)) = Len(ids) /\ \A n \in 1..Len(ids) : Openings(ids)[n] = Opening(ids[n])
  BY DEF Openings
<1> QED BY <1>1, ConcatenatedIs DEF Upto

\* The first n of a run are what the recursion over the whole run has at n.
LEMMA FramedIsUpto ==
  ASSUME NEW ids \in Seq(Ids), NEW m \in 0..Len(ids)
  PROVE  Framed(ids, m) = Upto(ids)[m]
<1> DEFINE s == SubSeq(ids, 1, m)
           S == {n \in Nat : n <= m => Upto(s)[n] = Upto(ids)[n]}
<1>1. Len(ids) \in Nat /\ Len(s) = m /\ \A i \in 1..m : s[i] = ids[i]
  <2>1. Len(ids) \in Nat /\ \A i \in 1..m : ids[i] \in Ids
    BY LenProperties, ElementOfSeq
  <2>2. /\ Len(s) = IF 1 <= m THEN m - 1 + 1 ELSE 0
        /\ \A i \in 1..(m - 1 + 1) : s[i] = ids[1 + i - 1]
    BY <2>1, SubSeqProperties
  <2> QED BY <2>1, <2>2
<1> HIDE DEF s
<1>2. /\ Upto(s)[0] = <<>> /\ Upto(ids)[0] = <<>>
      /\ \A n \in 1..m : Upto(s)[n] = Upto(s)[n - 1] \o Opening(s[n])
      /\ \A n \in 1..m : Upto(ids)[n] = Upto(ids)[n - 1] \o Opening(ids[n])
  <2>1. m \in Nat /\ Len(s) \in Nat /\ \A n \in 1..m : n \in 1..Len(ids)
    BY <1>1
  <2>2. Upto(s)[0] = <<>> /\ \A n \in 1..m : Upto(s)[n] = Upto(s)[n - 1] \o Opening(s[n])
    BY <1>1, <2>1, UptoIs
  <2>3. /\ Upto(ids)[0] = <<>>
        /\ \A n \in 1..Len(ids) : Upto(ids)[n] = Upto(ids)[n - 1] \o Opening(ids[n])
    BY <1>1, UptoIs
  <2> QED BY <2>1, <2>2, <2>3
<1>3. 0 \in S
  BY <1>2
<1>4. ASSUME NEW n \in Nat, n \in S PROVE n + 1 \in S
  <2>1. CASE n + 1 <= m
    <3>1. Upto(s)[n] = Upto(ids)[n]
      BY <1>4, <2>1
    <3>2. n + 1 \in 1..m /\ (n + 1) - 1 = n /\ s[n + 1] = ids[n + 1]
      BY <1>1, <2>1
    <3>3. Upto(s)[n + 1] = Upto(ids)[n + 1]
      BY <1>2, <3>1, <3>2
    <3> QED BY <3>3
  <2>2. CASE ~(n + 1 <= m)
    BY <2>2
  <2> QED BY <2>1, <2>2
<1> HIDE DEF S
<1>5. m \in S
  BY <1>3, <1>4, Induction
<1>6. Upto(s)[m] = Upto(ids)[m]
  BY <1>5 DEF S
<1>7. Promise!Framing(s) = Upto(s)[m]
  BY <1>1, FramingIs
<1> QED BY <1>6, <1>7 DEF Framed, s

\* A run is its headers, outermost first.
LEMMA FramedIs ==
  ASSUME NEW ids \in Seq(Ids)
  PROVE  /\ Len(ids) \in Nat
         /\ Framed(ids, 0) = <<>>
         /\ \A n \in 1..Len(ids) : /\ ids[n] \in Ids
                                   /\ Opening(ids[n]) \in Seq(Bytes) /\ Opening(ids[n]) # <<>>
                                   /\ Framed(ids, n) = Framed(ids, n - 1) \o Opening(ids[n])
         /\ Framed(ids, Len(ids)) = Promise!Framing(ids)
         /\ \A n \in 0..Len(ids) : Framed(ids, n) \in Seq(Bytes)
<1>1. Len(ids) \in Nat
  BY LenProperties
<1>2. /\ Framed(ids, 0) = <<>>
      /\ \A n \in 1..Len(ids) : Framed(ids, n) = Framed(ids, n - 1) \o Opening(ids[n])
  <2>1. \A n \in 1..Len(ids) : n \in 0..Len(ids) /\ n - 1 \in 0..Len(ids)
    BY <1>1
  <2>2. 0 \in 0..Len(ids)
    BY <1>1
  <2> QED BY <1>1, <2>1, <2>2, FramedIsUpto, UptoIs
<1>3. Framed(ids, Len(ids)) = Promise!Framing(ids)
  BY SubSeqFull DEF Framed
<1>4. \A n \in 1..Len(ids) :
        ids[n] \in Ids /\ Opening(ids[n]) \in Seq(Bytes) /\ Opening(ids[n]) # <<>>
  <2>1. \A id \in Ids : Opening(id) \in Seq(Bytes) /\ Opening(id) # <<>>
    BY HeaderTyped DEF Opening, T_SEQUENCE_START
  <2> QED BY <2>1, ElementOfSeq
<1>5. \A n \in 0..Len(ids) : Framed(ids, n) \in Seq(Bytes)
  <2> DEFINE S == {n \in Nat : n <= Len(ids) => Framed(ids, n) \in Seq(Bytes)}
  <2>1. 0 \in S
    BY <1>2, EmptySeq
  <2>2. ASSUME NEW n \in Nat, n \in S PROVE n + 1 \in S
    <3> SUFFICES ASSUME n + 1 <= Len(ids) PROVE Framed(ids, n + 1) \in Seq(Bytes)
      OBVIOUS
    <3>1. n + 1 \in 1..Len(ids) /\ (n + 1) - 1 = n /\ Framed(ids, n) \in Seq(Bytes)
      BY <1>1, <2>2
    <3>2. Opening(ids[n + 1]) \in Seq(Bytes)
      BY <1>4, <3>1
    <3>3. Framed(ids, n + 1) = Framed(ids, n) \o Opening(ids[n + 1])
      BY <1>2, <3>1
    <3>4. Framed(ids, n) \o Opening(ids[n + 1]) \in Seq(Bytes)
      BY <3>1, <3>2, ConcatProperties
    <3> QED BY <3>3, <3>4
  <2> HIDE DEF S
  <2>3. Nat \subseteq S
    BY <2>1, <2>2, Induction
  <2> QED BY <1>1, <2>3 DEF S
<1> QED BY <1>1, <1>2, <1>3, <1>4, <1>5

\* The headers that are out are the first bytes of the run.
LEMMA FramedFirst ==
  ASSUME NEW ids \in Seq(Ids), NEW k \in 0..Len(ids)
  PROVE  \E rest \in Seq(Bytes) : Promise!Framing(ids) = Framed(ids, k) \o rest
<1> DEFINE S == {n \in Nat : k + n <= Len(ids) =>
                   \E rest \in Seq(Bytes) : Framed(ids, k + n) = Framed(ids, k) \o rest}
<1>1. 0 \in S
  <2>1. Framed(ids, k + 0) = Framed(ids, k) \o <<>> /\ <<>> \in Seq(Bytes)
    BY FramedIs, ConcatEmptySeq, EmptySeq
  <2> QED BY <2>1
<1>2. ASSUME NEW n \in Nat, n \in S PROVE n + 1 \in S
  <2> SUFFICES ASSUME k + (n + 1) <= Len(ids)
               PROVE  \E rest \in Seq(Bytes) : Framed(ids, k + (n + 1)) = Framed(ids, k) \o rest
    OBVIOUS
  <2>0. /\ k + n <= Len(ids) /\ k + (n + 1) \in 1..Len(ids) /\ (k + (n + 1)) - 1 = k + n
    BY FramedIs
  <2>1. PICK rest \in Seq(Bytes) : Framed(ids, k + n) = Framed(ids, k) \o rest
    BY <1>2, <2>0
  <2> DEFINE next1 == Opening(ids[k + (n + 1)])
  <2>2. /\ next1 \in Seq(Bytes) /\ Framed(ids, k) \in Seq(Bytes)
        /\ Framed(ids, k + (n + 1)) = Framed(ids, k + n) \o next1
    BY <2>0, FramedIs
  <2> HIDE DEF next1
  <2>3. (Framed(ids, k) \o rest) \o next1 = Framed(ids, k) \o (rest \o next1)
    BY <2>2, Assoc, Zenon
  <2>4. rest \o next1 \in Seq(Bytes)
    BY <2>2, ConcatProperties
  <2> QED BY <2>1, <2>2, <2>3, <2>4
<1> HIDE DEF S
<1>3. Nat \subseteq S
  BY <1>1, <1>2, Induction
<1>4. Len(ids) \in Nat /\ Len(ids) - k \in Nat /\ k + (Len(ids) - k) = Len(ids)
  BY FramedIs
<1>5. Len(ids) - k \in S
  BY <1>3, <1>4
<1>6. \E rest \in Seq(Bytes) : Framed(ids, Len(ids)) = Framed(ids, k) \o rest
  BY <1>4, <1>5 DEF S
<1> QED BY <1>6, FramedIs
-----------------------------------------------------------------------------
(* A write in progress *)

\* A call that has begun is one the promise knows.
CallIsLegal ==
  Busy =>
    \/ call.gain = 0 /\ \E field \in FieldInputs : field.id \in Ids /\ call.own = FieldBytes(field)
    \/ /\ call.gain = 1 /\ depth < MaxDepth /\ Len(call.pending) >= LAZY_SEQ_DEPTH
       /\ \E id \in SequenceIds \cap Ids : call.own = Header(id, T_SEQUENCE_START)
    \/ call.gain = -1 /\ depth > 0 /\ call.own = Header(0, T_SEQUENCE_END)

\* What has come out since the call began: the first headers of the run it found,
\* and of the next header, or of its own bytes, all that is not in `part`.
Progress ==
  Busy =>
    \E k \in 0..Len(call.pending), base \in Seq(Bytes), done \in Seq(Bytes) :
      /\ pending = SubSeq(call.pending, k + 1, Len(call.pending))
      /\ Len(base) = call.size
      /\ Stream = base \o (Framed(call.pending, k) \o done)
      /\ done \o part = IF k = Len(call.pending) THEN call.own ELSE Opening(call.pending[k + 1])

\* A sink has been handed all there is.
AllHandedOver == pc = "sink" => room = offset

PInv == CallIsLegal /\ Progress /\ AllHandedOver

\* What is still held back when k headers of a run are out.
LEMMA RunLeft ==
  ASSUME NEW ids \in Seq(Ids), NEW k \in 0..Len(ids)
  PROVE  LET left == SubSeq(ids, k + 1, Len(ids))
         IN /\ k = Len(ids) => left = <<>>
            /\ k < Len(ids) => left # <<>> /\ Tail(left) = SubSeq(ids, k + 2, Len(ids))
                                 /\ Head(left) = ids[k + 1]
<1> DEFINE left == SubSeq(ids, k + 1, Len(ids))
<1>0. Len(ids) \in Nat /\ k \in Nat
  BY LenProperties
<1>1. ASSUME k = Len(ids) PROVE left = <<>>
  <2>1. k + 1 \in Int /\ Len(ids) \in Int /\ Len(ids) < k + 1
    BY <1>0, <1>1
  <2> QED BY <2>1, SubSeqEmpty
<1>2. ASSUME k < Len(ids)
      PROVE  left # <<>> /\ Tail(left) = SubSeq(ids, k + 2, Len(ids)) /\ Head(left) = ids[k + 1]
  <2>1. k + 1 \in 1..Len(ids) /\ Len(ids) \in (k + 1)..Len(ids) /\ (k + 1) + 1 = k + 2
    BY <1>0, <1>2
  <2>2. Head(left) = ids[k + 1] /\ Tail(left) = SubSeq(ids, (k + 1) + 1, Len(ids))
    BY <2>1, HeadTailOfSubSeq
  <2>3. \A i \in (k + 1)..Len(ids) : ids[i] \in Ids
    BY <1>0, ElementOfSeq
  <2>4. Len(left) = Len(ids) - (k + 1) + 1
    BY <1>0, <2>1, <2>3, SubSeqProperties
  <2>5. left # <<>>
    <3>1. Len(<<>>) = 0
      BY EmptySeq
    <3>2. Len(left) > 0
      BY <1>0, <1>2, <2>4
    <3> HIDE DEF left
    <3> QED BY <3>1, <3>2
  <2> QED BY <2>1, <2>2, <2>5
<1> QED BY <1>1, <1>2

\* The first of two runs of bytes, cut out again.
LEMMA FirstPart ==
  \A s, t \in Seq(Bytes) : SubSeq(s \o t, 1, Len(s)) = s
<1> TAKE s, t \in Seq(Bytes)
<1>0. Len(s) \in Nat
  BY LenProperties
<1>1. CASE s = <<>>
  <2>1. Len(s) = 0
    BY <1>1, EmptySeq
  <2> QED BY <1>1, <2>1, SubSeqEmpty
<1>2. CASE s # <<>>
  <2>1. 1 \in 1..Len(s) /\ Len(s) \in 1..Len(s)
    BY <1>0, <1>2, EmptySeq
  <2>2. SubSeq(s \o t, 1, Len(s)) = SubSeq(s, 1, Len(s))
    BY <2>1, SubSeqOfConcat1
  <2> QED BY <2>2, SubSeqFull
<1> QED BY <1>1, <1>2

\* What the caller has been told of the message does not change while a call runs.
LEMMA SentIs ==
  ASSUME NEW base \in Seq(Bytes), NEW gone \in Seq(Bytes)
  PROVE  /\ Busy /\ Len(base) = call.size /\ Stream = base \o gone => Sent = base
         /\ (Busy /\ Len(base) = call.size /\ Stream = base \o gone => Sent = base)'
<1>1. SubSeq(base \o gone, 1, Len(base)) = base
  BY FirstPart
<1> QED BY <1>1 DEF Sent

\* Right after a drain or an installation the message is what was handed over.
LEMMA StreamEmptied ==
  ASSUME room' = offset', offset' \in Nat, emitted' \in Seq(Bytes)
  PROVE  Stream' = emitted'
<1>1. SubSeq(mem'[buffer'], room' + 1, offset') = <<>>
  <2>1. ASSUME NEW m \in Nat PROVE SubSeq(mem'[buffer'], m + 1, m) = <<>>
    BY SubSeqEmpty
  <2> QED BY <2>1
<1> QED BY <1>1, ConcatEmptySeq DEF Stream

\* While the sink has the buffer, all that came out has been handed over.
LEMMA StreamHandedOver == ASSUME IInv, AllHandedOver, pc = "sink" PROVE Stream = emitted
<1>1. room = offset /\ offset \in Nat /\ emitted \in Seq(Bytes)
  BY StreamAssumption DEF AllHandedOver, IInv, TypeOK, BufferTypeOK
<1>2. SubSeq(mem[buffer], room + 1, offset) = <<>>
  BY <1>1, SubSeqEmpty
<1> QED BY <1>1, <1>2, ConcatEmptySeq DEF Stream

\* A byte that is stored comes out.
LEMMA StreamStored == ASSUME IInv, StoreByte PROVE Stream' = Stream \o <<Head(part)>>
<1>1. /\ offset \in 0..Size[buffer] /\ Size[buffer] \in Nat /\ buffer \in Buffers
      /\ mem[buffer] \in Seq(Bytes) /\ Len(mem[buffer]) = Size[buffer]
      /\ room \in 0..offset /\ emitted \in Seq(Bytes) /\ offset < Size[buffer]
      /\ offset' = offset + 1 /\ UNCHANGED <<buffer, room, emitted>>
  BY StreamAssumption DEF IInv, TypeOK, BufferTypeOK, StoreByte
<1>2. Head(part) \in Bytes
  <2>1. part \in Seq(Bytes) /\ part # <<>>
    BY DEF StoreByte, IInv, TypeOK, CallTypeOK, Phases, CallIsPossible
  <2> QED BY <2>1, Shorter
<1> DEFINE was == mem[buffer]
           is == [was EXCEPT ![offset + 1] = Head(part)]
<1>3. /\ is \in Seq(Bytes) /\ Len(is) = Len(was)
      /\ \A j \in 1..Len(was) : is[j] = IF j = offset + 1 THEN Head(part) ELSE was[j]
  <2>1. offset + 1 \in 1..Len(was)
    BY <1>1
  <2> QED BY <1>1, <1>2, <2>1, ExceptSeq
<1>4. mem'[buffer'] = is
  <2>1. mem' = [mem EXCEPT ![buffer] = is]
    BY DEF StoreByte
  <2>2. mem \in [Buffers -> Seq(Bytes)]
    BY DEF IInv, TypeOK, BufferTypeOK
  <2> HIDE DEF is, was
  <2> QED BY <1>1, <2>1, <2>2
<1> HIDE DEF was, is
<1>5. SubSeq(is, room + 1, offset + 1) = SubSeq(is, room + 1, offset) \o <<is[offset + 1]>>
  <2>1. room + 1 \in 1..Len(is) /\ offset + 1 \in (room + 1)..Len(is) /\ (offset + 1) - 1 = offset
    BY <1>1, <1>3 DEF was
  <2> QED BY <1>3, <2>1, SubSeqRecursiveSecond
<1>6. SubSeq(is, room + 1, offset) = SubSeq(was, room + 1, offset)
      /\ SubSeq(was, room + 1, offset) \in Seq(Bytes)
  <2>1. \A i \in (room + 1)..offset : is[i] = was[i] /\ was[i] \in Bytes
    BY <1>1, <1>3, ElementOfSeq DEF was
  <2>2. room + 1 \in Int /\ offset \in Int
    BY <1>1
  <2>3. /\ SubSeq(is, room + 1, offset) \in Seq(Bytes)
        /\ SubSeq(was, room + 1, offset) \in Seq(Bytes)
        /\ Len(SubSeq(is, room + 1, offset)) = Len(SubSeq(was, room + 1, offset))
        /\ Len(SubSeq(is, room + 1, offset))
             = IF room + 1 <= offset THEN offset - (room + 1) + 1 ELSE 0
        /\ \A i \in 1..(offset - (room + 1) + 1) :
             /\ SubSeq(is, room + 1, offset)[i] = is[(room + 1) + i - 1]
             /\ SubSeq(was, room + 1, offset)[i] = was[(room + 1) + i - 1]
    BY <2>1, <2>2, SubSeqProperties
  <2>4. \A i \in 1..Len(SubSeq(is, room + 1, offset)) :
          SubSeq(is, room + 1, offset)[i] = SubSeq(was, room + 1, offset)[i]
    <3>1. \A i \in 1..Len(SubSeq(is, room + 1, offset)) :
            /\ i \in 1..(offset - (room + 1) + 1)
            /\ (room + 1) + i - 1 \in (room + 1)..offset
      BY <1>1, <2>3
    <3> QED BY <2>1, <2>3, <3>1
  <2> QED BY <2>3, <2>4, SeqEqual
<1>7. is[offset + 1] = Head(part)
  BY <1>1, <1>3 DEF was
<1>8. <<Head(part)>> \in Seq(Bytes)
  BY <1>2
<1>9. Stream' = emitted \o (SubSeq(was, room + 1, offset) \o <<Head(part)>>)
  BY <1>1, <1>4, <1>5, <1>6, <1>7 DEF Stream
<1>10. (emitted \o SubSeq(was, room + 1, offset)) \o <<Head(part)>>
         = emitted \o (SubSeq(was, room + 1, offset) \o <<Head(part)>>)
  <2>1. emitted \in Seq(Bytes) /\ SubSeq(was, room + 1, offset) \in Seq(Bytes)
    BY <1>1, <1>6
  <2> QED BY <1>8, <2>1, Assoc, Zenon
<1> QED BY <1>9, <1>10 DEF Stream, was
-----------------------------------------------------------------------------
(* Writes begin *)

\* The promise is made in the vocabulary of the same encodings.
LEMMA SameHeaders == \A id, type : Promise!Header(id, type) = Header(id, type)
BY DEF Promise!Header, Header, Promise!VarintOf, VarintOf, Promise!Unsigned, Unsigned,
       Promise!VarintByte, VarintByte

\* The promise is about the fields of the encoder.
LEMMA SameFields == \A field : Promise!FieldBytes(field) = FieldBytes(field)
BY SameHeaders
DEF Promise!FieldBytes, FieldBytes, Promise!Body, Body, Promise!TypeOf, TypeOf,
    Promise!FloatArray, FloatArray, Promise!Fixlen, Fixlen,
    Promise!FixlenWordOf, FixlenWordOf, Promise!Each, Each, Promise!LeBytes, LeBytes,
    Promise!Concatenated, Concatenated, Promise!CountOf, CountOf,
    Promise!VarintOf, VarintOf, Promise!Unsigned, Unsigned, Promise!VarintByte, VarintByte,
    Promise!FixlenWriter, FixlenWriter, Promise!FixlenCode, FixlenCode, Promise!Width, Width,
    Promise!zigzag_encode, zigzag_encode, Promise!ByteBits, ByteBits,
    Promise!T_VARINT_UNSIGNED, T_VARINT_UNSIGNED, Promise!T_VARINT_SIGNED, T_VARINT_SIGNED,
    Promise!T_FIXLEN, T_FIXLEN, Promise!T_FIXLENARRAY, T_FIXLENARRAY,
    Promise!T_VARINTARRAY_UNSIGNED, T_VARINTARRAY_UNSIGNED,
    Promise!T_VARINTARRAY_SIGNED, T_VARINTARRAY_SIGNED

\* A write that begins has told its caller nothing yet.
LEMMA BeginsKeeps ==
  ASSUME IInv, PInv, NEW own \in Seq(Bytes), NEW gain, Begins(own, gain)
  PROVE  Progress' /\ AllHandedOver' /\ UNCHANGED <<Sent, Held, depth, result, sinks>>
<1> USE DEF Begins, streamVars
<1>1. ~Busy /\ Busy' /\ call'.pending = pending /\ call'.size = Len(Stream) /\ call'.own = own
  BY DEF IInv, Phases, Busy, None
<1>2. Stream' = Stream /\ Stream \in Seq(Bytes) /\ pending \in Seq(Ids) /\ Len(pending) \in Nat
  BY StreamTyped, LenProperties DEF Stream, IInv, TypeOK, CallTypeOK
<1>3. Sent' = Sent
  <2>1. SubSeq(Stream, 1, Len(Stream)) = Stream
    BY <1>2, SubSeqFull
  <2> QED BY <1>1, <1>2, <2>1 DEF Sent
<1>4. Held' = Held
  BY <1>1 DEF Held
<1>5. AllHandedOver'
  BY DEF AllHandedOver
<1>6. Progress'
  <2>1. 0 \in 0..Len(pending) /\ <<>> \in Seq(Bytes)
    BY <1>2, EmptySeq
  <2>2. pending' = SubSeq(pending, 0 + 1, Len(pending))
    BY <1>2, SubSeqFull
  <2>3. Stream' = Stream \o (Framed(pending, 0) \o <<>>)
    <3>1. Framed(pending, 0) = <<>>
      BY <1>2, FramedIs
    <3>2. Stream \o (<<>> \o <<>>) = Stream
      BY <1>2, <2>1, ConcatEmptySeq
    <3> QED BY <1>2, <3>1, <3>2
  <2>4. <<>> \o part' = IF 0 = Len(pending) THEN own ELSE Opening(pending[0 + 1])
    <3>1. CASE pending = <<>>
      <4>1. Len(pending) = 0 /\ part' = own
        BY <3>1, EmptySeq
      <4> QED BY <4>1, ConcatEmptySeq
    <3>2. CASE pending # <<>>
      <4>1. 0 < Len(pending) /\ Head(pending) = pending[0 + 1]
        BY <1>2, <3>2, EmptySeq
      <4>2. part' = Opening(pending[0 + 1])
        BY <3>2, <4>1 DEF Opening
      <4>3. Opening(pending[0 + 1]) \in Seq(Bytes)
        BY <1>2, <4>1, FramedIs
      <4> QED BY <4>1, <4>2, <4>3, ConcatEmptySeq
    <3> QED BY <3>1, <3>2
  <2>5. Progress' <=>
          \E k \in 0..Len(pending), base \in Seq(Bytes), done \in Seq(Bytes) :
            /\ pending' = SubSeq(pending, k + 1, Len(pending))
            /\ Len(base) = Len(Stream)
            /\ Stream' = base \o (Framed(pending, k) \o done)
            /\ done \o part' = IF k = Len(pending) THEN own ELSE Opening(pending[k + 1])
    BY <1>1 DEF Progress
  <2> QED BY <1>2, <2>1, <2>2, <2>3, <2>4, <2>5, Zenon
<1> QED BY <1>3, <1>4, <1>5, <1>6
-----------------------------------------------------------------------------
(* Bytes go out *)

\* What a call adds in the end is a write of the promise.
LEMMA CallIsAWrite ==
  ASSUME IInv, CallIsLegal, Busy, UNCHANGED sinks,
         \A own, gain : own = call.own /\ gain = call.gain => Promise!Write(own, gain)
  PROVE  Promise!Next
<1>0. Promise!Ids = Ids /\ Promise!T_SEQUENCE_START = T_SEQUENCE_START
      /\ Promise!T_SEQUENCE_END = T_SEQUENCE_END /\ Len(call.pending) \in Nat /\ Held = call.pending
  <2>1. call.pending \in Seq(Ids)
    BY DEF IInv, TypeOK, CallTypeOK, Busy
  <2> QED BY <2>1, LenProperties
          DEF Promise!Ids, Ids, Promise!ID_MAX, ID_MAX, Promise!T_SEQUENCE_START, T_SEQUENCE_START,
              Promise!T_SEQUENCE_END, T_SEQUENCE_END, Held
<1>1. ASSUME NEW field \in FieldInputs, field.id \in Ids,
             call.own = FieldBytes(field), call.gain = 0
      PROVE  Promise!WriteField
  <2>1. Promise!Write(FieldBytes(field), 0)
    BY <1>1
  <2>2. Promise!Write(Promise!FieldBytes(field), 0)
    BY <2>1, SameFields
  <2> QED BY <1>0, <1>1, <2>2 DEF Promise!WriteField
<1>2. ASSUME NEW id \in SequenceIds \cap Ids, call.own = Header(id, T_SEQUENCE_START),
             call.gain = 1, depth < MaxDepth, Len(call.pending) >= LAZY_SEQ_DEPTH
      PROVE  Promise!SequenceBegins
  <2>1. Promise!Write(Header(id, T_SEQUENCE_START), 1)
    BY <1>2
  <2>2. Promise!Write(Promise!Header(id, Promise!T_SEQUENCE_START), 1)
    BY <1>0, <2>1, SameHeaders
  <2>3. ~(Len(Held) < LAZY_SEQ_DEPTH)
    BY <1>0, <1>2, StreamAssumption
  <2> QED BY <1>0, <1>2, <2>2, <2>3 DEF Promise!SequenceBegins
<1>3. ASSUME call.own = Header(0, T_SEQUENCE_END), call.gain = -1, depth > 0
      PROVE  Promise!SequenceEnds
  <2>1. Promise!Write(Header(0, T_SEQUENCE_END), -1)
    BY <1>3
  <2>2. Promise!Write(Promise!Header(0, Promise!T_SEQUENCE_END), -1)
    BY <1>0, <2>1, SameHeaders
  <2> QED BY <1>3, <2>2 DEF Promise!SequenceEnds
<1> QED BY <1>1, <1>2, <1>3 DEF CallIsLegal, Promise!Next

\* The head of a part and what is left of it.
LEMMA HeadAndRest ==
  ASSUME NEW p \in Seq(Bytes), p # <<>>
  PROVE  /\ <<Head(p)>> \in Seq(Bytes) /\ Len(p) \in Nat \ {0}
         /\ Len(p) > 1 => Tail(p) \in Seq(Bytes) /\ <<Head(p)>> \o Tail(p) = p
         /\ ~(Len(p) > 1) => p = <<Head(p)>>
<1>1. Head(p) \in Bytes /\ Tail(p) \in Seq(Bytes) /\ Len(p) \in Nat \ {0} /\ Head(p) = p[1]
      /\ Len(Tail(p)) = Len(p) - 1
  BY Shorter
<1>2. p = <<p[1]>> \o Tail(p)
  <2>1. 1 \in 1..Len(p) /\ Len(p) \in 1..Len(p)
    BY <1>1
  <2>2. SubSeq(p, 1, Len(p)) = <<p[1]>> \o SubSeq(p, 1 + 1, Len(p))
    BY <2>1, SubSeqRecursiveFirst
  <2>3. SubSeq(p, 1, Len(p)) = p /\ SubSeq(p, 1 + 1, Len(p)) = Tail(p)
    BY SubSeqFull, TailIsSubSeq
  <2> QED BY <2>2, <2>3
<1>3. ASSUME ~(Len(p) > 1) PROVE p = <<Head(p)>>
  <2>1. Len(Tail(p)) = 0
    BY <1>1, <1>3
  <2>2. Tail(p) = <<>>
    BY <1>1, <2>1, EmptySeq
  <2>3. <<p[1]>> \in Seq(Bytes)
    BY <1>1
  <2> QED BY <1>1, <1>2, <2>2, <2>3, ConcatEmptySeq
<1> QED BY <1>1, <1>2, <1>3

\* Where a call is, with its facts about sequences at hand.
LEMMA CallAt ==
  ASSUME IInv, Progress, Busy
  PROVE  /\ call.pending \in Seq(Ids) /\ Len(call.pending) \in Nat
         /\ part \in Seq(Bytes) /\ part # <<>> /\ call.own \in Seq(Bytes)
         /\ \E k \in 0..Len(call.pending), base \in Seq(Bytes), done \in Seq(Bytes) :
              /\ Len(base) = call.size /\ Sent = base
              /\ Stream = base \o (Framed(call.pending, k) \o done)
              /\ Framed(call.pending, k) \in Seq(Bytes)
              /\ pending = SubSeq(call.pending, k + 1, Len(call.pending))
              /\ done \o part = IF k = Len(call.pending) THEN call.own
                                ELSE Opening(call.pending[k + 1])
<1>1. /\ call.pending \in Seq(Ids) /\ Len(call.pending) \in Nat
      /\ part \in Seq(Bytes) /\ part # <<>> /\ call.own \in Seq(Bytes)
  <2>1. /\ call.pending \in Seq(Ids)
        /\ part \in Seq(Bytes) /\ part # <<>> /\ call.own \in Seq(Bytes)
    BY DEF IInv, TypeOK, CallTypeOK, CallIsPossible, Busy
  <2> QED BY <2>1, LenProperties
<1>2. PICK k \in 0..Len(call.pending), base \in Seq(Bytes), done \in Seq(Bytes) :
        /\ pending = SubSeq(call.pending, k + 1, Len(call.pending))
        /\ Len(base) = call.size
        /\ Stream = base \o (Framed(call.pending, k) \o done)
        /\ done \o part = IF k = Len(call.pending) THEN call.own
                          ELSE Opening(call.pending[k + 1])
  BY DEF Progress
<1>3. Framed(call.pending, k) \in Seq(Bytes)
  BY <1>1, FramedIs
<1>4. Framed(call.pending, k) \o done \in Seq(Bytes)
  BY <1>3, ConcatProperties
<1>5. Sent = base
  BY <1>2, <1>4, SentIs
<1> QED BY <1>1, <1>2, <1>3, <1>5

\* A byte is invisible to the caller, unless it is the last of the call: then the
\* whole write has been added.
LEMMA StoreByteKeeps ==
  ASSUME IInv, PInv, StoreByte
  PROVE  PInv' /\ [Promise!Next]_Promise!vars
<1>0. /\ Busy /\ UNCHANGED sinks /\ Stream' = Stream \o <<Head(part)>>
  BY StreamStored DEF StoreByte, IInv, Phases
<1>1. /\ call.pending \in Seq(Ids) /\ Len(call.pending) \in Nat
      /\ part \in Seq(Bytes) /\ part # <<>> /\ call.own \in Seq(Bytes)
  BY <1>0, CallAt DEF PInv
<1> DEFINE ids == call.pending
           b   == <<Head(part)>>
<1>2. PICK k \in 0..Len(ids), base \in Seq(Bytes), done \in Seq(Bytes) :
        /\ Len(base) = call.size /\ Sent = base
        /\ Stream = base \o (Framed(ids, k) \o done)
        /\ Framed(ids, k) \in Seq(Bytes)
        /\ pending = SubSeq(ids, k + 1, Len(ids))
        /\ done \o part = IF k = Len(ids) THEN call.own ELSE Opening(ids[k + 1])
  BY <1>0, CallAt DEF PInv
<1>3. /\ b \in Seq(Bytes)
      /\ Len(part) > 1 => Tail(part) \in Seq(Bytes) /\ b \o Tail(part) = part
      /\ ~(Len(part) > 1) => part = b
  BY <1>1, HeadAndRest
<1>4. Stream' = base \o (Framed(ids, k) \o (done \o b)) /\ done \o b \in Seq(Bytes)
  <2> HIDE DEF b
  <2>1. /\ (base \o (Framed(ids, k) \o done)) \o b = base \o (Framed(ids, k) \o (done \o b))
        /\ done \o b \in Seq(Bytes)
    <3>1. Framed(ids, k) \in Seq(Bytes) /\ b \in Seq(Bytes)
      BY <1>2, <1>3
    <3> DEFINE framed == Framed(ids, k)
    <3> HIDE DEF framed
    <3>2. framed \in Seq(Bytes)
      BY <3>1 DEF framed
    <3>3. Regroups(base, framed, done, b)
      BY <3>1, <3>2, Regrouping
    <3> QED BY <3>1, <3>3, Assoc DEF framed, Regroups
  <2>2. Stream' = (base \o (Framed(ids, k) \o done)) \o b
    BY <1>0, <1>2 DEF b
  <2> QED BY <2>1, <2>2
<1> HIDE DEF b
<1>5. pc' \in {"push", "idle"}
  BY DEF StoreByte, PartDone
<1>6. AllHandedOver'
  BY <1>5 DEF AllHandedOver
\* While the call lasts nothing changes for its caller.
<1>7. ASSUME UNCHANGED <<call, depth, result>>,
             NEW j \in 0..Len(ids), NEW more \in Seq(Bytes),
             pending' = SubSeq(ids, j + 1, Len(ids)),
             Stream' = base \o (Framed(ids, j) \o more),
             more \o part' = IF j = Len(ids) THEN call.own ELSE Opening(ids[j + 1])
      PROVE  PInv' /\ [Promise!Next]_Promise!vars
  <2>1. Busy'
    BY <1>0, <1>7 DEF Busy
  <2>2. Progress'
    BY <1>2, <1>7 DEF Progress
  <2>3. Framed(ids, j) \o more \in Seq(Bytes)
    <3>1. Framed(ids, j) \in Seq(Bytes)
      BY <1>1, FramedIs
    <3> QED BY <3>1, Assoc, Zenon
  <2>4. Sent' = base
    BY <1>2, <1>7, <2>1, <2>3, SentIs
  <2>5. CallIsLegal'
    BY <1>0, <1>7 DEF PInv, CallIsLegal, Busy
  <2>6. Held' = Held
    BY <1>0, <1>7, <2>1 DEF Held
  <2> QED BY <1>0, <1>2, <1>6, <1>7, <2>2, <2>4, <2>5, <2>6 DEF PInv, Promise!vars
<1>8. CASE Len(part) > 1
  <2>1. part' = Tail(part) /\ UNCHANGED <<depth, pending, call, result>>
    BY <1>8 DEF StoreByte
  <2>2. (done \o b) \o Tail(part) = done \o part
    <3>1. (done \o b) \o Tail(part) = done \o (b \o Tail(part))
      BY <1>3, <1>8, Assoc, Zenon
    <3> QED BY <1>3, <1>8, <3>1
  <2> QED BY <1>2, <1>4, <1>7, <2>1, <2>2
<1>9. CASE ~(Len(part) > 1) /\ k < Len(ids)
  <2>1. /\ pending # <<>> /\ Tail(pending) = SubSeq(ids, k + 2, Len(ids))
    BY <1>1, <1>2, <1>9, RunLeft
  <2>2. /\ pending' = Tail(pending) /\ UNCHANGED <<depth, call, result>>
        /\ part' = IF Tail(pending) = <<>> THEN call.own
                   ELSE Header(Head(Tail(pending)), T_SEQUENCE_START)
    BY <1>9, <2>1 DEF StoreByte, PartDone
  <2>3. k + 1 \in 0..Len(ids) /\ (k + 1) + 1 = k + 2 /\ k + 1 \in 1..Len(ids) /\ (k + 1) - 1 = k
        /\ k # Len(ids)
    BY <1>1, <1>9
  <2>4. /\ k + 1 = Len(ids) => Tail(pending) = <<>>
        /\ k + 1 < Len(ids) => Tail(pending) # <<>> /\ Head(Tail(pending)) = ids[(k + 1) + 1]
    BY <1>1, <2>1, <2>3, RunLeft
  <2>5. part' = IF k + 1 = Len(ids) THEN call.own ELSE Opening(ids[(k + 1) + 1])
    BY <1>1, <2>2, <2>3, <2>4 DEF Opening
  <2>6. Framed(ids, k + 1) = Framed(ids, k) \o (done \o b)
    <3>1. Framed(ids, k + 1) = Framed(ids, k) \o Opening(ids[k + 1])
      BY <1>1, <2>3, FramedIs
    <3> QED BY <1>2, <1>3, <1>9, <2>3, <3>1
  <2>7. <<>> \in Seq(Bytes) /\ Framed(ids, k + 1) \o <<>> = Framed(ids, k + 1)
        /\ <<>> \o part' = part'
    <3>1. Framed(ids, k + 1) \in Seq(Bytes)
      BY <1>1, <2>3, FramedIs
    <3>2. part' \in Seq(Bytes)
      <4>1. k + 1 # Len(ids) => (k + 1) + 1 \in 1..Len(ids)
        BY <1>1, <2>3
      <4>2. k + 1 # Len(ids) => Opening(ids[(k + 1) + 1]) \in Seq(Bytes)
        BY <1>1, <4>1, FramedIs
      <4> QED BY <1>1, <2>5, <4>2
    <3> QED BY <3>1, <3>2, EmptySeq, ConcatEmptySeq
  <2>8. Stream' = base \o (Framed(ids, k + 1) \o <<>>)
    BY <1>4, <2>6, <2>7
  <2> QED BY <1>7, <2>1, <2>2, <2>3, <2>5, <2>7, <2>8
<1>10. CASE ~(Len(part) > 1) /\ k = Len(ids)
  <2>1. pending = <<>>
    BY <1>1, <1>2, <1>10, RunLeft
  <2>2. /\ depth' = depth + call.gain /\ result' = "Ok" /\ UNCHANGED pending /\ call' = None
    BY <1>10, <2>1 DEF StoreByte, PartDone
  <2>3. Stream' = base \o (Promise!Framing(ids) \o call.own)
    <3>1. Framed(ids, k) = Promise!Framing(ids)
      BY <1>1, <1>10, FramedIs
    <3> QED BY <1>2, <1>3, <1>4, <1>10, <3>1
  <2>4. ~Busy' /\ Sent' = Stream' /\ Held' = <<>> /\ Held = ids
    BY <1>0, <2>1, <2>2 DEF Busy, Sent, Held
  <2>5. ASSUME NEW own, NEW gain, own = call.own, gain = call.gain PROVE Promise!Write(own, gain)
    BY <1>2, <2>2, <2>3, <2>4, <2>5 DEF Promise!Write
  <2>6. Promise!Next
    BY <1>0, <2>5, CallIsAWrite DEF PInv
  <2> QED BY <1>6, <2>4, <2>6 DEF PInv, Progress, CallIsLegal
<1> QED BY <1>1, <1>2, <1>8, <1>9, <1>10

\* A cut leaves the first bytes of the write, and held back the headers that are
\* not among them.
LEMMA BufferFullKeeps ==
  ASSUME IInv, PInv, BufferFull
  PROVE  PInv' /\ Promise!Next
<1>0. /\ Busy /\ ~sinks /\ pc' = "idle" /\ call' = None /\ result' = "BufferFull"
      /\ UNCHANGED <<sinks, depth, pending>> /\ Stream' = Stream
  <2>1. offset \in Nat /\ Size[buffer] \in Nat
    BY StreamAssumption DEF IInv, TypeOK, BufferTypeOK
  <2> QED BY <2>1 DEF BufferFull, IInv, Phases, Stream, streamVars
<1>1. /\ call.pending \in Seq(Ids) /\ Len(call.pending) \in Nat
      /\ part \in Seq(Bytes) /\ part # <<>> /\ call.own \in Seq(Bytes)
  BY <1>0, CallAt DEF PInv
<1> DEFINE ids   == call.pending
           whole == Promise!Framing(ids) \o call.own
<1>2. PICK k \in 0..Len(ids), base \in Seq(Bytes), done \in Seq(Bytes) :
        /\ Len(base) = call.size /\ Sent = base
        /\ Stream = base \o (Framed(ids, k) \o done)
        /\ Framed(ids, k) \in Seq(Bytes)
        /\ pending = SubSeq(ids, k + 1, Len(ids))
        /\ done \o part = IF k = Len(ids) THEN call.own ELSE Opening(ids[k + 1])
  BY <1>0, CallAt DEF PInv
<1> DEFINE gone == Framed(ids, k) \o done
<1>3. /\ gone \in Seq(Bytes) /\ Len(gone) = Len(Framed(ids, k)) + Len(done)
      /\ Len(gone) \in Nat /\ Len(done) \in Nat /\ Len(Framed(ids, k)) \in Nat
      /\ Len(part) \in Nat \ {0}
  BY <1>1, <1>2, ConcatProperties, LenProperties, EmptySeq
<1>4. gone \o part = Framed(ids, k) \o (done \o part)
  BY <1>1, <1>2, Assoc, Zenon
<1>5. k < Len(ids) => Framed(ids, k + 1) = gone \o part
  <2>1. k < Len(ids) => k + 1 \in 1..Len(ids) /\ (k + 1) - 1 = k /\ k # Len(ids)
    BY <1>1
  <2>2. k < Len(ids) => Framed(ids, k + 1) = Framed(ids, k) \o Opening(ids[k + 1])
    BY <1>1, <2>1, FramedIs
  <2> HIDE DEF gone
  <2> QED BY <1>2, <1>4, <2>1, <2>2
<1>6. \E rest \in Seq(Bytes) : rest # <<>> /\ whole = gone \o rest
  <2>1. CASE k = Len(ids)
    <3>1. whole = gone \o part
      <4>1. Framed(ids, k) = Promise!Framing(ids)
        BY <1>1, <2>1, FramedIs
      <4> QED BY <1>2, <1>4, <2>1, <4>1
    <3> QED BY <1>1, <3>1
  <2>2. CASE k < Len(ids)
    <3>1. k + 1 \in 0..Len(ids)
      BY <1>1, <2>2
    <3>2. PICK more \in Seq(Bytes) : Promise!Framing(ids) = Framed(ids, k + 1) \o more
      BY <1>1, <3>1, FramedFirst
    <3>3. whole = ((gone \o part) \o more) \o call.own
      BY <1>5, <2>2, <3>2
    <3> HIDE DEF gone
    <3>4. ((gone \o part) \o more) \o call.own = gone \o (part \o (more \o call.own))
      <4>1. gone \in Seq(Bytes) /\ part \in Seq(Bytes) /\ call.own \in Seq(Bytes)
        BY <1>1, <1>3
      <4>2. (gone \o part) \o more = gone \o (part \o more)
        BY <4>1, Assoc, SMTT(30)
      <4>3. (gone \o (part \o more)) \o call.own = gone \o (part \o (more \o call.own))
        <5>1. Regroups(gone, part, more, call.own)
          BY <4>1, Regrouping
        <5> QED BY <5>1 DEF Regroups
      <4> QED BY <4>2, <4>3
    <3>5. part \o (more \o call.own) \in Seq(Bytes) /\ part \o (more \o call.own) # <<>>
      <4>1. more \o call.own \in Seq(Bytes)
        BY <1>1, Assoc, Zenon
      <4> QED BY <1>1, <4>1, ConcatProperties, ConcatEqualIffEmpty
    <3> HIDE DEF whole
    <3>6. whole = gone \o (part \o (more \o call.own))
      BY <3>3, <3>4
    <3> DEFINE rest == part \o (more \o call.own)
    <3>7. rest \in Seq(Bytes) /\ rest # <<>> /\ whole = gone \o rest
      BY <3>5, <3>6
    <3> HIDE DEF gone, rest
    <3> QED BY <3>7
  <2>3. k = Len(ids) \/ k < Len(ids)
    BY <1>1
  <2> QED BY <2>1, <2>2, <2>3, Zenon
<1>7. PICK rest \in Seq(Bytes) : rest # <<>> /\ whole = gone \o rest
  BY <1>6
<1>8. SubSeq(whole, 1, Len(gone)) = gone /\ Len(gone) \in 0..(Len(whole) - 1)
  <2>1. Len(rest) \in Nat \ {0}
    BY <1>7, EmptySeq
  <2>2. Len(gone \o rest) = Len(gone) + Len(rest)
    BY <1>3, ConcatProperties
  <2>3. SubSeq(gone \o rest, 1, Len(gone)) = gone
    BY <1>3, FirstPart
  <2> HIDE DEF gone, whole
  <2> QED BY <1>3, <1>7, <2>1, <2>2, <2>3
<1>9. /\ Len(Promise!Framing(SubSeq(ids, 1, k))) <= Len(gone)
      /\ k < Len(ids) => Len(Promise!Framing(SubSeq(ids, 1, k + 1))) > Len(gone)
  <2>1. Len(gone \o part) = Len(gone) + Len(part)
    BY <1>1, <1>3, ConcatProperties
  <2>2. /\ Promise!Framing(SubSeq(ids, 1, k)) = Framed(ids, k)
        /\ Promise!Framing(SubSeq(ids, 1, k + 1)) = Framed(ids, k + 1)
    BY DEF Framed
  <2> HIDE DEF gone
  <2> QED BY <1>3, <1>5, <2>1, <2>2
<1>10. /\ Sent' = Sent \o SubSeq(whole, 1, Len(gone))
       /\ Held = ids /\ Held' = SubSeq(ids, k + 1, Len(ids)) /\ ~Busy'
  BY <1>0, <1>2, <1>8 DEF Sent, Held, Busy
<1>11. ASSUME NEW own, NEW gain, own = call.own, gain = call.gain PROVE Promise!Write(own, gain)
  <2>1. /\ ~sinks
        /\ \E n \in 0..(Len(whole) - 1) :
             /\ Sent' = Sent \o SubSeq(whole, 1, n)
             /\ \E out \in 0..Len(Held) :
                  /\ Len(Promise!Framing(SubSeq(Held, 1, out))) <= n
                  /\ out < Len(Held) => Len(Promise!Framing(SubSeq(Held, 1, out + 1))) > n
                  /\ Held' = SubSeq(Held, out + 1, Len(Held))
        /\ depth' = depth /\ result' = "BufferFull"
    <3> HIDE DEF gone, whole
    <3> QED BY <1>0, <1>8, <1>9, <1>10
  <2> QED BY <1>10, <1>11, <2>1 DEF Promise!Write
<1>12. Promise!Next
  BY <1>0, <1>11, CallIsAWrite DEF PInv
<1> QED BY <1>0, <1>10, <1>12 DEF PInv, Progress, CallIsLegal, AllHandedOver

-----------------------------------------------------------------------------
(* Everything else *)

\* What leaves the message, the call and what its caller sees as they are.
LEMMA OthersKeep ==
  ASSUME IInv, PInv, Stream' = Stream, AllHandedOver',
         UNCHANGED <<sinks, depth, pending, call, part, result>>
  PROVE  PInv' /\ UNCHANGED Promise!vars
<1>1. CallIsLegal' /\ Progress'
  BY DEF PInv, CallIsLegal, Progress, Busy
<1>2. UNCHANGED <<Sent, Held>>
  BY DEF Sent, Held, Busy
<1> QED BY <1>1, <1>2 DEF PInv, Promise!vars

\* A drain moves bytes between the buffer and the sink; the message is both.
LEMMA DrainsMove ==
  ASSUME IInv, AllHandedOver, DrainsWhenFull \/ flush \/ SinkReturns \/ SwapReturns
  PROVE  /\ Stream' = Stream /\ AllHandedOver'
         /\ UNCHANGED <<sinks, depth, pending, call, part, result>>
<1>0. offset \in Nat /\ Stream \in Seq(Bytes)
  BY StreamAssumption, StreamTyped DEF IInv, TypeOK, BufferTypeOK
<1>1. CASE DrainsWhenFull \/ flush
  <2>1. /\ room' = offset' /\ emitted' = Stream /\ offset' = offset
        /\ UNCHANGED <<sinks, depth, pending, call, part, result>>
    BY <1>1 DEF DrainsWhenFull, flush, HandsOver, streamVars
  <2> QED BY <1>0, <2>1, StreamEmptied DEF AllHandedOver
<1>2. CASE SinkReturns \/ SwapReturns
  <2>1. /\ pc = "sink" /\ room' = offset' /\ emitted' = emitted
        /\ UNCHANGED <<sinks, depth, pending, call, part, result>>
    BY <1>2 DEF SinkReturns, SwapReturns, Returns
  <2>2. offset' \in Nat
    <3>1. CASE SinkReturns
      <4>1. next # None => next.offset \in Nat
        BY DEF IInv, TypeOK, HandoverTypeOK
      <4> QED BY <3>1, <4>1 DEF SinkReturns, Returns
    <3>2. CASE SwapReturns
      <4>1. then.is = "swap" => then.offset \in Nat
        BY DEF IInv, TypeOK, CallTypeOK, None
      <4> QED BY <3>2, <4>1 DEF SwapReturns
    <3> QED BY <1>2, <3>1, <3>2
  <2>3. Stream = emitted
    BY <2>1, StreamHandedOver
  <2> QED BY <1>0, <2>1, <2>2, <2>3, StreamEmptied DEF AllHandedOver
<1> QED BY <1>1, <1>2

\* Draining keeps it, and shows the promise nothing.
LEMMA DrainsKeep ==
  ASSUME IInv, PInv, DrainsWhenFull \/ flush \/ SinkReturns \/ SwapReturns
  PROVE  PInv' /\ UNCHANGED Promise!vars
BY DrainsMove, OthersKeep DEF PInv

\* A buffer that is installed, now or later, starts with nothing of the message.
LEMMA BufferSetMoves ==
  ASSUME IInv, NEW b \in free, NEW off \in Offsets, buffer_set(b, off)
  PROVE  /\ Stream' = Stream /\ AllHandedOver' /\ pc = "idle"
         /\ UNCHANGED <<sinks, depth, pending, call, part, result>>
<1>0. offset \in Nat /\ Stream \in Seq(Bytes) /\ off \in Nat
  BY StreamAssumption, StreamTyped DEF IInv, TypeOK, BufferTypeOK
<1>1. /\ pc = "idle" /\ UNCHANGED <<sinks, depth, pending, call, part, result, mem>>
      /\ \/ room' = offset' /\ emitted' = Stream /\ offset' \in {offset, off}
         \/ pc' = pc /\ UNCHANGED <<buffer, offset, room, emitted>>
  BY DEF buffer_set, HandsOver
<1>2. Stream' = Stream
  <2>1. CASE room' = offset' /\ emitted' = Stream /\ offset' \in {offset, off}
    BY <1>0, <2>1, StreamEmptied
  <2>2. CASE UNCHANGED <<buffer, offset, room, emitted>>
    BY <1>1, <2>2 DEF Stream
  <2> QED BY <1>1, <2>1, <2>2
<1>3. AllHandedOver'
  BY <1>1 DEF AllHandedOver
<1> QED BY <1>1, <1>2, <1>3

\* Installing a buffer, or taking one back, leaves what came out and the call alone.
LEMMA InstallsMove ==
  ASSUME IInv, AllHandedOver, Installs \/ taken
  PROVE  /\ Stream' = Stream /\ AllHandedOver'
         /\ UNCHANGED <<sinks, depth, pending, call, part, result>>
<1>1. ASSUME taken \/ \E b \in free, off \in Offsets : install(b, off)
      PROVE  /\ Stream' = Stream /\ AllHandedOver'
             /\ UNCHANGED <<sinks, depth, pending, call, part, result>>
  <2>1. UNCHANGED <<streamVars, mem, doingVars, result, room, emitted>>
    BY <1>1 DEF taken, install
  <2> QED BY <2>1 DEF Stream, streamVars, doingVars, AllHandedOver
<1> QED BY <1>1, BufferSetMoves DEF Installs

\* So it keeps the invariant of the refinement and shows the promise nothing.
LEMMA InstallsKeep ==
  ASSUME IInv, PInv, Installs \/ taken
  PROVE  PInv' /\ UNCHANGED Promise!vars
BY InstallsMove, OthersKeep DEF PInv

\* A write that begins, or is refused, is a write of the promise.
LEMMA WritesKeep ==
  ASSUME IInv, PInv, WritesField \/ BeginsSequence \/ EndsSequence \/ Refused
  PROVE  PInv' /\ [Promise!Next]_Promise!vars
<1>0. /\ pending \in Seq(Ids) /\ Len(pending) \in Nat /\ depth \in Nat
      /\ Promise!Ids = Ids
  BY WidthAssumption, LenProperties
  DEF IInv, TypeOK, CallTypeOK, Promise!Ids, Ids, Promise!ID_MAX, ID_MAX
<1>1. ASSUME NEW own \in Seq(Bytes), NEW gain, Begins(own, gain),
             \/ gain = 0 /\ \E field \in FieldInputs : field.id \in Ids /\ own = FieldBytes(field)
             \/ /\ gain = 1 /\ depth < MaxDepth /\ Len(pending) >= LAZY_SEQ_DEPTH
                /\ \E id \in SequenceIds \cap Ids : own = Header(id, T_SEQUENCE_START)
             \/ gain = -1 /\ depth > 0 /\ own = Header(0, T_SEQUENCE_END)
      PROVE  PInv' /\ [Promise!Next]_Promise!vars
  <2>1. call'.own = own /\ call'.gain = gain /\ call'.pending = pending /\ depth' = depth
    BY <1>1 DEF Begins, streamVars
  <2>2. CallIsLegal'
    BY <1>1, <2>1 DEF CallIsLegal
  <2>3. Progress' /\ AllHandedOver' /\ UNCHANGED <<Sent, Held, depth, result, sinks>>
    BY <1>1, BeginsKeeps
  <2> QED BY <2>2, <2>3 DEF PInv, Promise!vars
<1>2. CASE WritesField
  <2>1. PICK field \in FieldInputs : field.id \in Ids /\ Begins(FieldBytes(field), 0)
    BY <1>2 DEF WritesField, WriteField
  <2>2. FieldBytes(field) \in Seq(Bytes)
    BY <2>1, FieldAssumption, FieldTyped
  <2> QED BY <1>1, <2>1, <2>2
<1>3. ASSUME NEW id \in SequenceIds, FramesEagerly(id)
      PROVE  PInv' /\ [Promise!Next]_Promise!vars
  <2>1. id \in SequenceIds \cap Ids /\ Header(id, T_SEQUENCE_START) \in Seq(Bytes)
    BY <1>3, HeaderTyped DEF FramesEagerly, T_SEQUENCE_START
  <2> QED BY <1>1, <1>3, <2>1 DEF FramesEagerly
<1>4. ASSUME depth > 0, Begins(Header(0, T_SEQUENCE_END), -1)
      PROVE  PInv' /\ [Promise!Next]_Promise!vars
  <2>1. Header(0, T_SEQUENCE_END) \in Seq(Bytes)
    BY HeaderTyped DEF T_SEQUENCE_END
  <2> QED BY <1>1, <1>4, <2>1
<1>5. ASSUME pc = "idle",
             UNCHANGED <<sinks, takes, buffer, offset, mem, next, retired, doingVars, free, room,
                         emitted>>
      PROVE  PInv' /\ UNCHANGED sinks /\ Sent' = Sent /\ Held = pending /\ Held' = pending'
  <2>1. ~Busy /\ ~Busy' /\ Stream' = Stream
    BY <1>5 DEF IInv, Phases, Busy, Stream, doingVars
  <2> QED BY <1>5, <2>1
          DEF PInv, CallIsLegal, Progress, AllHandedOver, Sent, Held, doingVars
<1>6. ASSUME NEW id \in SequenceIds, HoldsBack(id)
      PROVE  PInv' /\ [Promise!Next]_Promise!vars
  <2>1. PInv' /\ UNCHANGED sinks /\ Sent' = Sent /\ Held = pending /\ Held' = pending'
    BY <1>5, <1>6 DEF HoldsBack
  <2>2. Promise!SequenceBegins
    BY <1>0, <1>6, <2>1 DEF Promise!SequenceBegins, HoldsBack
  <2> QED BY <2>1, <2>2 DEF Promise!Next
<1>7. CASE Vanishes
  <2>1. PInv' /\ UNCHANGED sinks /\ Sent' = Sent /\ Held = pending /\ Held' = pending'
    BY <1>5, <1>7 DEF Vanishes
  <2>2. Promise!SequenceVanishes
    BY <1>7, <2>1 DEF Promise!SequenceVanishes, Vanishes
  <2> QED BY <2>1, <2>2 DEF Promise!Next
<1>8. CASE Refused
  <2>1. PInv' /\ UNCHANGED sinks /\ Sent' = Sent /\ Held = pending /\ Held' = pending'
    BY <1>5, <1>8 DEF Refused, streamVars
  <2>2. Promise!Refuse
    BY <1>8, <2>1 DEF Promise!Refuse, Refused, streamVars
  <2> QED BY <2>1, <2>2 DEF Promise!Next
<1> QED
  BY <1>2, <1>3, <1>4, <1>6, <1>7, <1>8
  DEF BeginsSequence, EndsSequence, write_sequence_begin_lazy, write_sequence_end,
      write_sequence_end_keep

-----------------------------------------------------------------------------
(* The theorem *)

\* An encoder that is built promises what the promise says at first.
LEMMA PromiseInit == Init => PInv /\ Promise!Init
<1> SUFFICES ASSUME Init PROVE PInv /\ Promise!Init
  OBVIOUS
<1>1. ~Busy /\ PInv
  BY DEF Init, Busy, PInv, CallIsLegal, Progress, AllHandedOver
<1>2. Stream = <<>>
  <2>1. offset \in Nat /\ room = offset /\ emitted = <<>>
    BY StreamAssumption DEF Init
  <2>2. SubSeq(mem[buffer], room + 1, offset) = <<>>
    BY <2>1, SubSeqEmpty
  <2> QED BY <2>1, <2>2, EmptySeq, ConcatEmptySeq DEF Stream
<1>3. sinks \in BOOLEAN
  BY InitInv DEF IInv, TypeOK, BufferTypeOK
<1> QED BY <1>1, <1>2, <1>3 DEF Promise!Init, Init, Sent, Held

\* Every step of the encoder is a step of its promise, or none.
LEMMA PromiseNext ==
  IInv /\ PInv /\ [Next]_vars => PInv' /\ [Promise!Next]_Promise!vars
<1> SUFFICES ASSUME IInv, PInv, [Next]_vars PROVE PInv' /\ [Promise!Next]_Promise!vars
  OBVIOUS
<1>1. CASE WritesField \/ BeginsSequence \/ EndsSequence \/ Refused
  BY <1>1, WritesKeep
<1>2. CASE StoreByte
  BY <1>2, StoreByteKeeps
<1>3. CASE BufferFull
  BY <1>3, BufferFullKeeps
<1>4. CASE DrainsWhenFull \/ flush \/ SinkReturns \/ SwapReturns
  BY <1>4, DrainsKeep
<1>5. CASE Installs \/ taken
  BY <1>5, InstallsKeep
<1>6. CASE UNCHANGED vars
  <2>1. Stream' = Stream /\ AllHandedOver'
    BY <1>6 DEF vars, streamVars, doingVars, Stream, PInv, AllHandedOver
  <2>2. UNCHANGED <<sinks, depth, pending, call, part, result>>
    BY <1>6 DEF vars, streamVars, doingVars
  <2> QED BY <2>1, <2>2, OthersKeep
<1> QED BY <1>1, <1>2, <1>3, <1>4, <1>5, <1>6 DEF Next, Pushes, Drains

\* However the message is cut into buffers, drained, flushed, swapped and taken,
\* the bytes that come out are those of the writes in one piece; a write that a
\* full buffer ends has added its first bytes and left held back exactly the
\* headers that are not among them.
THEOREM PromiseKept == Spec => KeepsPromise
<1>1. Spec => []IInv
  BY InitInv, NextInv, PTL DEF Spec
<1> QED BY <1>1, PromiseInit, PromiseNext, PTL DEF Spec, KeepsPromise, Promise!Spec

-----------------------------------------------------------------------------
(***************************************************************************)
(* The caller that recovers from BufferFull, for any buffers of any sizes, *)
(* any fields and wherever the cuts fall.                                  *)
(***************************************************************************)

\* The bytes of a call's own.
OwnOf(c) ==
  IF c.op = "field" THEN FieldBytes(c.field)
  ELSE IF c.op = "begin" THEN Header(c.id, T_SEQUENCE_START) ELSE Header(0, T_SEQUENCE_END)

\* What a write in progress has yet to put out.
Rest == IF pending = <<>> THEN part ELSE part \o (Owing(Tail(pending)) \o call.own)

\* Made again, the call is the one it was: a sequence it frames is not held back,
\* and one it ends has been framed.
SameAgain ==
  /\ doing \in Calls
  /\ doing.op = "begin" => Len(pending) >= LAZY_SEQ_DEPTH
  /\ doing.op = "end" => pending = <<>>

\* The one-shot encoder is ahead by what is left of the call in progress, or of
\* the call that was cut short; otherwise the two are level.
Underway ==
  Busy => /\ doing \in Calls /\ call.own = OwnOf(doing)
          /\ doing.op = "begin" => call.gain = 1 /\ Len(call.pending) >= LAZY_SEQ_DEPTH
          /\ doing.op = "end" => pending = <<>>
          /\ owed = <<>> /\ oneShot = Stream \o Rest

CutShort ==
  ~Busy /\ result = "BufferFull" =>
    SameAgain /\ owed = <<>> /\ oneShot = Stream \o (Owing(pending) \o OwnOf(doing))

Level == ~Busy /\ result # "BufferFull" => oneShot = Stream /\ owed = pending

Resumable == clean /\ ~opening => Underway /\ CutShort /\ Level

-----------------------------------------------------------------------------
(* The caller uses the encoder as any caller may *)

\* What a caller can ask for.
LEMMA CallFacts ==
  ASSUME NEW c \in Calls
  PROVE  /\ c.op \in {"field", "begin", "end", "end_keep"}
         /\ c.op = "field" => c.field \in FieldInputs
         /\ c.op # "field" => "sequence" \in Features
         /\ c.op = "begin" => c.id \in SequenceIds
<1>1. CASE c \in [op : {"field"}, field : FieldInputs]
  BY <1>1
<1>2. CASE "sequence" \in Features /\ c \in [op : {"begin"}, id : SequenceIds]
  BY <1>2
<1>3. CASE "sequence" \in Features /\ c \in [op : {"end", "end_keep"}]
  BY <1>3
<1> QED BY <1>1, <1>2, <1>3 DEF Calls

\* A call made by the caller is a write.
LEMMA MakesAWrite ==
  ASSUME NEW c \in Calls, Make(c)
  PROVE  WritesField \/ BeginsSequence \/ EndsSequence
BY CallFacts DEF Make, WritesField, BeginsSequence, EndsSequence

\* The call that is in progress or was cut short is one a caller can make.
Known == clean /\ (Busy \/ result = "BufferFull") => doing \in Calls

\* Whatever the caller does is something an encoder may be asked.
LEMMA RecoveryStepsAreSteps == Known /\ [RecoveryNext]_recoveryVars => [Next]_vars
<1> SUFFICES ASSUME Known, RecoveryNext PROVE [Next]_vars
  BY DEF recoveryVars
<1>1. CASE MakesCall \/ GivesUp
  BY <1>1, MakesAWrite DEF MakesCall, GivesUp, Next
<1>2. CASE MakesCallAgain
  <2>1. doing \in Calls /\ Make(doing)
    BY <1>2 DEF MakesCallAgain, Known
  <2> QED BY <2>1, MakesAWrite DEF Next
<1>3. CASE Reinstalls
  BY <1>3 DEF Reinstalls, Next, Installs
<1>4. CASE Works
  BY <1>4 DEF Works, Next
<1> QED BY <1>1, <1>2, <1>3, <1>4 DEF RecoveryNext

\* The caller goes on knowing the call that was cut.
LEMMA KnownNext == IInv /\ Known /\ [RecoveryNext]_recoveryVars => Known'
<1> SUFFICES ASSUME IInv, Known, [RecoveryNext]_recoveryVars PROVE Known'
  OBVIOUS
<1> USE DEF Known
<1>1. CASE MakesCall
  <2>1. PICK c \in Calls : Make(c) /\ (clean => doing' = c) /\ clean' = clean
    BY <1>1 DEF MakesCall
  <2> QED BY <2>1
<1>2. CASE GivesUp
  BY <1>2 DEF GivesUp
<1>3. CASE MakesCallAgain
  BY <1>3 DEF MakesCallAgain
<1>4. CASE Reinstalls
  BY <1>4 DEF Reinstalls, buffer_set, Busy
<1>5. CASE Works
  <2>1. Busy /\ doing' = doing /\ (clean' => clean)
    BY <1>5 DEF Works, Pushes, StoreByte, BufferFull, DrainsWhenFull, IInv, Phases
  <2> QED BY <2>1
<1>6. CASE UNCHANGED recoveryVars
  BY <1>6 DEF recoveryVars, vars, doingVars, Busy
<1> QED BY <1>1, <1>2, <1>3, <1>4, <1>5, <1>6 DEF RecoveryNext

\* It always knows it.
LEMMA KnownAlways == RecoverySpec => [](IInv /\ Known)
<1>1. RecoveryInit => Init /\ Known
  BY DEF RecoveryInit, Init, Known, Busy
<1> QED BY <1>1, RecoveryStepsAreSteps, KnownNext, InitInv, NextInv, PTL DEF RecoverySpec

-----------------------------------------------------------------------------
(* A run of headers, outermost first *)

\* The headers owed are those the promise holds back.
LEMMA OwingIs == \A ids : Owing(ids) = Promise!Framing(ids)
<1> SUFFICES ASSUME NEW ids PROVE Owing(ids) = Promise!Framing(ids)
  OBVIOUS
<1> QED BY DEF Owing, Each, Concatenated, Promise!Framing, Promise!Each, Promise!Concatenated,
           Promise!Header, Header, Promise!VarintOf, VarintOf, Promise!Unsigned, Unsigned,
           Promise!VarintByte, VarintByte, Promise!T_SEQUENCE_START, T_SEQUENCE_START

\* They are bytes, none if nothing is held back.
LEMMA OwingBytes ==
  ASSUME NEW ids \in Seq(Ids)
  PROVE  Owing(ids) \in Seq(Bytes) /\ (ids = <<>> => Owing(ids) = <<>>)
<1>1. Len(ids) \in Nat /\ Owing(ids) = Framed(ids, Len(ids))
  BY OwingIs, FramedIs
<1>2. Framed(ids, Len(ids)) \in Seq(Bytes) /\ Framed(ids, 0) = <<>>
  BY <1>1, FramedIs
<1> QED BY <1>1, <1>2, EmptySeq

\* The headers owed are the first one, then the others.
LEMMA OwingHead ==
  ASSUME NEW ids \in Seq(Ids), ids # <<>>
  PROVE  /\ Opening(Head(ids)) \in Seq(Bytes) /\ Tail(ids) \in Seq(Ids)
         /\ Owing(ids) = Opening(Head(ids)) \o Owing(Tail(ids))
<1> DEFINE tail == Tail(ids)
           S == {n \in Nat : n < Len(ids) =>
                   Framed(ids, n + 1) = Opening(ids[1]) \o Framed(tail, n)}
<1>1. /\ Len(ids) \in Nat \ {0} /\ tail \in Seq(Ids) /\ Len(tail) = Len(ids) - 1
      /\ Head(ids) = ids[1] /\ \A i \in 1..Len(tail) : tail[i] = ids[i + 1]
  BY Shorter, HeadTailProperties
<1> HIDE DEF tail
<1>2. Opening(ids[1]) \in Seq(Bytes)
  <2>1. 1 \in 1..Len(ids)
    BY <1>1
  <2> QED BY <2>1, FramedIs
<1>3. 0 \in S
  <2>1. 1 \in 1..Len(ids) /\ 1 - 1 = 0 /\ 0 + 1 = 1
    BY <1>1
  <2>2. Framed(ids, 1) = Framed(ids, 0) \o Opening(ids[1]) /\ Framed(ids, 0) = <<>>
    BY <2>1, FramedIs
  <2>3. Framed(tail, 0) = <<>>
    BY <1>1, FramedIs
  <2> QED BY <1>2, <2>1, <2>2, <2>3, ConcatEmptySeq
<1>4. ASSUME NEW n \in Nat, n \in S PROVE n + 1 \in S
  <2> SUFFICES ASSUME n + 1 < Len(ids)
               PROVE  Framed(ids, (n + 1) + 1) = Opening(ids[1]) \o Framed(tail, n + 1)
    OBVIOUS
  <2>1. /\ (n + 1) + 1 \in 1..Len(ids) /\ ((n + 1) + 1) - 1 = n + 1 /\ n < Len(ids)
        /\ n + 1 \in 1..Len(tail) /\ (n + 1) - 1 = n /\ n \in 0..Len(tail)
    BY <1>1
  <2>2. Framed(ids, n + 1) = Opening(ids[1]) \o Framed(tail, n)
    BY <1>4, <2>1
  <2> DEFINE last == Opening(ids[(n + 1) + 1])
             first == Opening(ids[1])
             between == Framed(tail, n)
  <2>3. /\ last \in Seq(Bytes) /\ Framed(ids, (n + 1) + 1) = Framed(ids, n + 1) \o last
    BY <2>1, FramedIs
  <2>4. between \in Seq(Bytes) /\ Framed(tail, n + 1) = between \o last
    <3>1. tail[n + 1] = ids[(n + 1) + 1]
      BY <1>1, <2>1
    <3> QED BY <1>1, <2>1, <3>1, FramedIs
  <2>5. first \in Seq(Bytes) /\ Framed(ids, n + 1) = first \o between
    BY <1>2, <2>2
  <2> HIDE DEF first, between, last
  <2>6. (first \o between) \o last = first \o (between \o last)
    BY <2>3, <2>4, <2>5, Assoc, Zenon
  <2> QED BY <2>3, <2>4, <2>5, <2>6 DEF first
<1> HIDE DEF S
<1>5. Len(ids) - 1 \in S
  BY <1>1, <1>3, <1>4, Induction
<1>6. Framed(ids, Len(ids)) = Opening(ids[1]) \o Framed(tail, Len(tail))
  <2>1. (Len(ids) - 1) + 1 = Len(ids) /\ Len(ids) - 1 < Len(ids)
    BY <1>1
  <2> QED BY <1>1, <1>5, <2>1 DEF S
<1>7. Owing(ids) = Framed(ids, Len(ids)) /\ Owing(tail) = Framed(tail, Len(tail))
  BY <1>1, OwingIs, FramedIs
<1> QED BY <1>1, <1>2, <1>6, <1>7 DEF tail

-----------------------------------------------------------------------------
(* What is left to put out *)

\* At its beginning a write owes the headers held back and its own bytes.
LEMMA BeginsOwing ==
  ASSUME IInv, NEW own \in Seq(Bytes), NEW gain, Begins(own, gain)
  PROVE  /\ Busy' /\ call'.own = own /\ call'.gain = gain /\ call'.pending = pending
         /\ UNCHANGED <<pending, Stream>> /\ Rest' = Owing(pending) \o own
<1>1. /\ Busy' /\ call'.own = own /\ call'.gain = gain /\ call'.pending = pending
      /\ UNCHANGED <<pending, Stream>>
      /\ part' = IF pending = <<>> THEN own ELSE Header(Head(pending), T_SEQUENCE_START)
  BY DEF Begins, streamVars, Busy, None, Stream
<1>2. pending \in Seq(Ids)
  BY DEF IInv, TypeOK, CallTypeOK
<1>3. CASE pending = <<>>
  <2>1. Rest' = own
    BY <1>1, <1>3 DEF Rest
  <2> QED BY <1>1, <1>2, <1>3, <2>1, OwingBytes, ConcatEmptySeq
<1>4. CASE pending # <<>>
  <2>1. Rest' = Opening(Head(pending)) \o (Owing(Tail(pending)) \o own)
    BY <1>1, <1>4 DEF Rest, Opening
  <2>2. /\ Opening(Head(pending)) \in Seq(Bytes) /\ Tail(pending) \in Seq(Ids)
        /\ Owing(pending) = Opening(Head(pending)) \o Owing(Tail(pending))
    BY <1>2, <1>4, OwingHead
  <2>3. Owing(Tail(pending)) \in Seq(Bytes)
    BY <2>2, OwingBytes
  <2>4. (Opening(Head(pending)) \o Owing(Tail(pending))) \o own
          = Opening(Head(pending)) \o (Owing(Tail(pending)) \o own)
    BY <2>2, <2>3, Assoc, Zenon
  <2> QED BY <1>1, <2>1, <2>2, <2>4
<1> QED BY <1>3, <1>4

\* While a call is under way what it still has to put out is bytes.
LEMMA RestTyped ==
  ASSUME IInv, Busy
  PROVE  /\ part \in Seq(Bytes) /\ part # <<>> /\ call.own \in Seq(Bytes)
         /\ pending \in Seq(Ids) /\ Rest \in Seq(Bytes) /\ Stream \in Seq(Bytes)
<1>1. /\ part \in Seq(Bytes) /\ part # <<>> /\ call.own \in Seq(Bytes)
      /\ pending \in Seq(Ids) /\ Stream \in Seq(Bytes)
  BY StreamTyped DEF IInv, TypeOK, CallTypeOK, CallIsPossible, Busy
<1>2. pending # <<>> => Owing(Tail(pending)) \in Seq(Bytes)
  BY <1>1, OwingHead, OwingBytes
<1> QED BY <1>1, <1>2, Assoc DEF Rest

\* A byte moves from what is left to the message; with the last one the call is over.
LEMMA StoreByteOwing ==
  ASSUME IInv, StoreByte
  PROVE  /\ Busy
         /\ \/ /\ Busy' /\ UNCHANGED <<call, result>> /\ (pending = <<>> => pending' = <<>>)
               /\ Stream' \o Rest' = Stream \o Rest
            \/ /\ ~Busy' /\ result' = "Ok" /\ pending = <<>> /\ pending' = <<>>
               /\ Stream' = Stream \o Rest
<1>0. Busy /\ Stream' = Stream \o <<Head(part)>>
  BY StreamStored DEF StoreByte, IInv, Phases
<1>1. /\ part \in Seq(Bytes) /\ part # <<>> /\ call.own \in Seq(Bytes)
      /\ pending \in Seq(Ids) /\ Rest \in Seq(Bytes) /\ Stream \in Seq(Bytes)
  BY <1>0, RestTyped
<1> DEFINE b == <<Head(part)>>
<1>2. /\ b \in Seq(Bytes)
      /\ Len(part) > 1 => Tail(part) \in Seq(Bytes) /\ b \o Tail(part) = part
      /\ ~(Len(part) > 1) => part = b
  BY <1>1, HeadAndRest
<1> HIDE DEF b
\* It is enough that the rest is the byte and what is left then.
<1>3. ASSUME Rest' \in Seq(Bytes), Rest = b \o Rest' PROVE Stream' \o Rest' = Stream \o Rest
  <2>1. Stream' = Stream \o b
    BY <1>0 DEF b
  <2>2. \A left \in Seq(Bytes) : (Stream \o b) \o left = Stream \o (b \o left)
    BY <1>1, <1>2, Assoc, Zenon
  <2> QED BY <1>3, <2>1, <2>2
<1>4. CASE Len(part) > 1
  <2>1. part' = Tail(part) /\ UNCHANGED <<pending, call, result>>
    BY <1>4 DEF StoreByte
  <2>2. CASE pending = <<>>
    <3>1. Rest = part /\ Rest' = Tail(part)
      BY <2>1, <2>2 DEF Rest
    <3> QED BY <1>0, <1>2, <1>3, <1>4, <2>1, <3>1 DEF Busy
  <2>3. CASE pending # <<>>
    <3> DEFINE after == Owing(Tail(pending)) \o call.own
    <3>1. after \in Seq(Bytes)
      BY <1>1, <2>3, OwingHead, OwingBytes, Assoc
    <3>2. Rest = part \o after /\ Rest' = Tail(part) \o after
      BY <2>1, <2>3 DEF Rest
    <3> HIDE DEF after
    <3>3. (b \o Tail(part)) \o after = b \o (Tail(part) \o after)
      BY <1>2, <1>4, <3>1, Assoc, Zenon
    <3>4. Tail(part) \o after \in Seq(Bytes)
      BY <1>2, <1>4, <3>1, Assoc
    <3> QED BY <1>0, <1>2, <1>3, <1>4, <2>1, <3>2, <3>3, <3>4 DEF Busy
  <2> QED BY <2>2, <2>3
<1>5. CASE ~(Len(part) > 1) /\ pending # <<>>
  <2>1. /\ pending' = Tail(pending) /\ UNCHANGED <<call, result>>
        /\ part' = IF Tail(pending) = <<>> THEN call.own
                   ELSE Header(Head(Tail(pending)), T_SEQUENCE_START)
    BY <1>5 DEF StoreByte, PartDone
  <2>2. Tail(pending) \in Seq(Ids)
    BY <1>1, <1>5, OwingHead
  <2>3. Rest' = Owing(Tail(pending)) \o call.own
    <3>1. CASE Tail(pending) = <<>>
      <4>1. Rest' = call.own
        BY <2>1, <3>1 DEF Rest
      <4> QED BY <1>1, <2>2, <3>1, <4>1, OwingBytes, ConcatEmptySeq
    <3>2. CASE Tail(pending) # <<>>
      <4> DEFINE tail == Tail(pending)
      <4>1. Rest' = Opening(Head(tail)) \o (Owing(Tail(tail)) \o call.own)
        BY <2>1, <3>2 DEF Rest, Opening
      <4> HIDE DEF tail
      <4>2. /\ Opening(Head(tail)) \in Seq(Bytes) /\ Owing(Tail(tail)) \in Seq(Bytes)
            /\ Owing(tail) = Opening(Head(tail)) \o Owing(Tail(tail))
        BY <2>2, <3>2, OwingHead, OwingBytes DEF tail
      <4>3. \A own \in Seq(Bytes) :
              (Opening(Head(tail)) \o Owing(Tail(tail))) \o own
                = Opening(Head(tail)) \o (Owing(Tail(tail)) \o own)
        BY <4>2, Assoc, Zenon
      <4> QED BY <1>1, <4>1, <4>2, <4>3 DEF tail
    <3> QED BY <3>1, <3>2
  <2>4. Rest = b \o Rest'
    BY <1>2, <1>5, <2>3 DEF Rest
  <2>5. Rest' \in Seq(Bytes)
    BY <1>1, <2>2, <2>3, OwingBytes, Assoc
  <2> QED BY <1>0, <1>3, <1>5, <2>1, <2>4, <2>5 DEF Busy
<1>6. CASE ~(Len(part) > 1) /\ pending = <<>>
  <2>1. /\ result' = "Ok" /\ UNCHANGED pending /\ call' = None
    BY <1>6 DEF StoreByte, PartDone
  <2>2. Rest = b
    BY <1>2, <1>6 DEF Rest
  <2> QED BY <1>0, <1>6, <2>1, <2>2 DEF Busy, b
<1> QED BY <1>4, <1>5, <1>6

\* A cut between two headers or before the call's own bytes owes what a write owes
\* at its beginning.
LEMMA CutOwing ==
  ASSUME IInv, Busy,
         part = IF pending = <<>> THEN call.own ELSE Header(Head(pending), T_SEQUENCE_START)
  PROVE  Rest = Owing(pending) \o call.own
<1>1. call.own \in Seq(Bytes) /\ pending \in Seq(Ids)
  BY RestTyped
<1>2. CASE pending = <<>>
  BY <1>1, <1>2, OwingBytes, ConcatEmptySeq DEF Rest
<1>3. CASE pending # <<>>
  <2>1. Rest = Opening(Head(pending)) \o (Owing(Tail(pending)) \o call.own)
    BY <1>3 DEF Rest, Opening
  <2>2. /\ Opening(Head(pending)) \in Seq(Bytes) /\ Owing(Tail(pending)) \in Seq(Bytes)
        /\ Owing(pending) = Opening(Head(pending)) \o Owing(Tail(pending))
    BY <1>1, <1>3, OwingHead, OwingBytes
  <2>3. (Opening(Head(pending)) \o Owing(Tail(pending))) \o call.own
          = Opening(Head(pending)) \o (Owing(Tail(pending)) \o call.own)
    BY <1>1, <2>2, Assoc, Zenon
  <2> QED BY <2>1, <2>2, <2>3
<1> QED BY <1>2, <1>3

-----------------------------------------------------------------------------
(* The steps *)

\* The same call, made of an encoder and of the one-shot encoder level with it.
LEMMA MakesCallResumes ==
  ASSUME IInv, clean, ~opening, Level, NEW c \in Calls, Make(c), OneShot(c), doing' = c,
         result # "BufferFull"
  PROVE  Underway' /\ CutShort' /\ Level'
<1>0. /\ ~Busy /\ oneShot = Stream /\ owed = pending
      /\ pending \in Seq(Ids) /\ Len(pending) \in Nat /\ Stream \in Seq(Bytes)
      /\ LAZY_SEQ_DEPTH \in Nat
  <2>1. pc = "idle"
    BY DEF Make, WriteField, write_sequence_begin_lazy, HoldsBack, FramesEagerly,
           write_sequence_end, Vanishes, write_sequence_end_keep, Begins
  <2> QED BY <2>1, StreamTyped, StreamAssumption, LenProperties
          DEF Level, IInv, Phases, TypeOK, CallTypeOK
\* What a call that puts bytes out has done to both.
<1>1. ASSUME NEW own \in Seq(Bytes), NEW gain, Begins(own, gain), Puts(own), own = OwnOf(c),
             c.op = "begin" => gain = 1 /\ Len(pending) >= LAZY_SEQ_DEPTH,
             c.op = "end" => pending = <<>>
      PROVE  Underway' /\ CutShort' /\ Level'
  <2>1. /\ Busy' /\ call'.own = own /\ call'.gain = gain /\ call'.pending = pending
        /\ UNCHANGED <<pending, Stream>> /\ Rest' = Owing(pending) \o own
    BY <1>1, BeginsOwing
  <2>2. oneShot' = (Stream \o Owing(pending)) \o own /\ owed' = <<>>
    BY <1>0, <1>1 DEF Puts
  <2>3. (Stream \o Owing(pending)) \o own = Stream \o (Owing(pending) \o own)
    <3>1. Owing(pending) \in Seq(Bytes) /\ Stream \in Seq(Bytes) /\ own \in Seq(Bytes)
      BY <1>0, <1>1, OwingBytes
    <3> QED BY <3>1, Assoc, Zenon
  <2>4. OwnOf(doing') = OwnOf(c)
    OBVIOUS
  <2>5. Underway'
    BY <1>1, <2>1, <2>2, <2>3, <2>4 DEF Underway, OwnOf
  <2> QED BY <2>1, <2>5 DEF CutShort, Level
\* What one that puts out none has.
<1>2. ASSUME pc = "idle", owed' = pending', UNCHANGED oneShot, result' = "Ok",
             UNCHANGED <<sinks, takes, buffer, offset, mem, next, retired, doingVars, free, room,
                         emitted>>
      PROVE  Underway' /\ CutShort' /\ Level'
  <2>1. ~Busy' /\ Stream' = Stream
    BY <1>0, <1>2 DEF Busy, Stream, doingVars
  <2> QED BY <1>0, <1>2, <2>1 DEF Underway, CutShort, Level
<1>3. CASE c.op = "field"
  <2>1. Begins(FieldBytes(c.field), 0) /\ c.field.id \in Ids /\ Puts(FieldBytes(c.field))
    BY <1>3 DEF Make, WriteField, OneShot
  <2>2. FieldBytes(c.field) \in Seq(Bytes)
    BY <1>3, <2>1, CallFacts, FieldAssumption, FieldTyped
  <2> QED BY <1>1, <1>3, <2>1, <2>2 DEF OwnOf
<1>4. CASE c.op = "begin"
  <2>1. CASE Len(pending) < LAZY_SEQ_DEPTH
    <3>1. /\ HoldsBack(c.id) /\ owed' = Append(owed, c.id) /\ UNCHANGED oneShot
      BY <1>0, <1>4, <2>1 DEF Make, write_sequence_begin_lazy, FramesEagerly, OneShot
    <3> QED BY <1>0, <1>2, <3>1 DEF HoldsBack
  <2>2. CASE ~(Len(pending) < LAZY_SEQ_DEPTH)
    <3>1. /\ FramesEagerly(c.id) /\ Puts(Header(c.id, T_SEQUENCE_START))
      BY <1>0, <1>4, <2>2 DEF Make, write_sequence_begin_lazy, HoldsBack, OneShot
    <3>2. Header(c.id, T_SEQUENCE_START) \in Seq(Bytes)
      BY <3>1, HeaderTyped DEF FramesEagerly, T_SEQUENCE_START
    <3> QED BY <1>1, <1>4, <3>1, <3>2 DEF FramesEagerly, OwnOf
  <2> QED BY <2>1, <2>2
<1>5. ASSUME c.op \in {"end", "end_keep"}, Begins(Header(0, T_SEQUENCE_END), -1),
             Puts(Header(0, T_SEQUENCE_END)), c.op = "end" => pending = <<>>
      PROVE  Underway' /\ CutShort' /\ Level'
  <2>1. Header(0, T_SEQUENCE_END) \in Seq(Bytes) /\ OwnOf(c) = Header(0, T_SEQUENCE_END)
    BY <1>5, HeaderTyped DEF T_SEQUENCE_END, OwnOf
  <2> QED BY <1>1, <1>5, <2>1
<1>6. CASE c.op = "end"
  <2>1. CASE pending # <<>>
    <3>1. Vanishes /\ owed' = SubSeq(owed, 1, Len(owed) - 1) /\ UNCHANGED oneShot
      BY <1>0, <1>6, <2>1 DEF Make, write_sequence_end, OneShot
    <3> QED BY <1>0, <1>2, <3>1 DEF Vanishes
  <2>2. CASE pending = <<>>
    <3>1. Begins(Header(0, T_SEQUENCE_END), -1) /\ Puts(Header(0, T_SEQUENCE_END))
      BY <1>0, <1>6, <2>2 DEF Make, write_sequence_end, Vanishes, OneShot
    <3> QED BY <1>5, <1>6, <2>2, <3>1
  <2> QED BY <2>1, <2>2
<1>7. CASE c.op = "end_keep"
  <2>1. Begins(Header(0, T_SEQUENCE_END), -1) /\ Puts(Header(0, T_SEQUENCE_END))
    BY <1>7 DEF Make, write_sequence_end_keep, OneShot
  <2> QED BY <1>5, <1>7, <2>1
<1> QED BY <1>3, <1>4, <1>6, <1>7, CallFacts

\* Made again, a call puts out what the one-shot encoder has put out already.
LEMMA MakesCallAgainResumes ==
  ASSUME IInv, CutShort, ~Busy, result = "BufferFull", Make(doing),
         UNCHANGED <<doing, oneShot, owed>>
  PROVE  Underway' /\ CutShort' /\ Level'
<1>0. /\ SameAgain /\ owed = <<>> /\ oneShot = Stream \o (Owing(pending) \o OwnOf(doing))
      /\ pending \in Seq(Ids) /\ Len(pending) \in Nat /\ LAZY_SEQ_DEPTH \in Nat
  BY StreamAssumption, LenProperties DEF CutShort, IInv, TypeOK, CallTypeOK
<1>1. ASSUME NEW own \in Seq(Bytes), NEW gain, Begins(own, gain), own = OwnOf(doing),
             doing.op = "begin" => gain = 1
      PROVE  Underway' /\ CutShort' /\ Level'
  <2>1. /\ Busy' /\ call'.own = own /\ call'.gain = gain /\ call'.pending = pending
        /\ UNCHANGED <<pending, Stream>> /\ Rest' = Owing(pending) \o own
    BY <1>1, BeginsOwing
  <2>2. OwnOf(doing') = own
    BY <1>1
  <2>3. Underway'
    BY <1>0, <1>1, <2>1, <2>2 DEF Underway, SameAgain, OwnOf
  <2> QED BY <2>1, <2>3 DEF CutShort, Level
<1>2. CASE doing.op = "field"
  <2>1. Begins(FieldBytes(doing.field), 0) /\ doing.field.id \in Ids
    BY <1>2 DEF Make, WriteField
  <2>2. FieldBytes(doing.field) \in Seq(Bytes)
    BY <1>0, <1>2, <2>1, CallFacts, FieldAssumption, FieldTyped DEF SameAgain
  <2> QED BY <1>1, <1>2, <2>1, <2>2 DEF OwnOf
<1>3. CASE doing.op = "begin"
  <2>1. FramesEagerly(doing.id)
    BY <1>0, <1>3 DEF Make, write_sequence_begin_lazy, HoldsBack, SameAgain
  <2>2. Header(doing.id, T_SEQUENCE_START) \in Seq(Bytes)
    BY <2>1, HeaderTyped DEF FramesEagerly, T_SEQUENCE_START
  <2> QED BY <1>1, <1>3, <2>1, <2>2 DEF FramesEagerly, OwnOf
<1>4. CASE doing.op \in {"end", "end_keep"}
  <2>1. Begins(Header(0, T_SEQUENCE_END), -1)
    BY <1>0, <1>4 DEF Make, write_sequence_end, Vanishes, write_sequence_end_keep, SameAgain
  <2>2. Header(0, T_SEQUENCE_END) \in Seq(Bytes) /\ OwnOf(doing) = Header(0, T_SEQUENCE_END)
    BY <1>4, HeaderTyped DEF T_SEQUENCE_END, OwnOf
  <2> QED BY <1>1, <1>4, <2>1, <2>2
<1> QED BY <1>0, <1>2, <1>3, <1>4, CallFacts DEF SameAgain

\* A call under way goes on to what the other encoder has put out, or is cut between
\* two headers or fields.
LEMMA WorksResumes ==
  ASSUME IInv, Resumable, Works, clean', ~opening'
  PROVE  Underway' /\ CutShort' /\ Level'
<1>0. Busy /\ clean /\ ~opening /\ UNCHANGED <<doing, oneShot, owed>>
  BY DEF Works, Pushes, StoreByte, BufferFull, DrainsWhenFull, IInv, Phases
<1>1. /\ doing \in Calls /\ call.own = OwnOf(doing)
      /\ doing.op = "begin" => call.gain = 1 /\ Len(call.pending) >= LAZY_SEQ_DEPTH
      /\ doing.op = "end" => pending = <<>>
      /\ owed = <<>> /\ oneShot = Stream \o Rest
  BY <1>0 DEF Resumable, Underway
<1>2. OwnOf(doing') = OwnOf(doing)
  BY <1>0
<1>3. CASE StoreByte
  <2>1. CASE /\ Busy' /\ UNCHANGED <<call, result>> /\ (pending = <<>> => pending' = <<>>)
             /\ Stream' \o Rest' = Stream \o Rest
    <3>1. Underway'
      BY <1>0, <1>1, <1>2, <2>1 DEF Underway, OwnOf
    <3> QED BY <2>1, <3>1 DEF CutShort, Level
  <2>2. CASE /\ ~Busy' /\ result' = "Ok" /\ pending = <<>> /\ pending' = <<>>
             /\ Stream' = Stream \o Rest
    BY <1>0, <1>1, <2>2 DEF Underway, CutShort, Level
  <2> QED BY <1>3, <2>1, <2>2, StoreByteOwing
<1>4. CASE BufferFull
  <2>1. /\ ~Busy' /\ result' = "BufferFull" /\ pending' = pending /\ Stream' = Stream /\ Cuts
    BY <1>4 DEF BufferFull, Cuts, Busy, Stream, streamVars
  <2>2. Rest = Owing(pending) \o call.own
    BY <1>0, <2>1, CutOwing DEF Works
  <2>3. doing.op = "begin" => Len(pending) >= LAZY_SEQ_DEPTH
    BY <1>1, <2>1 DEF Works
  <2>4. SameAgain'
    BY <1>0, <1>1, <2>1, <2>3 DEF SameAgain
  <2>5. oneShot' = Stream' \o (Owing(pending') \o OwnOf(doing'))
    BY <1>0, <1>1, <1>2, <2>1, <2>2
  <2>6. CutShort'
    BY <1>0, <1>1, <2>4, <2>5 DEF CutShort, OwnOf
  <2> QED BY <2>1, <2>6 DEF Underway, Level
<1>5. CASE DrainsWhenFull
  <2>1. /\ UNCHANGED <<call, part, pending, result>> /\ room' = offset' /\ offset' = offset
        /\ emitted' = Stream
    BY <1>5 DEF DrainsWhenFull, HandsOver, streamVars
  <2>2. offset \in Nat /\ Stream \in Seq(Bytes)
    BY StreamAssumption, StreamTyped DEF IInv, TypeOK, BufferTypeOK
  <2>3. Stream' = Stream
    BY <2>1, <2>2, StreamEmptied
  <2>4. Busy' /\ Rest' = Rest
    BY <1>0, <2>1 DEF Busy, Rest
  <2>5. Underway'
    BY <1>0, <1>1, <1>2, <2>1, <2>3, <2>4 DEF Underway, OwnOf
  <2> QED BY <2>4, <2>5 DEF CutShort, Level
<1> QED BY <1>3, <1>4, <1>5 DEF Works, Pushes

\* Another buffer changes nothing of the message.
LEMMA ReinstallsResumes ==
  ASSUME IInv, Resumable, Reinstalls, clean, ~opening
  PROVE  Underway' /\ CutShort' /\ Level'
<1>1. PICK b \in free, off \in Offsets : buffer_set(b, off)
  BY DEF Reinstalls
<1>2. UNCHANGED <<doing, oneShot, owed, sinks, pending, call, part, result>>
  BY <1>1, BufferSetMoves DEF Reinstalls
<1>3. Stream' = Stream
  BY <1>1, BufferSetMoves
<1>4. ~Busy /\ ~Busy'
  BY <1>1, <1>2 DEF buffer_set, IInv, Phases, Busy
<1>5. OwnOf(doing') = OwnOf(doing)
  BY <1>2
<1> QED BY <1>2, <1>3, <1>4, <1>5
        DEF Resumable, Underway, CutShort, Level, SameAgain, OwnOf

\* Both encoders start level.
LEMMA ResumableInit == RecoveryInit => Resumable
<1> SUFFICES ASSUME RecoveryInit PROVE Resumable
  OBVIOUS
<1>1. Stream = <<>> /\ ~Busy /\ result = "Ok"
  <2>1. Sent = <<>> /\ ~Busy
    BY PromiseInit DEF RecoveryInit, Init, Promise!Init, Busy
  <2> QED BY <2>1 DEF Sent, RecoveryInit, Init
<1> QED BY <1>1 DEF RecoveryInit, Init, Resumable, Underway, CutShort, Level

\* Every step of the caller keeps what the resumption rests on.
LEMMA ResumableNext ==
  IInv /\ Resumable /\ [RecoveryNext]_recoveryVars => Resumable'
<1> SUFFICES ASSUME IInv, Resumable, [RecoveryNext]_recoveryVars, clean', ~opening'
             PROVE  Underway' /\ CutShort' /\ Level'
  BY DEF Resumable
<1>1. CASE MakesCall
  <2>1. /\ result # "BufferFull" /\ clean /\ ~opening
        /\ \E c \in Calls : Make(c) /\ OneShot(c) /\ doing' = c
    BY <1>1 DEF MakesCall
  <2> QED BY <2>1, MakesCallResumes DEF Resumable
<1>2. CASE GivesUp
  BY <1>2 DEF GivesUp
<1>3. CASE MakesCallAgain
  <2>1. /\ result = "BufferFull" /\ clean /\ ~opening /\ Make(doing)
        /\ UNCHANGED <<doing, oneShot, owed>>
    BY <1>3 DEF MakesCallAgain
  <2>2. ~Busy
    BY <2>1 DEF Make, WriteField, write_sequence_begin_lazy, HoldsBack, FramesEagerly,
           write_sequence_end, Vanishes, write_sequence_end_keep, Begins, IInv, Phases
  <2> QED BY <2>1, <2>2, MakesCallAgainResumes DEF Resumable
<1>4. CASE Reinstalls
  BY <1>4, ReinstallsResumes DEF Reinstalls
<1>5. CASE Works
  BY <1>5, WorksResumes
<1>6. CASE UNCHANGED recoveryVars
  <2>1. UNCHANGED <<call, part, pending, result, doing, oneShot, owed, clean, opening, Stream>>
    BY <1>6 DEF recoveryVars, vars, streamVars, doingVars, Stream
  <2>2. Busy' = Busy /\ Rest' = Rest
    BY <2>1 DEF Busy, Rest
  <2>3. OwnOf(doing') = OwnOf(doing)
    BY <2>1
  <2> QED BY <2>1, <2>2, <2>3 DEF Resumable, Underway, CutShort, Level, SameAgain, OwnOf
<1> QED BY <1>1, <1>2, <1>3, <1>4, <1>5, <1>6 DEF RecoveryNext

-----------------------------------------------------------------------------
(* Theorems *)

\* Wherever the buffers run out, as long as every cut falls between two headers or
\* fields and none leaves a call that begins a sequence with room in the window:
\* when the failed call has been made again the bytes in all the buffers, with the
\* headers still held back, are those of an encoder that never ran out.
THEOREM CutsAreResumed == RecoverySpec => []ResumesUnlessOpening
<1>1. IInv /\ Resumable => ResumesUnlessOpening
  BY DEF IInv, Phases, Resumable, Level, ResumesUnlessOpening, SameBytes
<1>2. RecoverySpec => []Resumable
  BY ResumableInit, ResumableNext, KnownAlways, PTL DEF RecoverySpec
<1> QED BY <1>1, <1>2, KnownAlways, PTL

\* Making calls again and giving them up is one way to use the encoder: whatever
\* the caller does about its cuts, what comes out is a MessageWriter's.
THEOREM RecoveringKeepsPromise == RecoverySpec => KeepsPromise
<1>1. RecoverySpec => Spec
  <2>1. RecoveryInit => Init
    BY DEF RecoveryInit
  <2> QED BY <2>1, RecoveryStepsAreSteps, KnownAlways, PTL DEF RecoverySpec, Spec
<1> QED BY <1>1, PromiseKept
=============================================================================
