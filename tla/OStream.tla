------------------------------ MODULE OStream ------------------------------
(***************************************************************************)
(* The streaming encoder of ostream.rs.  A caller writes fields into an    *)
(* OStream; bytes go one at a time into the active buffer.  A full buffer  *)
(* is handed to the sink, which may copy it or take it and install another *)
(* through the Handover; with no sink it ends the write with BufferFull.   *)
(*                                                                         *)
(* A write is a call in progress (`call`) whose bytes are pushed one step  *)
(* each; a callback of the sink is a phase of its own (`pc`), in which the *)
(* sink may use the Handover before it returns.                            *)
(*                                                                         *)
(* A definition whose name ends in _but_... is the one that follows it     *)
(* with a mistake: the properties must tell the two apart.                 *)
(***************************************************************************)
EXTENDS Encoding

CONSTANTS
  Buffers,         \* the output buffers the caller owns
  Size,            \* their lengths
  First,           \* the one the stream is built on
  Offsets,         \* the start offsets installations ask for
  Constructors,    \* how callers build their streams
  LAZY_SEQ_DEPTH,  \* how many sequence headers can be held back (8)
  FieldInputs,     \* the fields that are written
  SequenceIds,     \* the ids of the sequences that are begun
  MaxMessage       \* no write begins that would make the message longer

ASSUME StreamAssumption ==
  /\ Size \in [Buffers -> Nat] /\ First \in Buffers
  /\ Offsets \subseteq Nat /\ 0 \in Offsets
  /\ Constructors \subseteq {"with_offset", "with_flush", "with_handover"}
  /\ LAZY_SEQ_DEPTH \in Nat /\ MaxMessage \in Nat
  /\ SequenceIds \subseteq Nat

ASSUME FieldAssumption == \A field \in FieldInputs : IsField(field)

VARIABLES
  sinks,           \* Flush::SINKS: whether a full buffer drains
  takes,           \* Handoff::TAKES: whether the sink has a Handover
  buffer, offset,  \* the active buffer and the cursor in it
  mem,             \* the bytes in each buffer
  depth,           \* open sequences
  pending,         \* ids of the innermost ones whose headers are held back
  next, retired,   \* Handover: the replacement installed, the buffer given up
  pc,              \* "idle", "push", "store" (retry after a drain), "sink"
  call,            \* the write in progress
  part,            \* bytes left of the held-back header, or of the call's own
  then,            \* where a drain goes on: what it was called for
  result,          \* what the last write returned
  free,            \* buffers the caller holds, for the sink or buffer_set
  room,            \* where the message bytes in the active buffer start
  emitted          \* message bytes in units already handed over

streamVars == <<sinks, takes, buffer, offset, depth, pending>>
doingVars  == <<pc, call, part, then>>
vars == <<streamVars, mem, next, retired, doingVars, result, free, room, emitted>>

None              == [is |-> "none"]
MIN_OUTPUT_BUFFER == 1

\* The message bytes so far, wherever they are.
Stream == emitted \o SubSeq(mem[buffer], room + 1, offset)

check_install(b, off) ==
  off <= Size[b] /\ (sinks => Size[b] - off >= MIN_OUTPUT_BUFFER)

\* The type of the sink decides what the stream can do: without one, with one
\* that copies, and with one that may take the buffer.
Built == \E constructor \in Constructors :
           sinks = (constructor # "with_offset") /\ takes = (constructor = "with_handover")

Init ==
  /\ Built
  /\ buffer = First /\ offset \in Offsets /\ check_install(First, offset)
  /\ mem = [b \in Buffers |-> [i \in 1..Size[b] |-> 0]]
  /\ depth = 0 /\ pending = <<>>
  /\ next = None /\ retired = None
  /\ pc = "idle" /\ call = None /\ part = <<>> /\ then = None
  /\ result = "Ok" /\ free = Buffers \ {First}
  /\ room = offset /\ emitted = <<>>

-----------------------------------------------------------------------------
(* Writes begin *)

\* A write of `own` bytes: write_id_type commits the held-back headers first.
Begins(own, gain) ==
  /\ pc = "idle" /\ Len(Stream) + Len(own) <= MaxMessage
  /\ pc' = "push"
  /\ call' = [is |-> "write", own |-> own, gain |-> gain,
              size |-> Len(Stream), pending |-> pending]
  /\ part' = IF pending = <<>> THEN own ELSE Header(Head(pending), T_SEQUENCE_START)
  /\ UNCHANGED <<streamVars, mem, next, retired, then, result, free, room, emitted>>

WriteField(field) == field.id \in Ids /\ Begins(FieldBytes(field), 0)

\* Held back: no byte is written.
HoldsBack_but_unbounded(id) ==
  /\ pc = "idle" /\ id \in Ids /\ Len(pending) < LAZY_SEQ_DEPTH
  /\ pending' = Append(pending, id) /\ depth' = depth + 1 /\ result' = "Ok"
  /\ UNCHANGED <<sinks, takes, buffer, offset, mem, next, retired, doingVars, free, room,
                 emitted>>

HoldsBack(id) ==
  /\ pc = "idle" /\ depth < MaxDepth /\ id \in Ids /\ Len(pending) < LAZY_SEQ_DEPTH
  /\ pending' = Append(pending, id) /\ depth' = depth + 1 /\ result' = "Ok"
  /\ UNCHANGED <<sinks, takes, buffer, offset, mem, next, retired, doingVars, free, room,
                 emitted>>

\* The window is full: the run is committed and this sequence framed at once.
FramesEagerly(id) ==
  /\ depth < MaxDepth /\ id \in Ids /\ Len(pending) >= LAZY_SEQ_DEPTH
  /\ Begins(Header(id, T_SEQUENCE_START), 1)

write_sequence_begin_lazy(id) == HoldsBack(id) \/ FramesEagerly(id)

\* The innermost open sequence is the last one held back: it vanishes.
Vanishes_but_still_held ==
  /\ pc = "idle" /\ depth > 0 /\ pending # <<>>
  /\ depth' = depth - 1 /\ result' = "Ok" /\ UNCHANGED pending
  /\ UNCHANGED <<sinks, takes, buffer, offset, mem, next, retired, doingVars, free, room,
                 emitted>>

Vanishes ==
  /\ pc = "idle" /\ depth > 0 /\ pending # <<>>
  /\ pending' = SubSeq(pending, 1, Len(pending) - 1)
  /\ depth' = depth - 1 /\ result' = "Ok"
  /\ UNCHANGED <<sinks, takes, buffer, offset, mem, next, retired, doingVars, free, room,
                 emitted>>

write_sequence_end ==
  Vanishes \/ (depth > 0 /\ pending = <<>> /\ Begins(Header(0, T_SEQUENCE_END), -1))

write_sequence_end_keep == depth > 0 /\ Begins(Header(0, T_SEQUENCE_END), -1)

\* A call refused with Argument returns before anything changes: an id past
\* ID_MAX, a sequence too deep or none open, bytes for a string.
Refused ==
  /\ pc = "idle"
  /\ \/ \E field \in FieldInputs : field.id \notin Ids
     \/ "sequence" \in Features /\
          (depth >= MaxDepth \/ depth = 0 \/ \E id \in SequenceIds : id \notin Ids)
     \/ "fixlen" \in Features
  /\ result' = "Argument"
  /\ UNCHANGED <<streamVars, mem, next, retired, doingVars, free, room, emitted>>

-----------------------------------------------------------------------------
(* Bytes go out *)

\* What follows when the last byte of a part is in the buffer: the next header
\* of the run, the call's own bytes, or the call's return.
PartDone_but_run_cleared ==
  IF pending # <<>>
    THEN /\ pending' = <<>>
         /\ part' = call.own
         /\ pc' = "push" /\ UNCHANGED <<depth, call, result>>
    ELSE /\ depth' = depth + call.gain /\ result' = "Ok"
         /\ pc' = "idle" /\ call' = None /\ part' = <<>> /\ UNCHANGED pending

PartDone ==
  IF pending # <<>>
    THEN /\ pending' = Tail(pending)
         /\ part' = IF Tail(pending) = <<>> THEN call.own
                    ELSE Header(Head(Tail(pending)), T_SEQUENCE_START)
         /\ pc' = "push" /\ UNCHANGED <<depth, call, result>>
    ELSE /\ depth' = depth + call.gain /\ result' = "Ok"
         /\ pc' = "idle" /\ call' = None /\ part' = <<>> /\ UNCHANGED pending

\* push_byte where the cursor is inside the buffer.
StoreByte ==
  /\ pc \in {"push", "store"} /\ offset < Size[buffer]
  /\ mem' = [mem EXCEPT ![buffer] = [@ EXCEPT ![offset + 1] = Head(part)]]
  /\ offset' = offset + 1
  /\ IF Len(part) > 1
       THEN part' = Tail(part) /\ pc' = "push" /\ UNCHANGED <<depth, pending, call, result>>
       ELSE PartDone
  /\ UNCHANGED <<sinks, takes, buffer, next, retired, then, free, room, emitted>>

\* The write ends where it is: no sink, or no room even after a drain.
BufferFull_but_ids_lost ==
  /\ offset >= Size[buffer] /\ (pc = "store" \/ (pc = "push" /\ ~sinks))
  /\ pc' = "idle" /\ call' = None /\ part' = <<>> /\ result' = "BufferFull"
  /\ pending' = <<>>
  /\ UNCHANGED <<sinks, takes, buffer, offset, depth, mem, next, retired, then, free, room,
                 emitted>>

BufferFull ==
  /\ offset >= Size[buffer] /\ (pc = "store" \/ (pc = "push" /\ ~sinks))
  /\ pc' = "idle" /\ call' = None /\ part' = <<>> /\ result' = "BufferFull"
  /\ UNCHANGED <<streamVars, mem, next, retired, then, free, room, emitted>>

-----------------------------------------------------------------------------
(* Draining *)

\* drain, up to the callback: the unit is handed to the sink.
HandsOver(goal) ==
  /\ pc' = "sink" /\ then' = goal
  /\ emitted' = Stream /\ room' = offset

DrainsWhenFull ==
  /\ pc = "push" /\ offset >= Size[buffer] /\ sinks
  /\ HandsOver([is |-> "push"])
  /\ UNCHANGED <<streamVars, mem, next, retired, call, part, result, free>>

\* With no sink, or nothing in the buffer, flush changes nothing.
flush ==
  /\ pc = "idle" /\ offset > 0 /\ sinks
  /\ HandsOver([is |-> "flush"])
  /\ UNCHANGED <<streamVars, mem, next, retired, call, part, result, free>>

\* drain, after the callback: the replacement becomes active at its own offset
\* and the buffer it replaces is retired, dropping one retired before; without
\* a replacement writing resumes at 0 in the same buffer.
Returns_but_not_retired ==
  IF takes /\ next # None
    THEN /\ next' = None /\ UNCHANGED retired
         /\ buffer' = next.buffer /\ offset' = next.offset /\ room' = next.offset
    ELSE /\ offset' = 0 /\ room' = 0 /\ UNCHANGED <<buffer, next, retired>>

Returns_but_replacement_retired ==
  IF takes /\ next # None
    THEN /\ retired' = [is |-> "buffer", buffer |-> next.buffer] /\ next' = None
         /\ buffer' = next.buffer /\ offset' = next.offset /\ room' = next.offset
    ELSE /\ offset' = 0 /\ room' = 0 /\ UNCHANGED <<buffer, next, retired>>

Returns_but_without_offset ==
  IF takes /\ next # None
    THEN /\ retired' = [is |-> "buffer", buffer |-> buffer] /\ next' = None
         /\ buffer' = next.buffer /\ offset' = 0 /\ room' = next.offset
    ELSE /\ offset' = 0 /\ room' = 0 /\ UNCHANGED <<buffer, next, retired>>

Returns ==
  IF takes /\ next # None
    THEN /\ retired' = [is |-> "buffer", buffer |-> buffer] /\ next' = None
         /\ buffer' = next.buffer /\ offset' = next.offset /\ room' = next.offset
    ELSE /\ offset' = 0 /\ room' = 0 /\ UNCHANGED <<buffer, next, retired>>

SinkReturns_but_while_installed ==
  /\ pc = "sink" /\ then.is # "swap" /\ Returns
  /\ IF takes /\ next # None
       THEN UNCHANGED <<pc, then>>
       ELSE pc' = (IF then.is = "push" THEN "store" ELSE "idle") /\ then' = None
  /\ UNCHANGED <<sinks, takes, mem, depth, pending, call, part, result, free, emitted>>

SinkReturns ==
  /\ pc = "sink" /\ then.is # "swap" /\ Returns
  /\ pc' = IF then.is = "push" THEN "store" ELSE "idle"
  /\ then' = None
  /\ UNCHANGED <<sinks, takes, mem, depth, pending, call, part, result, free, emitted>>

\* buffer_set goes on after its flush: its buffer supersedes one installed
\* during the callback, whose borrow ends with the outgoing one's.
SwapReturns ==
  /\ pc = "sink" /\ then.is = "swap"
  /\ buffer' = then.buffer /\ offset' = then.offset /\ room' = then.offset
  /\ IF takes /\ next # None
       THEN retired' = [is |-> "buffer", buffer |-> buffer] /\ next' = None
       ELSE UNCHANGED <<retired, next>>
  /\ pc' = "idle" /\ then' = None
  /\ UNCHANGED <<sinks, takes, mem, depth, pending, call, part, result, free, emitted>>

\* buffer_set: checked first, then what is buffered is drained to the sink, or
\* stays in the outgoing buffer with the caller.  A refused buffer is consumed
\* by the call all the same.
buffer_set_but_not_drained(b, off) ==
  /\ pc = "idle" /\ b \in free /\ free' = free \ {b}
  /\ IF check_install(b, off)
       THEN buffer' = b /\ offset' = off /\ room' = off
       ELSE UNCHANGED <<buffer, offset, room>>
  /\ UNCHANGED <<sinks, takes, depth, pending, mem, next, retired, call, part, result, pc, then,
                 emitted>>

buffer_set(b, off) ==
  /\ pc = "idle" /\ b \in free /\ free' = free \ {b}
  /\ IF check_install(b, off)
       THEN IF sinks /\ offset > 0
              THEN /\ HandsOver([is |-> "swap", buffer |-> b, offset |-> off])
                   /\ UNCHANGED <<buffer, offset>>
              ELSE /\ emitted' = Stream /\ buffer' = b /\ offset' = off /\ room' = off
                   /\ UNCHANGED <<pc, then>>
       ELSE UNCHANGED <<buffer, offset, room, emitted, pc, then>>
  /\ UNCHANGED <<sinks, takes, depth, pending, mem, next, retired, call, part, result>>

-----------------------------------------------------------------------------
(* Handover, from the callback or between writes *)

\* The last buffer installed wins; a refused one leaves the channel as it was.
install_but_no_minimum(b, off) ==
  /\ takes /\ pc \in {"sink", "idle"} /\ b \in free /\ free' = free \ {b}
  /\ next' = IF off <= Size[b]
               THEN [is |-> "buffer", buffer |-> b, offset |-> off] ELSE next
  /\ UNCHANGED <<streamVars, mem, retired, doingVars, result, room, emitted>>

install(b, off) ==
  /\ takes /\ pc \in {"sink", "idle"} /\ b \in free /\ free' = free \ {b}
  /\ next' = IF off <= Size[b] /\ Size[b] - off >= MIN_OUTPUT_BUFFER
               THEN [is |-> "buffer", buffer |-> b, offset |-> off] ELSE next
  /\ UNCHANGED <<streamVars, mem, retired, doingVars, result, room, emitted>>

taken ==
  /\ takes /\ pc \in {"sink", "idle"} /\ retired # None
  /\ free' = free \cup {retired.buffer} /\ retired' = None
  /\ UNCHANGED <<streamVars, mem, next, doingVars, result, room, emitted>>

-----------------------------------------------------------------------------
WritesField == \E field \in FieldInputs : WriteField(field)

BeginsSequence ==
  "sequence" \in Features /\ \E id \in SequenceIds : write_sequence_begin_lazy(id)

EndsSequence == "sequence" \in Features /\ (write_sequence_end \/ write_sequence_end_keep)

Pushes == StoreByte \/ BufferFull \/ DrainsWhenFull

Drains == flush \/ SinkReturns \/ SwapReturns

Installs == \E b \in free, off \in Offsets : buffer_set(b, off) \/ install(b, off)

Next == WritesField \/ BeginsSequence \/ EndsSequence \/ Refused \/ Pushes
          \/ Drains \/ Installs \/ taken

Spec == Init /\ [][Next]_vars

-----------------------------------------------------------------------------
(* Properties *)

BufferTypeOK ==
  /\ sinks \in BOOLEAN /\ takes \in BOOLEAN
  /\ buffer \in Buffers /\ offset \in 0..Size[buffer] /\ room \in 0..offset
  /\ mem \in [Buffers -> Seq(Bytes)] /\ \A b \in Buffers : Len(mem[b]) = Size[b]
  /\ free \subseteq Buffers
  /\ emitted \in Seq(Bytes)

HandoverTypeOK ==
  /\ retired \in {None} \cup [is : {"buffer"}, buffer : Buffers]
  /\ \/ next = None
     \/ /\ next \in [is : {"buffer"}, buffer : Buffers, offset : Nat]
        /\ next.offset < Size[next.buffer]

CallTypeOK ==
  /\ pc \in {"idle", "push", "store", "sink"}
  /\ depth \in 0..MaxDepth /\ pending \in Seq(Ids) /\ part \in Seq(Bytes)
  /\ \/ call = None
     \/ call \in [is : {"write"}, own : Seq(Bytes), gain : {-1, 0, 1},
                  size : Nat, pending : Seq(Ids)]
  /\ \/ then \in {None} \cup [is : {"push", "flush"}]
     \/ /\ then \in [is : {"swap"}, buffer : Buffers, offset : Nat]
        /\ check_install(then.buffer, then.offset)
  /\ result \in {"Ok", "Argument", "BufferFull"}

\* Every variable stays in its type; the cursor never leaves the active buffer
\* and an installed replacement always has room for a byte.
TypeOK == BufferTypeOK /\ HandoverTypeOK /\ CallTypeOK

\* The held-back run is never longer than the window or than the sequences that
\* are open: npending counts a suffix of them, also where the buffer ran out in
\* the middle of a run.
HeldBackAreOpen == Len(pending) <= depth /\ Len(pending) <= LAZY_SEQ_DEPTH

\* With a sink a full buffer is uneventful: whatever the sizes and offsets of
\* the buffers, and whatever the sink installs, no write is cut.
NoBufferFullWithASink == sinks => result # "BufferFull"

\* A write in progress has added nothing yet as far as its caller can tell.
Busy == call # None
Sent == IF Busy THEN SubSeq(Stream, 1, call.size) ELSE Stream
Held == IF Busy THEN call.pending ELSE pending

Promise == INSTANCE MessageWriter WITH msg <- Sent, pending <- Held

\* The encoder keeps the promise of MessageWriter: however the message is cut
\* into buffers, drained, flushed, swapped and taken, the bytes that come out
\* are those of the writes in one piece; without a sink a full buffer leaves
\* exactly a prefix, and the headers that are not in it held back.
KeepsPromise == Promise!Spec
=============================================================================
