------------------------------ MODULE Loopback ------------------------------
(***************************************************************************)
(* Encoder and decoder together: the sink feeds each unit it is handed to  *)
(* an IStream before it returns, in chunks of any size.  Where a buffer    *)
(* ends on one side and where a feed begins on the other fall anywhere in  *)
(* headers, words, floats and payloads.  The decoder is that of IStream,   *)
(* its variables under names of their own, with a visitor that joins the   *)
(* chunks of a payload as in Decoding.                                     *)
(***************************************************************************)
EXTENDS RoundTrip

CONSTANT MaxChunk  \* the longest chunk one feed is given

ASSUME FeedAssumption == MaxChunk \in Nat

\* Only what can be read back is written, and the words of the floats fit as well.
ASSUME ReadableAssumption ==
  /\ 2 * FloatBytes <= ARRAY_MAX /\ 2 * FloatBytes * 8 + 7 \in Unsigned
  /\ \A field \in FieldInputs : Readable(field)

VARIABLES
  r_acc, r_shift, r_state, r_array_kind, r_fixlen_type, r_depth, r_id,
  r_array_remaining, r_fixlen_total, r_fixlen_remaining, r_acc_lo,
  r_left, r_status, r_calls,  \* the receiving IStream
  fed,                        \* how many of the emitted bytes it has taken
  heard                       \* the events its visitor has seen

receiver == <<r_acc, r_shift, r_state, r_array_kind, r_fixlen_type, r_depth, r_id,
              r_array_remaining, r_fixlen_total, r_fixlen_remaining, r_acc_lo,
              r_left, r_status, r_calls, fed, heard>>
loopVars == <<tripVars, receiver>>

Receiver == INSTANCE Decoding WITH
  acc <- r_acc, shift <- r_shift, state <- r_state, array_kind <- r_array_kind,
  fixlen_type <- r_fixlen_type, depth <- r_depth, id <- r_id,
  array_remaining <- r_array_remaining, fixlen_total <- r_fixlen_total,
  fixlen_remaining <- r_fixlen_remaining, acc_lo <- r_acc_lo,
  left <- r_left, status <- r_status, calls <- r_calls,
  seen <- SubSeq(emitted, 1, fed), log <- heard,
  Input <- Bytes, PayloadInput <- Bytes

LoopInit == TripInit /\ Receiver!Init /\ fed = 0 /\ heard = <<>>

Takes(n) == fed' = fed + n /\ Receiver!Hears

\* The sink's callback: what it was handed is fed until nothing is left.
Receives ==
  /\ pc = "sink"
  /\ \/ \E n \in 1..MaxChunk : n <= Len(emitted) - fed /\ Receiver!FeedBegins(n) /\ Takes(0)
     \/ Receiver!FeedReturns /\ Takes(0)
     \/ fed < Len(emitted) /\ Receiver!step(emitted[fed + 1]) /\ Takes(1)
     \/ \E n \in 1..MaxChunk :
          /\ n <= Len(emitted) - fed
          /\ Receiver!RawRun(SubSeq(emitted, fed + 1, fed + n)) /\ Takes(n)
  /\ UNCHANGED tripVars

\* The encoder goes on when the sink has fed all it was handed.
Writes ==
  /\ fed = Len(emitted) /\ r_status # "Feeding"
  /\ TripNext
  /\ UNCHANGED receiver

LoopNext == Writes \/ Receives

LoopSpec == LoopInit /\ [][LoopNext]_loopVars

\* When everything written has been flushed, the receiving visitor has seen
\* exactly what the caller wrote, value for value, wherever the buffers ended
\* and the feeds began, and the last feed said COMPLETE exactly if no sequence
\* that was framed is still open.
Arrives ==
  call = None /\ pc = "idle" /\ fed = Len(Stream) /\ fed > 0 =>
    /\ heard = said
    /\ r_status = IF Len(pending) = depth THEN "Complete" ELSE "Incomplete"

\* The receiver's accumulator is clean whenever a value begins, the second word
\* of a build where an fp64 takes two included.
ReceiverClean == Receiver!CleanAccumulator
=============================================================================
