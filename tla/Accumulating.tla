---------------------------- MODULE Accumulating ----------------------------
(***************************************************************************)
(* A decoder whose visitor feeds the chunks of every string and blob to    *)
(* one PayloadAcc.  A message may be abandoned anywhere between two feeds: *)
(* the decoder is replaced by a new one, the accumulator is not.           *)
(***************************************************************************)
EXTENDS Decoding

CONSTANT N  \* bytes of its storage

ASSUME AccumulatorAssumption == N \in Nat

VARIABLES
  buf, len, complete, out,  \* the accumulator
  got                       \* the payloads it has handed back, this message

accumulator  == <<buf, len, complete, out>>
accumulating == <<historyVars, accumulator, got>>

Acc == INSTANCE PayloadAcc

IsPayload(event) == event.fn \in {"string", "blob"}

AccumulatingInit == HistoryInit /\ Acc!Init /\ got = <<>>

\* The visitor passes on the payload chunk of this step, if there is one.
Passes ==
  LET chunks == {i \in 1..Len(calls') : IsPayload(calls'[i])}
  IN IF chunks = {} THEN UNCHANGED <<accumulator, got>>
     ELSE \E i \in chunks :
            /\ Acc!feed(calls'[i].total, calls'[i].offset, calls'[i].chunk)
            /\ got' = IF out'.is = "payload" THEN Append(got, out'.bytes) ELSE got

\* IStream::default() for the next message.
Restarts ==
  /\ status \notin {"New", "Feeding"}
  /\ acc' = 0 /\ shift' = 0 /\ state' = "Idle" /\ acc_lo' = 0
  /\ array_kind' = "Unsigned" /\ fixlen_type' = "Blob"
  /\ depth' = 0 /\ id' = 0 /\ array_remaining' = 0
  /\ fixlen_total' = 0 /\ fixlen_remaining' = 0
  /\ left' = 0 /\ status' = "New" /\ calls' = <<>>
  /\ seen' = <<>> /\ log' = <<>> /\ got' = <<>>
  /\ UNCHANGED accumulator

AccumulatingNext == (HistoryNext /\ Passes) \/ Restarts

AccumulatingSpec == AccumulatingInit /\ [][AccumulatingNext]_accumulating

\* The payloads of a message, as far as they are all there and the storage can
\* hold them.
Fits(event) == IsPayload(event) /\ event.total <= N /\ Len(event.chunk) = event.total

Wholes(events) ==
  LET wholes[n \in 0..Len(events)] ==
        IF n = 0 THEN <<>>
        ELSE IF Fits(events[n]) THEN Append(wholes[n - 1], events[n].chunk)
        ELSE wholes[n - 1]
  IN wholes[Len(events)]

\* The payloads handed back are those of the message, each once and in order,
\* however it was cut into chunks and whatever message was abandoned before it;
\* one that is not all there yet, or that the storage cannot hold, is not.
PayloadsArriveWhole == got = Wholes(log)
=============================================================================
