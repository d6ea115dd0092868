--------------------------- MODULE MessageWriter ---------------------------
(***************************************************************************)
(* What the encoder promises its caller, with no buffer, cursor, flush or  *)
(* installation in sight: every write adds its bytes to the message in one *)
(* piece, sequence headers that had been held back first.  Where there is  *)
(* no sink the buffer may end in the middle of a write; the message then   *)
(* gains exactly the first bytes of what the write would have added, and   *)
(* the headers that did not get out stay held back.                        *)
(***************************************************************************)
EXTENDS Encoding

CONSTANTS
  LAZY_SEQ_DEPTH,  \* how many sequence headers can be held back
  FieldInputs,     \* the fields that are written
  SequenceIds      \* the ids of the sequences that are begun

VARIABLES
  sinks,    \* whether a full buffer drains to a sink
  msg,      \* the message so far
  depth,    \* sequences begun and not ended
  pending,  \* ids of the innermost of them, whose headers are held back
  result    \* what the last write returned

vars == <<sinks, msg, depth, pending, result>>

Init == sinks \in BOOLEAN /\ msg = <<>> /\ depth = 0 /\ pending = <<>> /\ result = "Ok"

\* The headers of the held-back sequences, outermost first.
Framing(ids) == Each(ids, LAMBDA id : Header(id, T_SEQUENCE_START))

\* All of the write, or as much of it as there was room for.
Write(bytes, gain) ==
  LET whole == Framing(pending) \o bytes
  IN \/ /\ msg' = msg \o whole /\ pending' = <<>>
        /\ depth' = depth + gain /\ result' = "Ok"
     \/ /\ ~sinks
        /\ \E n \in 0..(Len(whole) - 1) :
             /\ msg' = msg \o SubSeq(whole, 1, n)
             /\ \E out \in 0..Len(pending) :
                  /\ Len(Framing(SubSeq(pending, 1, out))) <= n
                  /\ out < Len(pending) => Len(Framing(SubSeq(pending, 1, out + 1))) > n
                  /\ pending' = SubSeq(pending, out + 1, Len(pending))
        /\ depth' = depth /\ result' = "BufferFull"

WriteField == \E field \in FieldInputs : field.id \in Ids /\ Write(FieldBytes(field), 0)

\* A sequence is begun without a byte while there is room to hold it back.
SequenceBegins ==
  \E id \in SequenceIds \cap Ids :
    /\ depth < MaxDepth
    /\ IF Len(pending) < LAZY_SEQ_DEPTH
         THEN /\ pending' = Append(pending, id) /\ depth' = depth + 1
              /\ result' = "Ok" /\ UNCHANGED msg
         ELSE Write(Header(id, T_SEQUENCE_START), 1)

\* A sequence that is ended while held back was empty and leaves no trace.
SequenceVanishes ==
  /\ pending # <<>>
  /\ pending' = SubSeq(pending, 1, Len(pending) - 1) /\ depth' = depth - 1
  /\ result' = "Ok" /\ UNCHANGED msg

SequenceEnds == depth > 0 /\ Write(Header(0, T_SEQUENCE_END), -1)

\* A write that cannot be represented changes nothing.
Refuse == result' = "Argument" /\ UNCHANGED <<msg, depth, pending>>

Next ==
  /\ WriteField \/ SequenceBegins \/ SequenceVanishes \/ SequenceEnds \/ Refuse
  /\ UNCHANGED sinks

Spec == Init /\ [][Next]_vars
=============================================================================
