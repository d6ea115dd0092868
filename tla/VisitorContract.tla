--------------------------- MODULE VisitorContract ---------------------------
(***************************************************************************)
(* What the decoder promises its visitor (the Visitor trait of istream.rs),*)
(* with nothing of how it keeps the promise: which callbacks may follow    *)
(* which, with which ids, counts and offsets.  A callback is known here by *)
(* its shape; the values it carries are WireGrammar's subject.             *)
(***************************************************************************)
EXTENDS Wire, Sequences

VARIABLES
  nest,   \* sequences begun and not ended
  field,  \* the field whose callbacks are still coming
  over,   \* the message has been found malformed
  calls   \* the callbacks of the last step

vars == <<nest, field, over, calls>>

None == [what |-> "none"]

Init == nest = 0 /\ field = None /\ over = FALSE /\ calls = <<>>

Call(fn, i)       == [fn |-> fn, id |-> i]
ElementCall       == [Unsigned |-> "unsigned", Signed |-> "signed",
                      Fp32 |-> "fp32", Fp64 |-> "fp64"]
PayloadCall       == [Str |-> "string", Blob |-> "blob"]
Chunk(t, i, total, offset, len) ==
  [fn |-> PayloadCall[t], id |-> i, total |-> total, offset |-> offset, len |-> len]

\* A scalar integer is one callback.
Integer ==
  /\ ~over /\ field = None
  /\ \E i \in Ids, k \in {"Unsigned", "Signed"} : calls' = <<Call(ElementCall[k], i)>>
  /\ UNCHANGED <<nest, field, over>>

\* An array is announced once, before its elements, with their number.
ArrayBegins ==
  /\ ~over /\ field = None /\ "array" \in Features
  /\ \E i \in Ids, k \in ArrayKinds, n \in 0..ARRAY_MAX :
       /\ calls' = <<[fn |-> "array_begin", id |-> i, kind |-> k, count |-> n]>>
       /\ field' = IF n = 0 THEN None
                   ELSE [what |-> "array", id |-> i, kind |-> k, left |-> n]
  /\ UNCHANGED <<nest, over>>

\* Elements come under the array's id and with its kind, as many as announced.
Element ==
  /\ ~over /\ field.what = "array"
  /\ calls' = <<Call(ElementCall[field.kind], field.id)>>
  /\ field' = IF field.left = 1 THEN None ELSE [field EXCEPT !.left = @ - 1]
  /\ UNCHANGED <<nest, over>>

\* A scalar fixlen field is announced with its subtype and length, an empty
\* string or blob together with its one empty chunk.
FixlenBegins ==
  /\ ~over /\ field = None
  /\ \E i \in Ids, t \in FixlenTypes, total \in 0..ARRAY_MAX :
       LET begin == [fn |-> "fixlen_begin", id |-> i, subtype |-> t, total |-> total]
       IN \/ /\ Width(t) # 0 /\ total = Width(t)
             /\ calls' = <<begin>>
             /\ field' = [what |-> "float", id |-> i, kind |-> t]
          \/ /\ Width(t) = 0 /\ total # 0
             /\ calls' = <<begin>>
             /\ field' = [what |-> "payload", id |-> i, kind |-> t,
                          total |-> total, got |-> 0]
          \/ /\ Width(t) = 0 /\ total = 0
             /\ calls' = <<begin, Chunk(t, i, 0, 0, 0)>>
             /\ field' = None
  /\ UNCHANGED <<nest, over>>

Float ==
  /\ ~over /\ field.what = "float"
  /\ calls' = <<Call(ElementCall[field.kind], field.id)>>
  /\ field' = None
  /\ UNCHANGED <<nest, over>>

\* Chunks are contiguous from offset 0, never empty, and end at the total.
PayloadChunk ==
  /\ ~over /\ field.what = "payload"
  /\ \E len \in 1..(field.total - field.got) :
       /\ calls' = <<Chunk(field.kind, field.id, field.total, field.got, len)>>
       /\ field' = IF field.got + len = field.total THEN None
                   ELSE [field EXCEPT !.got = @ + len]
  /\ UNCHANGED <<nest, over>>

\* Sequences begin and end between fields, balanced and at most MAX_DEPTH deep.
SequenceBegins ==
  /\ ~over /\ field = None /\ "sequence" \in Features /\ nest < MaxDepth
  /\ \E i \in Ids : calls' = <<Call("sequence_begin", i)>>
  /\ nest' = nest + 1
  /\ UNCHANGED <<field, over>>

SequenceEnds ==
  /\ ~over /\ field = None /\ nest > 0
  /\ calls' = <<[fn |-> "sequence_end"]>>
  /\ nest' = nest - 1
  /\ UNCHANGED <<field, over>>

\* Bytes that complete nothing, and the end of a feed.
Quiet == calls' = <<>> /\ UNCHANGED <<nest, field, over>>

\* The message is malformed: the field being read is given up, and there is no
\* callback, now or ever after.
Fails == ~over /\ over' /\ calls' = <<>> /\ field' = None /\ UNCHANGED nest

Next == Quiet \/ Fails \/ Integer \/ ArrayBegins \/ Element \/ FixlenBegins \/ Float
          \/ PayloadChunk \/ SequenceBegins \/ SequenceEnds

Spec == Init /\ [][Next]_vars
=============================================================================
