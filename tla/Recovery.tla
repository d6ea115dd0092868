------------------------------ MODULE Recovery ------------------------------
(***************************************************************************)
(* An encoder without a sink and a caller that recovers as documented:     *)
(* after BufferFull it installs another buffer with buffer_set and makes   *)
(* the failed call again.  Beside the stream runs a one-shot encoder that  *)
(* is given every call once and never runs out of room.  The caller may    *)
(* also give up a failed call and go on with another.                      *)
(***************************************************************************)
EXTENDS OStream

VARIABLES
  doing,    \* the call made last
  oneShot,  \* the bytes of the one-shot encoder
  owed,     \* the sequences it holds back
  clean,    \* every cut so far fell between two headers or fields, and every
            \* failed call was made again
  opening   \* some cut left a call that begins a sequence with room in the window

recoveryVars == <<vars, doing, oneShot, owed, clean, opening>>

Calls ==
  [op : {"field"}, field : FieldInputs]
    \cup (IF "sequence" \in Features
            THEN [op : {"begin"}, id : SequenceIds] \cup [op : {"end", "end_keep"}] ELSE {})

Make(c) ==
  \/ c.op = "field"    /\ WriteField(c.field)
  \/ c.op = "begin"    /\ write_sequence_begin_lazy(c.id)
  \/ c.op = "end"      /\ write_sequence_end
  \/ c.op = "end_keep" /\ write_sequence_end_keep

Owing(ids) == Each(ids, LAMBDA id : Header(id, T_SEQUENCE_START))

\* The one-shot encoder puts bytes in its message, held-back headers first.
Puts(bytes) ==
  /\ oneShot' = oneShot \o Owing(owed) \o bytes
  /\ owed' = <<>>

OneShot(c) ==
  \/ c.op = "field" /\ Puts(FieldBytes(c.field))
  \/ c.op = "end_keep" /\ Puts(Header(0, T_SEQUENCE_END))
  \/ c.op = "begin" /\ IF Len(owed) < LAZY_SEQ_DEPTH
                         THEN owed' = Append(owed, c.id) /\ UNCHANGED oneShot
                         ELSE Puts(Header(c.id, T_SEQUENCE_START))
  \/ c.op = "end" /\ IF owed # <<>>
                       THEN owed' = SubSeq(owed, 1, Len(owed) - 1) /\ UNCHANGED oneShot
                       ELSE Puts(Header(0, T_SEQUENCE_END))

RecoveryInit ==
  Init /\ doing = None /\ oneShot = <<>> /\ owed = <<>>
    /\ clean = TRUE /\ opening = FALSE

\* A call that did not fail is followed by any other.
MakesCall ==
  /\ result # "BufferFull"
  /\ \E c \in Calls :
       /\ Make(c)
       /\ IF clean THEN OneShot(c) /\ doing' = c ELSE UNCHANGED <<doing, oneShot, owed>>
  /\ UNCHANGED <<clean, opening>>

\* Another buffer is installed between two calls, with header room or without.
Reinstalls ==
  /\ \E b \in free, off \in Offsets : buffer_set(b, off)
  /\ UNCHANGED <<doing, oneShot, owed, clean, opening>>

MakesCallAgain ==
  /\ result = "BufferFull" /\ clean /\ Make(doing)
  /\ UNCHANGED <<doing, oneShot, owed, clean, opening>>

\* A failed call is given up for any other, and the one-shot encoder with it.
GivesUp ==
  /\ result = "BufferFull" /\ \E c \in Calls : Make(c)
  /\ clean' = FALSE /\ doing' = None /\ oneShot' = <<>> /\ owed' = <<>>
  /\ UNCHANGED opening

Cuts == pc \in {"push", "store"} /\ pc' = "idle" /\ result' = "BufferFull"

Works ==
  /\ Pushes
  /\ clean' = (clean /\ (Cuts => part = IF pending = <<>> THEN call.own
                                         ELSE Header(Head(pending), T_SEQUENCE_START)))
  /\ opening' = (opening \/ (Cuts /\ call.gain = 1 /\ pending # call.pending))
  /\ UNCHANGED <<doing, oneShot, owed>>

RecoveryNext == MakesCall \/ Reinstalls \/ MakesCallAgain \/ GivesUp \/ Works

RecoverySpec == RecoveryInit /\ [][RecoveryNext]_recoveryVars

SameBytes == Stream \o Owing(pending) = oneShot \o Owing(owed)

\* The README's promise for every cut that does not fall inside a header or a
\* field: when the failed call has been made again and returned, the bytes in all
\* the buffers together, with the headers still held back, are those of the
\* one-shot encoder.
ResumesAtTheCut == pc = "idle" /\ result = "Ok" /\ clean => SameBytes

\* It holds of every call but one that begins a sequence past the window: that
\* call, made again, finds the window it has emptied and holds the sequence back.
ResumesUnlessOpening ==
  pc = "idle" /\ result = "Ok" /\ clean /\ ~opening => SameBytes
=============================================================================
