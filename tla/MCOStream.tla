----------------------------- MODULE MCOStream -----------------------------
(***************************************************************************)
(* Small instances of the encoder.  A byte has 3 payload bits, so the      *)
(* header of any id but 0 takes two bytes and a cut can fall inside it.    *)
(***************************************************************************)
EXTENDS OStream

CONSTANTS a, b, c  \* the buffers

AllFeatures == {"fixlen", "fp64", "array", "sequence"}

\* Buffers of one, two and four bytes: the smallest that streams, one a header
\* fits, and one with room to spare.
ThreeBuffers == {a, b, c}
Sizes        == [x \in {a, b, c} |-> CASE x = a -> 1 [] x = b -> 2 [] x = c -> 4]

\* One field with a one-byte header, one with a two-byte header, one refused.
Scalars == {[id |-> 0, writer |-> "write_unsigned", data |-> 9],
            [id |-> 1, writer |-> "write_blob", data |-> <<5>>],
            [id |-> 99, writer |-> "write_unsigned", data |-> 1]}
=============================================================================
