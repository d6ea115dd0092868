----------------------------- MODULE MCIStream -----------------------------
(***************************************************************************)
(* A small instance of the decoder on a value64 build: a byte has 4 payload*)
(* bits, an fp32 one byte and a value 10 bits, so a varint takes up to 3   *)
(* bytes, the last with room for 2 bits, and an fp64 fits one word.  The   *)
(* two-word window of narrow builds is MCLoopback's subject.               *)
(***************************************************************************)
EXTENDS IStream

AllFeatures == {"fixlen", "fp64", "array", "sequence"}

\* Headers of every type with id 0 and of one with id 1, the fixlen words of
\* floats of the right and the wrong width and of short strings and blobs, the
\* last legal byte of a long varint and the first illegal one.
WideInput == {0, 1, 2, 3, 5, 6, 7, 8, 11, 17, 18, 31}

OneByte == {0}
=============================================================================
