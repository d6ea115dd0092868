----------------------------- MODULE MCDecoding -----------------------------
(***************************************************************************)
(* A small instance of a decoder with its history: every message of up to  *)
(* MaxMessage bytes of Input, cut into chunks in every way, with the widths*)
(* of MCIStream, in a build that shifts a value's payload bits by halves.  *)
(***************************************************************************)
EXTENDS Decoding

AllFeatures == {"fixlen", "fp64", "array", "sequence"}

\* MCIStream's bytes but 18, with 4: the header of a signed array.
WideInput == {0, 1, 2, 3, 4, 5, 6, 7, 8, 11, 17, 31}
=============================================================================
