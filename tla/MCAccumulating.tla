--------------------------- MODULE MCAccumulating ---------------------------
(***************************************************************************)
(* Messages of blobs and strings of up to three bytes, for an accumulator  *)
(* that holds two.                                                         *)
(***************************************************************************)
EXTENDS Accumulating

OnlyFixlen == {"fixlen"}

\* A fixlen header, the length words of an empty, a one-byte and, with a second
\* byte, of a two- and a three-byte blob.
BlobInput == {1, 2, 3, 11, 19, 27}
=============================================================================
