----------------------------- MODULE MCPayload -----------------------------
(***************************************************************************)
(* Small instances of the accumulator: three bytes of storage, payloads of *)
(* up to one byte more, chunks that hold them in pieces or whole.          *)
(***************************************************************************)
EXTENDS PayloadSource

SmallChunks == UNION {[1..n -> {1, 2}] : n \in 0..2} \cup {<<1, 2, 1>>, <<2, 1, 2>>, <<1, 2, 2, 1>>}
=============================================================================
