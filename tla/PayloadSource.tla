--------------------------- MODULE PayloadSource ---------------------------
(***************************************************************************)
(* An accumulator fed by a source that keeps no contract: chunks of any    *)
(* payload, at any offset, in any order, with a total that may change from *)
(* one chunk to the next.  Beside it is kept what has been said of the     *)
(* payload begun last.                                                     *)
(***************************************************************************)
EXTENDS PayloadAcc

CONSTANTS
  Chunks,   \* the chunks fed
  MaxTotal  \* the longest total announced, and the greatest offset

ASSUME SourceAssumption == MaxTotal \in Nat /\ Chunks \subseteq Seq(Nat)

VARIABLES
  told,   \* the bytes of that payload that followed one another from offset 0
  given,  \* whether it has been handed back
  asked   \* the total and the offset of the last chunk

sourceVars == <<accVars, told, given, asked>>

SourceInit == Init /\ told = <<>> /\ given = FALSE
                /\ asked = [total |-> 0, offset |-> 0]

\* What has been said grows by the chunk that continues it.
Follows(total, offset, chunk) ==
  told' = IF offset = 0 THEN IF total > N THEN <<>> ELSE chunk
          ELSE IF offset = Len(told) /\ ~given /\ total <= N THEN told \o chunk ELSE told

SendsChunk ==
  \E total, offset \in 0..MaxTotal, chunk \in Chunks :
    /\ feed(total, offset, chunk)
    /\ Follows(total, offset, chunk)
    /\ given' = ((given /\ offset # 0) \/ out'.is = "payload")
    /\ asked' = [total |-> total, offset |-> offset]

Drops == reset /\ told' = <<>> /\ given' = FALSE /\ asked' = [total |-> 0, offset |-> 0]

SourceNext == SendsChunk \/ Drops

SourceSpec == SourceInit /\ [][SourceNext]_sourceVars

\* What is handed back is exactly as long as the last total said and made of
\* bytes that followed one another from the start of one payload: never a splice
\* of two, never a rest of a longer one before it.
NeverSpliced ==
  out.is = "payload" => /\ Len(told) >= asked.total
                        /\ out.bytes = SubSeq(told, 1, asked.total)

\* A payload is handed back at most once: after that only a chunk at offset 0,
\* which begins another, yields anything.
HandedBackOnce == [][given /\ out'.is = "payload" => asked'.offset = 0]_sourceVars

\* A payload the storage cannot hold is refused at every chunk of it, the same
\* whether it comes whole or in pieces, and no other is.
RefusedHoweverTorn ==
  [][out'.is = "Argument" <=> asked'.total > N /\ (asked'.offset = 0 \/ ~given)]_sourceVars
=============================================================================
