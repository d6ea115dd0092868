--------------------------- MODULE PayloadProofs ---------------------------
(***************************************************************************)
(* Proofs about the accumulator, for every size of storage, whatever it is *)
(* fed and in whatever order.                                              *)
(***************************************************************************)
EXTENDS PayloadSource, SequenceTheorems, TLAPS

\* The first n bytes of the storage are those of t.
Holds(n, t) == \A i \in 1..n : buf[i] = t[i]

\* What is held of a payload that has not been handed back is all that has been
\* said of it.
SInv ==
  /\ buf \in [1..N -> Nat] /\ len \in 0..N /\ told \in Seq(Nat)
  /\ complete \in BOOLEAN /\ given = complete
  /\ ~given => len = Len(told) /\ Holds(len, told)
  /\ asked \in [total : Nat, offset : Nat]
  /\ NeverSpliced

-----------------------------------------------------------------------------

\* The next piece of a payload of which t, already held, has been said.  Either
\* all of the chunk is taken and the payload goes on, or the payload is whole.
LEMMA TakesPiece ==
  ASSUME buf \in [1..N -> Nat], NEW t \in Seq(Nat), Len(t) <= N, Holds(Len(t), t),
         NEW total \in 0..N, NEW chunk \in Seq(Nat), Takes(total, Len(t), chunk)
  PROVE  LET said == t \o chunk
         IN /\ buf' \in [1..N -> Nat] /\ len' \in 0..N
            /\ said \in Seq(Nat) /\ complete' \in BOOLEAN
            /\ ~complete' => /\ len' = Len(said) /\ Holds(len, said)'
                             /\ out' = Nothing
            /\ complete' => /\ Len(said) >= total
                            /\ out' = Value(SubSeq(said, 1, total))
<1> DEFINE said   == t \o chunk
           l      == Len(t)
           copied == Lesser(IF total > l THEN total - l ELSE 0, Lesser(N - l, Len(chunk)))
<1>1. N \in Nat /\ l \in 0..N /\ Len(chunk) \in Nat /\ total \in Nat
  BY StorageAssumption, LenProperties
<1>2. /\ said \in Seq(Nat) /\ Len(said) = l + Len(chunk)
      /\ \A i \in 1..(l + Len(chunk)) : said[i] = IF i <= l THEN t[i] ELSE chunk[i - l]
      /\ \A i \in 1..(l + Len(chunk)) : said[i] \in Nat
  BY ConcatProperties, ElementOfSeq
<1>3. /\ buf' = [i \in 1..N |-> IF i \in (l + 1)..(l + copied) THEN chunk[i - l] ELSE buf[i]]
      /\ len' = l + copied /\ complete' = (len' >= total)
      /\ out' = IF complete' THEN Value(SubSeq(buf', 1, total)) ELSE Nothing
  BY DEF Takes
<1> HIDE DEF said
<1>4. /\ copied \in 0..(N - l) /\ copied <= Len(chunk)
      /\ copied < Len(chunk) => l + copied >= total
  BY <1>1 DEF Lesser
<1> HIDE DEF copied, l
<1>5. len' \in l..N /\ len' <= Len(said) /\ (~complete' => len' = Len(said))
  <2>1. len' \in l..N /\ len' <= Len(said)
    BY <1>1, <1>2, <1>3, <1>4
  <2>2. ASSUME ~complete' PROVE len' = Len(said)
    <3>1. ~(l + copied >= total)
      BY <1>3, <2>2
    <3>2. copied = Len(chunk)
      BY <1>1, <1>4, <3>1
    <3> QED BY <1>2, <1>3, <3>2
  <2> QED BY <2>1, <2>2
<1>6. ASSUME NEW i \in 1..N PROVE buf'[i] \in Nat /\ (i <= len' => buf'[i] = said[i])
  <2>1. CASE i \in (l + 1)..(l + copied)
    <3>1. buf'[i] = chunk[i - l] /\ i - l \in 1..Len(chunk) /\ i \in 1..(l + Len(chunk))
      BY <1>1, <1>3, <1>4, <2>1
    <3>2. said[i] = chunk[i - l] /\ said[i] \in Nat
      BY <1>1, <1>2, <2>1, <3>1
    <3> QED BY <3>1, <3>2
  <2>2. CASE i \notin (l + 1)..(l + copied)
    <3>1. buf'[i] = buf[i] /\ buf[i] \in Nat /\ (i <= len' => i \in 1..l)
      BY <1>1, <1>3, <1>4, <2>2
    <3>2. i \in 1..l => buf[i] = t[i] /\ said[i] = t[i]
      BY <1>1, <1>2 DEF Holds, l
    <3> QED BY <3>1, <3>2
  <2> QED BY <2>1, <2>2
<1>7. buf' \in [1..N -> Nat]
  BY <1>3, <1>6
<1>8. Holds(len, said)'
  BY <1>1, <1>5, <1>6 DEF Holds, said
<1>9. ASSUME complete'
      PROVE  Len(said) >= total /\ SubSeq(buf', 1, total) = SubSeq(said, 1, total)
  <2>1. total <= len' /\ total \in Nat /\ Len(said) >= total
    <3>1. len' >= total
      BY <1>3, <1>9
    <3>2. len' \in Nat /\ total \in Nat /\ Len(said) \in Nat /\ len' <= Len(said)
      BY <1>1, <1>2, <1>5
    <3> QED BY <3>1, <3>2
  <2>2. \A i \in 1..total : buf'[i] = said[i] /\ buf'[i] \in Nat
    BY <1>1, <1>5, <1>6, <2>1
  <2>3. \A i \in 1..total : said[i] \in Nat
    BY <2>2
  <2>4. /\ SubSeq(buf', 1, total) \in Seq(Nat) /\ SubSeq(said, 1, total) \in Seq(Nat)
        /\ Len(SubSeq(buf', 1, total)) = total /\ Len(SubSeq(said, 1, total)) = total
        /\ \A i \in 1..total : SubSeq(buf', 1, total)[i] = buf'[i]
                               /\ SubSeq(said, 1, total)[i] = said[i]
    BY <2>1, <2>2, <2>3, SubSeqProperties
  <2> QED BY <2>1, <2>2, <2>4, SeqEqual
<1>10. complete' \in BOOLEAN /\ len' \in 0..N
  BY <1>1, <1>3, <1>5
<1>11. /\ complete' => out' = Value(SubSeq(said, 1, total))
       /\ ~complete' => out' = Nothing
  BY <1>3, <1>9
<1> QED
  BY <1>2, <1>5, <1>7, <1>8, <1>9, <1>10, <1>11 DEF said

-----------------------------------------------------------------------------
(* What one chunk does *)

\* What SInv and the action properties say of a step that feeds a chunk.
Fed(total, offset) ==
  /\ SInv'
  /\ given /\ out'.is = "payload" => offset = 0
  /\ out'.is = "Argument" <=> total > N /\ (offset = 0 \/ ~given)

\* The outcomes of a feed are told apart.
LEMMA Outcomes ==
  /\ Nothing.is = "none" /\ Refusal.is = "Argument"
  /\ \A b : Value(b).is = "payload" /\ Value(b).bytes = b
BY DEF Nothing, Refusal, Value

\* A chunk that follows leaves the accumulator as it should be after it.
LEMMA ChunkFed ==
  ASSUME SInv, NEW total \in Nat, NEW offset \in Nat, NEW chunk \in Seq(Nat),
         feed(total, offset, chunk), Follows(total, offset, chunk),
         given' = ((given /\ offset # 0) \/ out'.is = "payload"),
         asked' = [total |-> total, offset |-> offset]
  PROVE  Fed(total, offset)
<1> DEFINE l == IF offset = 0 THEN 0 ELSE len
           t == IF offset = 0 THEN <<>> ELSE told
<1>1. /\ N \in Nat /\ Len(chunk) \in Nat /\ <<>> \in Seq(Nat) /\ Len(<<>>) = 0
      /\ asked' \in [total : Nat, offset : Nat]
      /\ asked'.total = total /\ asked'.offset = offset
  BY StorageAssumption, LenProperties, EmptySeq
<1>2. CASE offset # 0 /\ complete
  <2>1. out' = Nothing /\ UNCHANGED <<buf, len, complete>> /\ UNCHANGED told /\ given
    BY <1>2 DEF feed, Follows, SInv
  <2>2. out'.is = "none" /\ given'
    BY <1>2, <2>1, Outcomes
  <2> QED BY <1>1, <1>2, <2>1, <2>2 DEF Fed, SInv, NeverSpliced
<1>3. CASE ~(offset # 0 /\ complete)
  <2>1. (offset = 0 \/ ~given) /\ given' = (out'.is = "payload")
    BY <1>3 DEF SInv
  <2>2. CASE total > N
    <3>1. out' = Refusal /\ len' = l /\ complete' = FALSE /\ UNCHANGED buf
          /\ told' = t
      BY <1>1, <1>3, <2>2, StorageAssumption DEF feed, Follows
    <3>2. out'.is = "Argument"
      BY <3>1, Outcomes
    <3>3. l = Len(t) /\ l \in 0..N /\ t \in Seq(Nat) /\ Holds(l, t)
      BY <1>1, <2>1 DEF SInv, Holds
    <3> HIDE DEF l, t
    <3> QED BY <1>1, <2>1, <2>2, <3>1, <3>2, <3>3 DEF Fed, SInv, NeverSpliced, Holds
  <2>3. CASE total <= N /\ offset = 0 /\ Len(chunk) >= total
    <3>1. /\ out' = Value(SubSeq(chunk, 1, total)) /\ len' = 0 /\ complete' = TRUE
          /\ UNCHANGED buf /\ told' = chunk
      BY <1>1, <1>3, <2>3 DEF feed, Follows
    <3>2. out'.is = "payload" /\ out'.bytes = SubSeq(chunk, 1, total)
      BY <3>1, Outcomes
    <3>3. given' = TRUE
      BY <2>1, <3>2
    <3>4. ~(total > N) /\ 0 \in 0..N
      BY <1>1, <2>3
    <3>5. NeverSpliced'
      BY <1>1, <2>3, <3>1, <3>2 DEF NeverSpliced
    <3>6. SInv'
      BY <1>1, <3>4, <3>1, <3>3, <3>5 DEF SInv
    <3> QED BY <2>1, <3>4, <3>2, <3>6 DEF Fed
  <2>4. CASE total <= N /\ ~(offset = 0 /\ Len(chunk) >= total) /\ offset # l
    <3>1. offset # 0 /\ l = len /\ len = Len(told) /\ ~complete
      BY <1>3, <2>1, <2>4 DEF SInv
    <3>2. offset # Len(told) /\ ~(total > N)
      <4>1. l = Len(told)
        BY <3>1
      <4> HIDE DEF l
      <4> QED BY <1>1, <2>4, <4>1
    <3>3. UNCHANGED told
      BY <3>1, <3>2 DEF Follows
    <3>4. out' = Nothing /\ len' = len /\ complete' = FALSE /\ UNCHANGED buf
      BY <1>3, <2>4, <3>1, <3>2 DEF feed
    <3>5. out'.is = "none" /\ given' = FALSE
      BY <2>1, <3>4, Outcomes
    <3>6. SInv'
      BY <1>1, <2>1, <3>1, <3>3, <3>4, <3>5 DEF SInv, NeverSpliced, Holds
    <3> QED BY <3>2, <3>5, <3>6 DEF Fed
  <2>5. CASE total <= N /\ ~(offset = 0 /\ Len(chunk) >= total) /\ offset = l
    <3>1. Takes(total, l, chunk)
      BY <1>1, <1>3, <2>5 DEF feed
    <3>2. l = Len(t) /\ l \in 0..N /\ t \in Seq(Nat) /\ Holds(l, t)
      BY <1>1, <2>1 DEF SInv, Holds
    <3>3. told' = t \o chunk
      <4>1. CASE offset = 0
        BY <1>1, <2>5, <4>1, ConcatEmptySeq DEF Follows
      <4>2. CASE offset # 0
        BY <1>1, <2>1, <2>5, <3>2, <4>2 DEF Follows
      <4> QED BY <4>1, <4>2
    <3> HIDE DEF l, t
    <3>4. total \in 0..N /\ buf \in [1..N -> Nat] /\ Takes(total, Len(t), chunk)
          /\ Holds(Len(t), t) /\ Len(t) <= N
      BY <1>1, <2>5, <3>1, <3>2 DEF SInv
    <3>5. /\ buf' \in [1..N -> Nat] /\ len' \in 0..N
          /\ t \o chunk \in Seq(Nat) /\ complete' \in BOOLEAN
          /\ ~complete' => /\ len' = Len(t \o chunk) /\ \A i \in 1..(len') : buf'[i] = (t \o chunk)[i]
                           /\ out' = Nothing
          /\ complete' => /\ Len(t \o chunk) >= total
                          /\ out' = Value(SubSeq(t \o chunk, 1, total))
      BY <3>2, <3>4, TakesPiece DEF Holds
    <3> DEFINE said == t \o chunk
    <3>6. told' = said /\ said \in Seq(Nat) /\ total \in Nat /\ ~(total > N)
      BY <1>1, <2>5, <3>3, <3>5
    <3>7. CASE complete'
      <4>1. /\ out'.is = "payload" /\ out'.bytes = SubSeq(said, 1, total)
            /\ Len(said) >= total /\ given' = TRUE
        BY <2>1, <3>5, <3>7, Outcomes
      <4> HIDE DEF said
      <4>2. NeverSpliced'
        BY <1>1, <3>6, <4>1 DEF NeverSpliced
      <4>3. SInv'
        BY <1>1, <3>5, <3>6, <3>7, <4>1, <4>2 DEF SInv
      <4> QED BY <2>1, <3>6, <4>1, <4>3 DEF Fed
    <3>8. CASE ~complete'
      <4>1. out'.is = "none" /\ given' = FALSE
        BY <2>1, <3>5, <3>8, Outcomes
      <4>2. Holds(len, told)' /\ len' = Len(told')
        BY <3>3, <3>5, <3>8 DEF Holds
      <4> HIDE DEF said
      <4>3. NeverSpliced'
        BY <4>1 DEF NeverSpliced
      <4>4. SInv'
        BY <1>1, <3>5, <3>6, <3>8, <4>1, <4>2, <4>3 DEF SInv
      <4> QED BY <3>6, <4>1, <4>4 DEF Fed
    <3> QED BY <3>7, <3>8
  <2> QED BY <1>1, <2>2, <2>3, <2>4, <2>5
<1> QED BY <1>2, <1>3

-----------------------------------------------------------------------------
(* Every step *)

\* An accumulator that holds nothing has its type.
LEMMA NothingHeld ==
  <<>> \in Seq(Nat) /\ Len(<<>>) = 0 /\ [total |-> 0, offset |-> 0] \in [total : Nat, offset : Nat]
BY EmptySeq

\* A new accumulator is in the invariant.
LEMMA SInvInit == SourceInit => SInv
<1> SUFFICES ASSUME SourceInit PROVE SInv
  OBVIOUS
<1>1. /\ buf = [i \in 1..N |-> 0] /\ len = 0 /\ complete = FALSE /\ out.is = "none"
      /\ told = <<>> /\ given = FALSE /\ asked = [total |-> 0, offset |-> 0]
  BY Outcomes DEF SourceInit, Init
<1>2. buf \in [1..N -> Nat] /\ 0 \in 0..N /\ \A i \in 1..0 : FALSE
  BY <1>1, StorageAssumption
<1> QED BY <1>1, <1>2, NothingHeld DEF SInv, Holds, NeverSpliced

\* Every chunk keeps it, and hands back and refuses as it should.
LEMMA SInvNext ==
  SInv /\ [SourceNext]_sourceVars =>
    /\ SInv'
    /\ [given /\ out'.is = "payload" => asked'.offset = 0]_sourceVars
    /\ [out'.is = "Argument" <=> asked'.total > N /\ (asked'.offset = 0 \/ ~given)]_sourceVars
<1> SUFFICES ASSUME SInv, [SourceNext]_sourceVars
             PROVE  /\ SInv'
                    /\ [given /\ out'.is = "payload" => asked'.offset = 0]_sourceVars
                    /\ [out'.is = "Argument" <=>
                          asked'.total > N /\ (asked'.offset = 0 \/ ~given)]_sourceVars
  OBVIOUS
<1>1. CASE UNCHANGED sourceVars
  BY <1>1 DEF sourceVars, accVars, SInv, Holds, NeverSpliced
<1>2. CASE SendsChunk
  <2>1. PICK total \in 0..MaxTotal, offset \in 0..MaxTotal, chunk \in Chunks :
          /\ feed(total, offset, chunk)
          /\ Follows(total, offset, chunk)
          /\ given' = ((given /\ offset # 0) \/ out'.is = "payload")
          /\ asked' = [total |-> total, offset |-> offset]
    BY <1>2 DEF SendsChunk
  <2>2. total \in Nat /\ offset \in Nat /\ chunk \in Seq(Nat)
    BY SourceAssumption
  <2>3. Fed(total, offset)
    BY <2>1, <2>2, ChunkFed
  <2>4. asked'.total = total /\ asked'.offset = offset
    BY <2>1
  <2> QED BY <2>3, <2>4 DEF Fed
<1>3. CASE Drops
  <2>1. /\ len' = 0 /\ complete' = FALSE /\ out' = Nothing /\ UNCHANGED buf
        /\ told' = <<>> /\ given' = FALSE /\ asked' = [total |-> 0, offset |-> 0]
    BY <1>3 DEF Drops, reset
  <2>2. out'.is = "none" /\ asked'.total = 0
    BY <2>1, Outcomes
  <2>3. 0 \in 0..N /\ \A i \in 1..0 : FALSE
    BY StorageAssumption
  <2>4. SInv'
    BY <2>1, <2>2, <2>3, NothingHeld DEF SInv, Holds, NeverSpliced
  <2> QED BY <2>2, <2>4, StorageAssumption
<1> QED BY <1>1, <1>2, <1>3 DEF SourceNext

-----------------------------------------------------------------------------
(* Theorems *)

\* The invariant always holds.
LEMMA SourceInvariance == SourceSpec => []SInv
<1> QED BY SInvInit, SInvNext, PTL DEF SourceSpec

\* What is handed back is never a splice: for every size of storage, every total
\* and every order of chunks it is the start of what was said of one payload.
THEOREM PayloadsAreNeverSpliced == SourceSpec => []NeverSpliced
<1>1. SInv => NeverSpliced
  BY DEF SInv
<1> QED BY <1>1, SourceInvariance, PTL

\* No chunk but the first of another payload yields anything after a payload has
\* been handed back.
THEOREM PayloadsAreGivenOnce == SourceSpec => HandedBackOnce
<1> QED BY SourceInvariance, SInvNext, PTL DEF SourceSpec, HandedBackOnce

\* The verdict on a payload that is too long does not depend on how it is cut.
THEOREM TooLongIsRefused == SourceSpec => RefusedHoweverTorn
<1> QED BY SourceInvariance, SInvNext, PTL DEF SourceSpec, RefusedHoweverTorn

=============================================================================
