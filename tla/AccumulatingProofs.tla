-------------------------- MODULE AccumulatingProofs --------------------------
(***************************************************************************)
(* Proofs about an accumulator behind a decoder, for every size of its     *)
(* storage, every message and every cutting, and whatever was abandoned    *)
(* before.                                                                 *)
(***************************************************************************)
EXTENDS Accumulating, DecodingProofs

\* While a payload that the storage can hold is arriving, the accumulator holds
\* all that has arrived of it: the last bytes fed.
Held ==
  state = "FixlenRaw" /\ fixlen_remaining # fixlen_total /\ fixlen_total <= N =>
    /\ complete = FALSE /\ len = fixlen_total - fixlen_remaining
    /\ \A i \in 1..len : buf[i] = seen[Len(seen) - len + i]

Storage == buf \in [1..N -> Bytes] /\ len \in 0..N /\ complete \in BOOLEAN

\* The inductive invariant, beside those of the decoder.
AInv == Storage /\ Held /\ PayloadsArriveWhole

-----------------------------------------------------------------------------
(* The payloads of a log *)

Picked(wholes, event) == IF Fits(event) THEN Append(wholes, event.chunk) ELSE wholes

\* A function that picks them out one by one exists.
LEMMA WholesExist ==
  ASSUME NEW q, NEW M \in Nat
  PROVE  \E f : f = [n \in 0..M |-> IF n = 0 THEN <<>> ELSE Picked(f[n - 1], q[n])]
<1> DEFINE S == {m \in Nat : \E f : f = [n \in 0..m |-> IF n = 0 THEN <<>>
                                                        ELSE Picked(f[n - 1], q[n])]}
<1> HIDE DEF S
<1>1. 0 \in S
  <2> DEFINE f == [n \in 0..0 |-> <<>>]
  <2>1. f = [n \in 0..0 |-> IF n = 0 THEN <<>> ELSE Picked(f[n - 1], q[n])]
    OBVIOUS
  <2> HIDE DEF f
  <2>2. \E h : h = [n \in 0..0 |-> IF n = 0 THEN <<>> ELSE Picked(h[n - 1], q[n])]
    BY <2>1, Zenon
  <2> QED BY <2>2 DEF S
<1>2. ASSUME NEW m \in Nat, m \in S PROVE m + 1 \in S
  <2>1. PICK f : f = [n \in 0..m |-> IF n = 0 THEN <<>> ELSE Picked(f[n - 1], q[n])]
    BY <1>2 DEF S
  <2> DEFINE F == [n \in 0..m |-> IF n = 0 THEN <<>> ELSE Picked(f[n - 1], q[n])]
             g == [n \in 0..(m + 1) |-> IF n = m + 1 THEN Picked(f[m], q[m + 1]) ELSE f[n]]
             G == [n \in 0..(m + 1) |-> IF n = 0 THEN <<>> ELSE Picked(g[n - 1], q[n])]
  <2>2. F[0] = <<>> /\ \A n \in 1..m : F[n] = Picked(f[n - 1], q[n])
    <3>1. 0 \in 0..m /\ \A n \in 1..m : n \in 0..m /\ n # 0
      OBVIOUS
    <3> QED BY <3>1, Zenon
  <2>3. f = F
    BY <2>1
  <2> HIDE DEF F
  <2>4. f[0] = <<>> /\ \A n \in 1..m : f[n] = Picked(f[n - 1], q[n])
    BY <2>2, <2>3
  <2>5. g[m + 1] = Picked(f[m], q[m + 1]) /\ \A n \in 0..m : g[n] = f[n]
    OBVIOUS
  <2> HIDE DEF g
  <2>6. G[0] = <<>> /\ \A n \in 1..(m + 1) : G[n] = Picked(g[n - 1], q[n])
    <3>1. 0 \in 0..(m + 1) /\ \A n \in 1..(m + 1) : n \in 0..(m + 1) /\ n # 0
      OBVIOUS
    <3> QED BY <3>1, Zenon
  <2>7. DOMAIN g = 0..(m + 1) /\ g = [n \in 0..(m + 1) |-> g[n]]
    BY DEF g
  <2>8. \A n \in 0..(m + 1) : g[n] = G[n]
    <3> SUFFICES ASSUME NEW n \in 0..(m + 1) PROVE g[n] = G[n]
      OBVIOUS
    <3> HIDE DEF G
    <3>1. CASE n = 0
      BY <2>4, <2>5, <2>6, <3>1
    <3>2. CASE n \in 1..m
      <4>1. n - 1 \in 0..m /\ n \in 0..m /\ n \in 1..(m + 1)
        BY <3>2
      <4> QED BY <2>4, <2>5, <2>6, <3>2, <4>1
    <3>3. CASE n = m + 1
      <4>1. m + 1 \in 1..(m + 1) /\ (m + 1) - 1 = m /\ m \in 0..m
        OBVIOUS
      <4> QED BY <2>5, <2>6, <3>3, <4>1
    <3> QED BY <3>1, <3>2, <3>3
  <2>9. g = G
    BY <2>7, <2>8
  <2>10. \E h : h = [n \in 0..(m + 1) |-> IF n = 0 THEN <<>> ELSE Picked(h[n - 1], q[n])]
    BY <2>9, Zenon
  <2>11. m + 1 \in Nat
    OBVIOUS
  <2> QED BY <2>10, <2>11, Zenon DEF S
<1>3. Nat \subseteq S
  BY <1>1, <1>2, Induction
<1> QED BY <1>3 DEF S

\* The recursive function inside Wholes.
WholesOf(q) ==
  CHOOSE f : f = [n \in 0..Len(q) |-> IF n = 0 THEN <<>> ELSE Picked(f[n - 1], q[n])]

\* The whole payloads of a log, event by event.
LEMMA WholesAre ==
  ASSUME NEW q, Len(q) \in Nat
  PROVE  /\ Wholes(q) = WholesOf(q)[Len(q)]
         /\ WholesOf(q)[0] = <<>>
         /\ \A n \in 1..Len(q) : WholesOf(q)[n] = Picked(WholesOf(q)[n - 1], q[n])
<1> DEFINE M == Len(q)
           g == WholesOf(q)
<1>1. Wholes(q) = g[M]
  BY DEF Wholes, WholesOf, Picked
<1>2. PICK f : f = [n \in 0..M |-> IF n = 0 THEN <<>> ELSE Picked(f[n - 1], q[n])]
  <2> HIDE DEF M
  <2> QED BY WholesExist DEF M
<1>3. g = [n \in 0..M |-> IF n = 0 THEN <<>> ELSE Picked(g[n - 1], q[n])]
  BY <1>2, Zenon DEF WholesOf
<1> DEFINE H == [n \in 0..M |-> IF n = 0 THEN <<>> ELSE Picked(g[n - 1], q[n])]
<1> HIDE DEF g
<1>4. H[0] = <<>> /\ \A n \in 1..M : H[n] = Picked(g[n - 1], q[n])
  <2>1. 0 \in 0..M /\ \A n \in 1..M : n \in 0..M /\ n # 0
    OBVIOUS
  <2> QED BY <2>1, Zenon
<1>5. g = H
  BY <1>3
<1> HIDE DEF H
<1>6. g[0] = <<>> /\ \A n \in 1..M : g[n] = Picked(g[n - 1], q[n])
  BY <1>4, <1>5
<1> QED BY <1>1, <1>6 DEF g, M

\* One event more is one payload more if it is one that fits.
LEMMA WholesGrow ==
  /\ Wholes(<<>>) = <<>>
  /\ \A q : IsSequence(q) => \A e : Wholes(Append(q, e)) = Picked(Wholes(q), e)
<1>1. Wholes(<<>>) = <<>>
  <2>1. Len(<<>>) = 0
    OBVIOUS
  <2> QED BY <2>1, WholesAre
<1>2. ASSUME NEW q, IsSequence(q), NEW e PROVE Wholes(Append(q, e)) = Picked(Wholes(q), e)
  <2> DEFINE r == Append(q, e)
             M == Len(q)
             f == WholesOf(q)
             g == WholesOf(r)
             S == {n \in Nat : n <= M => g[n] = f[n]}
  <2>1. M \in Nat /\ Len(r) = M + 1 /\ r[M + 1] = e /\ \A i \in 1..M : r[i] = q[i]
    BY <1>2, AppendIs
  <2>2. /\ Wholes(q) = f[M] /\ f[0] = <<>> /\ \A n \in 1..M : f[n] = Picked(f[n - 1], q[n])
    BY <2>1, WholesAre
  <2>3. /\ Wholes(r) = g[M + 1] /\ g[0] = <<>>
        /\ \A n \in 1..(M + 1) : g[n] = Picked(g[n - 1], r[n])
    <3> HIDE DEF r
    <3>1. Len(r) \in Nat
      BY <2>1
    <3> QED BY <2>1, <3>1, WholesAre
  <2> HIDE DEF r, M, f, g
  <2>4. 0 \in S
    BY <2>2, <2>3
  <2>5. ASSUME NEW n \in Nat, n \in S PROVE n + 1 \in S
    <3>1. CASE n + 1 <= M
      <4>1. n + 1 \in 1..M /\ n + 1 \in 1..(M + 1) /\ (n + 1) - 1 = n /\ n <= M
        BY <2>1, <3>1
      <4>2. g[n] = f[n] /\ r[n + 1] = q[n + 1]
        BY <2>1, <2>5, <4>1
      <4> QED BY <2>2, <2>3, <4>1, <4>2
    <3>2. CASE ~(n + 1 <= M)
      BY <3>2
    <3> QED BY <3>1, <3>2
  <2> HIDE DEF S
  <2>6. Nat \subseteq S
    BY <2>4, <2>5, Induction
  <2>7. g[M] = f[M]
    BY <2>1, <2>6 DEF S
  <2>8. g[M + 1] = Picked(g[M], e)
    <3>1. M + 1 \in 1..(M + 1) /\ (M + 1) - 1 = M
      BY <2>1
    <3> QED BY <2>1, <2>3, <3>1
  <2> QED BY <2>2, <2>3, <2>7, <2>8 DEF r
<1> QED BY <1>1, <1>2

-----------------------------------------------------------------------------
(* The log stays a sequence *)

\* What was heard is a sequence until the input is malformed.
LEMMA LogIsSequence == HInv /\ state # "Invalid" => IsSequence(log)
<1> SUFFICES ASSUME HInv, state # "Invalid" PROVE IsSequence(log)
  OBVIOUS
<1>1. PICK n, p, events : Reached(n, p, events)
  BY DEF HInv
<1>2. IsSequence(events) /\ log = History(p, events)
  BY <1>1 DEF Reached
<1>3. ASSUME NEW e PROVE IsSequence(Append(events, e))
  BY <1>2, AppendIs
<1> QED BY <1>2, <1>3 DEF History

-----------------------------------------------------------------------------
(* The steps that pass no chunk on *)

Unspoken == UNCHANGED <<accumulator, got>>

\* A step without a call gives the accumulator nothing.
LEMMA PassesNothing == ASSUME Passes, calls' = <<>> PROVE Unspoken
BY DEF Passes, Unspoken

\* Nor does a call that is no payload.
LEMMA PassesOthers ==
  ASSUME Passes, NEW e, calls' = <<e>>, ~IsPayload(e) PROVE Unspoken
<1>1. \A i \in 1..Len(calls') : ~IsPayload(calls'[i])
  <2>1. Len(<<e>>) = 1 /\ <<e>>[1] = e
    OBVIOUS
  <2> QED BY <2>1
<1>2. {i \in 1..Len(calls') : IsPayload(calls'[i])} = {}
  BY <1>1
<1> QED BY <1>2 DEF Passes, Unspoken

\* A callback that carries no payload leaves the payloads of the log as they are.
LEMMA OtherEvents ==
  ASSUME Hears, IsSequence(log), NEW e, calls' = <<e>>, ~IsPayload(e)
  PROVE  Wholes(log') = Wholes(log)
<1>1. log' = Append(log, e)
  BY HearsOne DEF IsPayload
<1>2. PICK l : l = log
  OBVIOUS
<1>3. Wholes(Append(l, e)) = Wholes(l)
  BY <1>2, WholesGrow DEF Picked, Fits
<1> QED BY <1>1, <1>2, <1>3

\* What the accumulator's invariant needs of a step that hands it nothing.
LEMMA NothingPassed ==
  ASSUME AInv, Unspoken, Wholes(log') = Wholes(log),
         \/ state' # "FixlenRaw"
         \/ fixlen_remaining' = fixlen_total'
         \/ UNCHANGED <<state, fixlen_remaining, fixlen_total, seen>>
  PROVE  AInv'
<1>1. UNCHANGED <<buf, len, complete, got>>
  BY DEF Unspoken, accumulator
<1>2. Held'
  BY <1>1 DEF AInv, Held
<1> QED BY <1>1, <1>2 DEF AInv, Storage, PayloadsArriveWhole
-----------------------------------------------------------------------------
(* The steps of a byte *)

\* The callback of a payload of no bytes.
EmptyPayload(c) == IsPayload(c) /\ c.total = 0 /\ c.offset = 0 /\ c.chunk = <<>>

\* A byte makes no callback, one that carries no payload, or such a one and that of
\* an empty payload.
SpeaksOfBytes ==
  \/ calls' = <<>>
  \/ \E e : calls' = <<e>> /\ ~IsPayload(e)
  \/ \E e, d : calls' = <<e, d>> /\ ~IsPayload(e) /\ EmptyPayload(d)

BeginsPayload == state' = "FixlenRaw" => fixlen_remaining' = fixlen_total'

\* A call that is no payload is one a byte may make.
LEMMA SpeaksOnce ==
  ASSUME NEW e, calls' = <<e>>, e.fn \notin {"string", "blob"} PROVE SpeaksOfBytes
<1>1. ~IsPayload(e)
  BY DEF IsPayload
<1>2. \E f : calls' = <<f>> /\ ~IsPayload(f)
  BY <1>1, Zenon
<1> QED BY <1>2 DEF SpeaksOfBytes

\* What follows a varint speaks of bytes only to begin a payload.
LEMMA HandlersSpeak ==
  ASSUME NEW byte, NEW v, Handles(byte, v)
  PROVE  SpeaksOfBytes /\ BeginsPayload
<1>1. CASE HeaderRejected(byte, v) \/ CountRejected(byte, v) \/ FixlenWordRejected(byte, v)
  BY <1>1 DEF HeaderRejected, CountRejected, FixlenWordRejected, Rejects, SpeaksOfBytes,
     BeginsPayload
<1>2. CASE HeaderOpensValue(byte, v)
  <2>1. calls' = <<>> /\ v % 8 \in 0..5 /\ state' = ValueState[v % 8]
    BY <1>2 DEF HeaderOpensValue
  <2>2. \A t \in 0..5 : ValueState[t] # "FixlenRaw"
    BY DEF ValueState
  <2> QED BY <2>1, <2>2 DEF SpeaksOfBytes, BeginsPayload
<1>3. CASE FixlenArrayCounted(byte, v)
  BY <1>3 DEF FixlenArrayCounted, SpeaksOfBytes, BeginsPayload
<1>4. CASE HeaderBeginsSequence(byte, v)
  <2> DEFINE e == [fn |-> "sequence_begin", id |-> v \div 8]
  <2>1. calls' = <<e>> /\ state = "Idle" /\ state' = state
    BY <1>4 DEF HeaderBeginsSequence
  <2>2. e.fn \notin {"string", "blob"}
    OBVIOUS
  <2> HIDE DEF e
  <2>3. SpeaksOfBytes
    BY <2>1, <2>2, SpeaksOnce
  <2> QED BY <2>1, <2>3 DEF BeginsPayload
<1>5. CASE HeaderEndsSequence(byte, v)
  <2> DEFINE e == [fn |-> "sequence_end"]
  <2>1. calls' = <<e>> /\ state = "Idle" /\ state' = state
    BY <1>5 DEF HeaderEndsSequence
  <2>2. e.fn \notin {"string", "blob"}
    OBVIOUS
  <2> HIDE DEF e
  <2>3. SpeaksOfBytes
    BY <2>1, <2>2, SpeaksOnce
  <2> QED BY <2>1, <2>3 DEF BeginsPayload
<1>6. CASE IntegerArrayCounted(byte, v)
  <2> PICK e : e = [fn |-> "array_begin", id |-> id, kind |-> array_kind, count |-> v]
    OBVIOUS
  <2>1. calls' = <<e>> /\ state' # "FixlenRaw" /\ e.fn \notin {"string", "blob"}
    BY <1>6 DEF IntegerArrayCounted
  <2>2. SpeaksOfBytes
    BY <2>1, SpeaksOnce
  <2> QED BY <2>1, <2>2 DEF BeginsPayload
<1>7. CASE IntegerEnds(byte, v)
  <2> PICK e : e = IF state = "VarintSigned"
                     THEN [fn |-> "signed", id |-> id, value |-> zigzag_decode(v)]
                     ELSE [fn |-> "unsigned", id |-> id, value |-> v]
    OBVIOUS
  <2>1. calls' = <<e>> /\ state' # "FixlenRaw" /\ e.fn \notin {"string", "blob"}
    BY <1>7 DEF IntegerEnds, advance_after_element
  <2>2. SpeaksOfBytes
    BY <2>1, SpeaksOnce
  <2> QED BY <2>1, <2>2 DEF BeginsPayload
<1>8. ASSUME NEW t \in FixlenTypes, FixlenArrayAnnounced(byte, v, t)
      PROVE  SpeaksOfBytes /\ BeginsPayload
  <2> PICK e : e = [fn |-> "array_begin", id |-> id, kind |-> t, count |-> array_remaining]
    OBVIOUS
  <2>1. calls' = <<e>> /\ state' # "FixlenRaw" /\ e.fn \notin {"string", "blob"}
    BY <1>8 DEF FixlenArrayAnnounced
  <2>2. SpeaksOfBytes
    BY <2>1, SpeaksOnce
  <2> QED BY <2>1, <2>2 DEF BeginsPayload
<1>9. ASSUME NEW t \in FixlenTypes, FixlenFieldAnnounced(byte, v, t)
      PROVE  SpeaksOfBytes /\ BeginsPayload
  <2> PICK e : e = [fn |-> "fixlen_begin", id |-> id, subtype |-> t, total |-> v \div 8]
    OBVIOUS
  <2> PICK d : d = payload_chunk(t, 0, 0, <<>>)
    OBVIOUS
  <2>1. calls' = <<e>> \/ calls' = <<e, d>>
    BY <1>9 DEF FixlenFieldAnnounced
  <2>2. fixlen_remaining' = fixlen_total'
    BY <1>9 DEF FixlenFieldAnnounced, FixlenWord
  <2>3. e.fn \notin {"string", "blob"} /\ EmptyPayload(d)
    BY DEF EmptyPayload, IsPayload, payload_chunk
  <2>4. calls' = <<e, d>> => SpeaksOfBytes
    <3>1. ~IsPayload(e)
      BY <2>3 DEF IsPayload
    <3>2. calls' = <<e, d>> => \E f, g : calls' = <<f, g>> /\ ~IsPayload(f) /\ EmptyPayload(g)
      BY <2>3, <3>1, Zenon
    <3> QED BY <3>2 DEF SpeaksOfBytes
  <2> QED BY <2>1, <2>2, <2>3, <2>4, SpeaksOnce DEF BeginsPayload
<1> QED BY <1>1, <1>2, <1>3, <1>4, <1>5, <1>6, <1>7, <1>8, <1>9 DEF Handles

\* So does every byte read by itself.
LEMMA StepSpeaks ==
  ASSUME NEW byte, step(byte) PROVE SpeaksOfBytes /\ BeginsPayload
<1>1. CASE Continues(byte)
  BY <1>1 DEF Continues, VarintStates, SpeaksOfBytes, BeginsPayload
<1>2. CASE OverlongRejected(byte)
  BY <1>2 DEF OverlongRejected, Rejects, SpeaksOfBytes, BeginsPayload
<1>3. CASE FloatByte(byte)
  BY <1>3 DEF FloatByte, SpeaksOfBytes, BeginsPayload
<1>4. CASE FloatEnds(byte)
  <2> PICK e : e = [fn |-> IF fixlen_type = "Fp64" THEN "fp64" ELSE "fp32", id |-> id,
                    value |-> FloatBits(PushedHigh(byte), PushedLow)]
    OBVIOUS
  <2>1. calls' = <<e>> /\ state' # "FixlenRaw" /\ e.fn \notin {"string", "blob"}
    BY <1>4 DEF FloatEnds, advance_after_element
  <2>2. SpeaksOfBytes
    BY <2>1, SpeaksOnce
  <2> QED BY <2>1, <2>2 DEF BeginsPayload
<1>5. CASE Handles(byte, Accumulate(acc, byte, shift))
  BY <1>5, HandlersSpeak
<1> QED BY <1>1, <1>2, <1>3, <1>4, <1>5 DEF step

\* A decoder that has answered INVALID reads no byte.
LEMMA StepReads == ASSUME NEW byte, step(byte) PROVE state # "Invalid"
BY DEF step, Handles, Continues, OverlongRejected, HeaderOpensValue, HeaderBeginsSequence,
   HeaderEndsSequence, HeaderRejected, IntegerEnds, IntegerArrayCounted, FixlenArrayCounted,
   CountRejected, FixlenArrayAnnounced, FixlenFieldAnnounced, FixlenWordRejected, FloatByte,
   FloatEnds, Ends, VarintStates

\* An empty payload is handed back at once.
LEMMA EmptyPassed ==
  ASSUME AInv, Passes, Hears, IsSequence(log), BeginsPayload,
         NEW e, NEW d, calls' = <<e, d>>, ~IsPayload(e), EmptyPayload(d)
  PROVE  AInv'
<1>1. /\ Len(calls') = 2 /\ calls'[1] = e /\ calls'[2] = d
  <2>1. Len(<<e, d>>) = 2 /\ <<e, d>>[1] = e /\ <<e, d>>[2] = d
    OBVIOUS
  <2> QED BY <2>1
<1>2. {i \in 1..Len(calls') : IsPayload(calls'[i])} = {2}
  BY <1>1 DEF EmptyPayload
<1>3. /\ Acc!feed(0, 0, <<>>)
      /\ got' = IF out'.is = "payload" THEN Append(got, out'.bytes) ELSE got
  BY <1>1, <1>2 DEF Passes, EmptyPayload
<1>4. /\ out' = Acc!Value(<<>>) /\ len' = 0 /\ complete' = TRUE /\ UNCHANGED buf
  <2>1. Len(<<>>) = 0 /\ SubSeq(<<>>, 1, 0) = <<>> /\ ~(0 > N) /\ 0 >= 0
    BY AccumulatorAssumption
  <2> QED BY <1>3, <2>1 DEF Acc!feed
<1>5. got' = Append(got, <<>>)
  BY <1>3, <1>4 DEF Acc!Value
<1>6. Wholes(log') = Append(Wholes(log), <<>>)
  <2>1. PICK l : l = log
    OBVIOUS
  <2>2. log' = Append(Append(l, e), d)
    BY <2>1, HearsTwo DEF EmptyPayload, IsPayload
  <2>3. IsSequence(l) /\ IsSequence(Append(l, e))
    BY <2>1, AppendIs
  <2>4. Wholes(Append(Append(l, e), d)) = Picked(Picked(Wholes(l), e), d)
    BY <2>3, WholesGrow
  <2>5. ~Fits(e) /\ Fits(d) /\ d.chunk = <<>>
    BY AccumulatorAssumption DEF EmptyPayload, Fits
  <2> QED BY <2>1, <2>2, <2>4, <2>5 DEF Picked
<1>7. Storage' /\ Held'
  BY <1>4, AccumulatorAssumption DEF AInv, Storage, Held, BeginsPayload
<1>8. PayloadsArriveWhole'
  BY <1>5, <1>6 DEF AInv, PayloadsArriveWhole
<1> QED BY <1>7, <1>8 DEF AInv

-----------------------------------------------------------------------------
(* A run of a payload *)

\* The storage after a run has been copied behind the first l bytes.
Copied(old, l, chunk) ==
  [i \in 1..N |-> IF i \in (l + 1)..(l + Len(chunk)) THEN chunk[i - l] ELSE old[i]]

\* The storage starts with these bytes.
HoldsOf(bytes, s) == \A i \in 1..Len(s) : bytes[i] = s[i]

\* The next run of a payload, copied behind what the storage holds of it.
LEMMA RunCopied ==
  ASSUME NEW old \in [1..N -> Bytes], NEW before \in Seq(Bytes), NEW chunk \in Seq(Bytes),
         Len(before) + Len(chunk) <= N, HoldsOf(old, before)
  PROVE  /\ Copied(old, Len(before), chunk) \in [1..N -> Bytes]
         /\ HoldsOf(Copied(old, Len(before), chunk), before \o chunk)
         /\ SubSeq(Copied(old, Len(before), chunk), 1, Len(before \o chunk)) = before \o chunk
<1> PICK l, new, here : l = Len(before) /\ new = Copied(old, l, chunk) /\ here = before \o chunk
  OBVIOUS
<1>0. \A i \in 1..l : old[i] = before[i]
  BY DEF HoldsOf
<1>1. N \in Nat /\ l \in Nat /\ Len(chunk) \in Nat
  BY AccumulatorAssumption, LenProperties
<1>2. /\ here \in Seq(Bytes) /\ Len(here) = l + Len(chunk) /\ Len(here) \in Nat
      /\ \A i \in 1..(l + Len(chunk)) : here[i] = IF i <= l THEN before[i] ELSE chunk[i - l]
      /\ \A i \in 1..(l + Len(chunk)) : here[i] \in Bytes
  BY <1>1, ConcatProperties, ElementOfSeq
<1>3. new = [i \in 1..N |-> IF i \in (l + 1)..(l + Len(chunk)) THEN chunk[i - l] ELSE old[i]]
  BY DEF Copied
<1>4. ASSUME NEW i \in 1..N PROVE new[i] \in Bytes /\ (i <= Len(here) => new[i] = here[i])
  <2>1. CASE i \in (l + 1)..(l + Len(chunk))
    <3>1. i \in 1..(l + Len(chunk)) /\ ~(i <= l)
      BY <1>1, <2>1
    <3>2. here[i] = chunk[i - l] /\ here[i] \in Bytes
      BY <1>2, <3>1
    <3> QED BY <1>3, <2>1, <3>2
  <2>2. CASE i \notin (l + 1)..(l + Len(chunk))
    <3>1. new[i] = old[i] /\ old[i] \in Bytes
      BY <1>3, <2>2
    <3>2. ASSUME i <= Len(here) PROVE old[i] = here[i]
      <4>1. i \in 1..l /\ i <= l /\ i \in 1..(l + Len(chunk))
        BY <1>1, <1>2, <2>2, <3>2
      <4> QED BY <1>0, <1>2, <4>1
    <3> QED BY <3>1, <3>2
  <2> QED BY <2>1, <2>2
<1>5. new \in [1..N -> Bytes]
  BY <1>3, <1>4
<1>6. \A i \in 1..Len(here) : new[i] = here[i]
  <2>1. \A i \in 1..Len(here) : i \in 1..N /\ i <= Len(here)
    BY <1>1, <1>2
  <2> QED BY <1>4, <2>1
<1>7. SubSeq(new, 1, Len(here)) = here
  <2>1. \A i \in 1..Len(here) : new[i] \in Bytes
    BY <1>2, <1>6
  <2>2. PICK m, w : m = Len(here) /\ w = SubSeq(new, 1, m)
    OBVIOUS
  <2>3. w \in Seq(Bytes) /\ Len(w) = m /\ \A i \in 1..m : w[i] = new[i]
    BY <1>2, <2>1, <2>2, SubSeqProperties
  <2>4. w = here
    <3>1. Len(w) = Len(here) /\ \A i \in 1..Len(w) : w[i] = here[i]
      BY <1>6, <2>2, <2>3
    <3>2. w \in Seq(Bytes) /\ here \in Seq(Bytes)
      BY <1>2, <2>3
    <3> HIDE <2>2
    <3> QED BY <3>1, <3>2, SeqEqual
  <2> QED BY <2>2, <2>4
<1> QED BY <1>5, <1>6, <1>7 DEF HoldsOf

\* What has arrived of a payload is the last event of the log; what the accumulator
\* has handed back are the payloads before it.
LEMMA PayloadUnderway ==
  ASSUME Inv, HInv, AInv, state = "FixlenRaw", NEW p \in 1..(Len(seen) + 1), NEW events,
         IsSequence(events), InItem(p), log = History(p, events)
  PROVE  got = Wholes(events)
<1> DEFINE before == SubSeq(seen, p, Len(seen))
           e == PayloadEvent(Awaited, before)
<1>1. /\ fixlen_total \in Nat /\ fixlen_remaining \in 1..fixlen_total
      /\ fixlen_total - fixlen_remaining = Len(seen) - p + 1 /\ seen \in Seq(Bytes)
  BY Ceilings DEF Inv, TypeOK, CountsMatchState, InItem, HInv
<1>2. Len(before) = fixlen_total - fixlen_remaining
  <2>1. Len(before) = Len(seen) - p + 1
    BY <1>1, EmptySeq, TailGrows
  <2> QED BY <1>1, <2>1
<1>3. ~Fits(e)
  <2>1. e.total = fixlen_total /\ e.chunk = before
    BY DEF PayloadEvent, Awaited, APayload
  <2> HIDE DEF e, before
  <2> QED BY <1>1, <1>2, <2>1 DEF Fits
<1>4. Wholes(Append(events, e)) = Wholes(events)
  <2> HIDE DEF e
  <2> QED BY <1>3, WholesGrow DEF Picked
<1>5. got = Wholes(log)
  BY DEF AInv, PayloadsArriveWhole
<1> QED BY <1>4, <1>5 DEF History

\* A run is passed on as the next of its payload.
LEMMA RunPassed ==
  ASSUME Inv, HInv, AInv, Hears, Passes, NEW chunk \in Runs, RawRun(chunk),
         seen' = seen \o chunk
  PROVE  AInv'
<1> DEFINE total == fixlen_total
           k     == fixlen_total - fixlen_remaining
<1>1. /\ state = "FixlenRaw"
      /\ Len(chunk) = IF left < fixlen_remaining THEN left ELSE fixlen_remaining
      /\ fixlen_remaining' = fixlen_remaining - Len(chunk) /\ fixlen_total' = fixlen_total
      /\ state' = IF fixlen_remaining' = 0 THEN "Idle" ELSE state
      /\ calls' = <<payload_chunk(fixlen_type, total, k, chunk)>>
  BY DEF RawRun
<1>2. /\ total \in Nat /\ fixlen_remaining \in 1..total /\ k \in Nat
      /\ left \in Nat /\ left > 0
  BY <1>1, Ceilings, InputAssumption DEF RawRun, Inv, TypeOK, CountsMatchState
<1>3. Len(chunk) \in 1..fixlen_remaining /\ chunk \in Seq(Bytes)
  <2>1. chunk \in Seq(PayloadInput)
    BY DEF Runs
  <2>2. chunk \in Seq(Bytes)
    BY <2>1, InputAssumption, SeqMonotonic
  <2> QED BY <1>1, <1>2, <2>2
<1>4. seen \in Seq(Bytes) /\ \E n, p, events : Reached(n, p, events)
  BY <1>1 DEF HInv
<1>5. PICK n, p, events : Reached(n, p, events)
  BY <1>4
<1>6. /\ p \in 1..(Len(seen) + 1) /\ IsSequence(events) /\ InItem(p)
      /\ log = History(p, events) /\ k = Len(seen) - p + 1
  BY <1>1, <1>5 DEF Reached, InItem
<1> DEFINE a      == APayload(id, fixlen_type, total)
           before == SubSeq(seen, p, Len(seen))
           here   == SubSeq(seen', p, Len(seen'))
           event  == PayloadEvent(a, here)
<1>7. /\ here = before \o chunk /\ before \in Seq(Bytes) /\ Len(before) = k
      /\ here \in Seq(Bytes) /\ Len(here) = k + Len(chunk)
  <2>1. /\ SubSeq(seen \o chunk, p, Len(seen \o chunk)) = before \o chunk
        /\ before \in Seq(Bytes) /\ Len(before) = Len(seen) - p + 1
    BY <1>3, <1>4, <1>6, TailGrows
  <2> HIDE DEF before, k
  <2>2. Len(before \o chunk) = Len(before) + Len(chunk) /\ before \o chunk \in Seq(Bytes)
    BY <1>3, <2>1, Followed
  <2> QED BY <1>6, <2>1, <2>2
<1>8. Len(here) <= total /\ Len(here) \in Nat /\ fixlen_remaining' = total - Len(here)
  BY <1>1, <1>2, <1>3, <1>7
<1>9. Wholes(log') = Picked(got, event)
  <2>1. log' = Append(events, event)
    BY <1>3, <1>4, <1>6, RunHeard
  <2>2. got = Wholes(events)
    BY <1>1, <1>6, PayloadUnderway
  <2> HIDE DEF event
  <2> QED BY <1>6, <2>1, <2>2, WholesGrow
<1>10. Fits(event) <=> total <= N /\ Len(here) = total
  <2>1. event.fn \in {"string", "blob"} /\ event.total = total /\ event.chunk = here
    BY DEF PayloadEvent, APayload, BytesCall
  <2> HIDE DEF event, here, total
  <2> QED BY <2>1 DEF Fits, IsPayload
<1>11. event.chunk = here
  BY DEF PayloadEvent
<1>12. /\ Acc!feed(total, k, chunk)
       /\ got' = IF out'.is = "payload" THEN Append(got, out'.bytes) ELSE got
  <2> PICK c : c = payload_chunk(fixlen_type, total, k, chunk)
    OBVIOUS
  <2>1. /\ c.total = total /\ c.offset = k /\ c.chunk = chunk /\ IsPayload(c)
    BY DEF payload_chunk, IsPayload
  <2>2. Len(calls') = 1 /\ calls'[1] = c
    <3>1. Len(<<c>>) = 1 /\ <<c>>[1] = c
      OBVIOUS
    <3> QED BY <1>1, <3>1
  <2>3. {i \in 1..Len(calls') : IsPayload(calls'[i])} = {1}
    BY <2>1, <2>2
  <2> HIDE DEF k, total
  <2> QED BY <2>1, <2>2, <2>3 DEF Passes
<1>13. N \in Nat /\ len \in 0..N
  BY AccumulatorAssumption DEF AInv, Storage
<1> HIDE DEF event, here, before
<1>14. CASE total > N
  <2> HIDE DEF k
  <2>1. /\ out' = Acc!Nothing \/ out' = Acc!Refusal
        /\ buf' = buf /\ len' \in 0..N /\ complete' \in BOOLEAN
    <3>1. Storage
      BY DEF AInv
    <3>2. CASE k # 0 /\ complete
      BY <1>12, <3>1, <3>2 DEF Acc!feed, Storage
    <3>3. CASE ~(k # 0 /\ complete)
      <4>1. out' = Acc!Refusal /\ len' = (IF k = 0 THEN 0 ELSE len) /\ complete' = FALSE
            /\ UNCHANGED buf
        BY <1>12, <1>14, <3>3 DEF Acc!feed
      <4>2. 0 \in 0..N
        BY <1>13
      <4> QED BY <1>13, <4>1, <4>2
    <3> QED BY <3>2, <3>3
  <2>2. got' = got /\ ~Fits(event)
    BY <1>2, <1>10, <1>12, <1>13, <1>14, <2>1 DEF Acc!Nothing, Acc!Refusal
  <2>3. Storage' /\ Held'
    BY <1>1, <1>2, <1>13, <1>14, <2>1 DEF AInv, Storage, Held
  <2>4. PayloadsArriveWhole'
    BY <1>9, <2>2 DEF PayloadsArriveWhole, Picked
  <2> QED BY <2>3, <2>4 DEF AInv
<1>15. CASE total <= N /\ k = 0 /\ Len(chunk) >= total
  <2>1. Len(chunk) = total /\ Len(here) = total /\ before = <<>>
    <3>1. Len(before) = 0
      BY <1>7, <1>15
    <3>2. before = <<>>
      BY <1>7, <3>1, EmptySeq
    <3>3. Len(chunk) <= total /\ Len(chunk) \in Nat
      BY <1>2, <1>3
    <3>4. Len(chunk) = total
      BY <1>2, <1>15, <3>3
    <3> QED BY <1>7, <1>15, <3>2, <3>3, <3>4
  <2>2. here = chunk /\ SubSeq(chunk, 1, Len(chunk)) = chunk
    BY <1>3, <1>7, <2>1, ConcatEmptySeq, SubSeqFull
  <2>3. /\ out' = Acc!Value(SubSeq(chunk, 1, total)) /\ len' = 0 /\ complete' = TRUE
        /\ UNCHANGED buf
    <3>1. ~(k # 0 /\ complete) /\ ~(total > N)
      BY <1>2, <1>13, <1>15
    <3> HIDE DEF k, total
    <3> QED BY <1>12, <1>15, <3>1 DEF Acc!feed
  <2>4. out' = Acc!Value(here)
    BY <2>1, <2>2, <2>3
  <2>5. got' = Append(got, here) /\ Fits(event)
    BY <1>10, <1>12, <1>15, <2>1, <2>4 DEF Acc!Value
  <2>6. state' = "Idle"
    BY <1>1, <1>8, <2>1
  <2>7. Storage' /\ Held'
    BY <1>13, <2>3, <2>6 DEF AInv, Storage, Held
  <2>8. PayloadsArriveWhole'
    BY <1>9, <1>11, <2>5 DEF PayloadsArriveWhole, Picked
  <2> QED BY <2>7, <2>8 DEF AInv
<1>16. CASE total <= N /\ ~(k = 0 /\ Len(chunk) >= total)
  <2>1. k # 0 => complete = FALSE /\ len = k
                   /\ \A i \in 1..k : buf[i] = seen[Len(seen) - k + i]
    <3>1. k # 0 => fixlen_remaining # fixlen_total
      BY <1>2
    <3>2. Held /\ fixlen_total <= N
      BY <1>16 DEF AInv
    <3>3. k = fixlen_total - fixlen_remaining
      OBVIOUS
    <3> HIDE DEF k
    <3> QED BY <1>1, <3>1, <3>2, <3>3 DEF Held
  <2>2. Acc!Takes(total, k, chunk)
    <3>1. ~(k # 0 /\ complete) /\ ~(total > N) /\ (IF k = 0 THEN 0 ELSE len) = k
      BY <1>2, <1>13, <1>16, <2>1
    <3> HIDE DEF k, total
    <3> QED BY <1>12, <1>16, <3>1 DEF Acc!feed
  <2>3. \A i \in 1..k : buf[i] = before[i]
    <3> SUFFICES ASSUME NEW i \in 1..k PROVE buf[i] = before[i]
      OBVIOUS
    <3>1. before[i] = seen[p + i - 1]
      BY <1>4, <1>6, <1>7 DEF before
    <3>2. p + i - 1 = Len(seen) - k + i /\ k # 0
      BY <1>2, <1>4, <1>6
    <3> QED BY <2>1, <3>1, <3>2
  <2>4. /\ Storage' /\ len' = Len(here) /\ \A i \in 1..Len(here) : buf'[i] = here[i]
        /\ complete' <=> Len(here) >= total
        /\ out' = IF Len(here) >= total THEN Acc!Value(here) ELSE Acc!Nothing
    <3>1. Acc!Lesser(IF total > k THEN total - k ELSE 0, Acc!Lesser(N - k, Len(chunk)))
            = Len(chunk)
      <4>1. k + Len(chunk) <= total /\ Len(chunk) \in Nat /\ total <= N /\ N \in Nat
        BY <1>3, <1>7, <1>8, <1>13, <1>16
      <4> HIDE DEF total, k
      <4>2. IF total > k THEN total - k >= Len(chunk) ELSE 0 >= Len(chunk)
        BY <1>2, <4>1
      <4> QED BY <1>2, <4>1, <4>2 DEF Acc!Lesser
    <3>2. /\ buf' = Copied(buf, k, chunk)
          /\ len' = k + Len(chunk) /\ complete' = (len' >= total)
          /\ out' = IF complete' THEN Acc!Value(SubSeq(buf', 1, total)) ELSE Acc!Nothing
      <4> HIDE DEF total, k
      <4> QED BY <2>2, <3>1 DEF Acc!Takes, Copied
    <3>3. PICK old, new, b, l, h : old = buf /\ new = buf' /\ b = before /\ l = k /\ h = here
      OBVIOUS
    <3>4. Len(here) <= N /\ total \in Nat
      BY <1>2, <1>8, <1>13, <1>16
    <3> HIDE DEF total, k
    <3>5. /\ old \in [1..N -> Bytes] /\ b \in Seq(Bytes) /\ l = Len(b) /\ h = b \o chunk
          /\ Len(b) + Len(chunk) <= N /\ HoldsOf(old, b)
          /\ new = Copied(old, Len(b), chunk)
      BY <1>7, <2>3, <3>2, <3>3, <3>4 DEF AInv, Storage, HoldsOf
    <3>6. /\ new \in [1..N -> Bytes] /\ HoldsOf(new, h) /\ SubSeq(new, 1, Len(h)) = h
      <4>1. /\ Copied(old, Len(b), chunk) \in [1..N -> Bytes]
            /\ HoldsOf(Copied(old, Len(b), chunk), b \o chunk)
            /\ SubSeq(Copied(old, Len(b), chunk), 1, Len(b \o chunk)) = b \o chunk
        <5> HIDE <3>3
        <5> QED BY <1>3, <3>5, RunCopied
      <4> QED BY <3>5, <4>1
    <3>7. /\ buf' \in [1..N -> Bytes] /\ \A i \in 1..Len(here) : buf'[i] = here[i]
          /\ SubSeq(buf', 1, Len(here)) = here
      BY <3>3, <3>6 DEF HoldsOf
    <3>8. /\ len' = Len(here) /\ len' \in 0..N /\ complete' = (Len(here) >= total)
          /\ complete' \in BOOLEAN
      BY <1>7, <1>8, <1>13, <3>2, <3>4
    <3>9. out' = IF Len(here) >= total THEN Acc!Value(here) ELSE Acc!Nothing
      <4>1. CASE Len(here) >= total
        <5>1. Len(here) = total
          BY <1>8, <3>4, <4>1
        <5> QED BY <3>2, <3>7, <3>8, <4>1, <5>1
      <4>2. CASE ~(Len(here) >= total)
        BY <3>2, <3>8, <4>2
      <4> QED BY <4>1, <4>2
    <3> QED BY <3>7, <3>8, <3>9 DEF Storage
  <2>5. CASE Len(here) = total
    <3>1. got' = Append(got, here) /\ Fits(event)
      BY <1>8, <1>10, <1>12, <1>16, <2>4, <2>5 DEF Acc!Value
    <3>2. state' = "Idle"
      BY <1>1, <1>8, <2>5
    <3>3. Held'
      BY <3>2 DEF Held
    <3>4. PayloadsArriveWhole'
      BY <1>9, <1>11, <3>1 DEF PayloadsArriveWhole, Picked
    <3> QED BY <2>4, <3>3, <3>4 DEF AInv
  <2>6. CASE Len(here) # total
    <3>1. ~(Len(here) >= total)
      BY <1>2, <1>8, <2>6
    <3>2. got' = got /\ ~Fits(event)
      BY <1>10, <1>12, <2>4, <2>6, <3>1 DEF Acc!Nothing
    <3>3. complete' = FALSE /\ len' = fixlen_total' - fixlen_remaining'
      <4>1. complete' = FALSE
        BY <2>4, <3>1 DEF Storage
      <4>2. fixlen_total' - fixlen_remaining' = Len(here)
        <5>1. \A t, h \in Int : t - (t - h) = h
          OBVIOUS
        <5>2. fixlen_total' - fixlen_remaining' = total - (total - Len(here))
          BY <1>1, <1>8
        <5>3. total \in Int /\ Len(here) \in Int
          BY <1>2, <1>8
        <5> HIDE DEF total
        <5> QED BY <5>1, <5>2, <5>3
      <4> QED BY <2>4, <4>1, <4>2
    <3>4. \A i \in 1..len' : buf'[i] = seen'[Len(seen') - len' + i]
      <4> SUFFICES ASSUME NEW i \in 1..Len(here)
                   PROVE  buf'[i] = seen'[Len(seen') - Len(here) + i]
        BY <2>4
      <4>1. seen' \in Seq(Bytes) /\ Len(seen') = Len(seen) + Len(chunk) /\ Len(seen) \in Nat
        BY <1>3, <1>4, Followed
      <4>2. Len(seen') - Len(here) + i = p + i - 1
        <5>1. \A m, c, j, q, h \in Int : j = m - q + 1 /\ h = j + c => (m + c) - h + i = q + i - 1
          OBVIOUS
        <5>2. Len(chunk) \in Int /\ k \in Int /\ p \in Int /\ Len(here) \in Int /\ Len(seen) \in Int
          BY <1>2, <1>3, <1>6, <1>8, <4>1
        <5> HIDE DEF k
        <5> QED BY <1>6, <1>7, <4>1, <5>1, <5>2
      <4>3. here[i] = seen'[p + i - 1]
        BY <1>6, <1>7, <4>1 DEF here
      <4> QED BY <2>4, <4>2, <4>3
    <3>5. Held'
      BY <3>3, <3>4 DEF Held
    <3>6. PayloadsArriveWhole'
      BY <1>9, <3>2 DEF PayloadsArriveWhole, Picked
    <3> QED BY <2>4, <3>5, <3>6 DEF AInv
  <2> QED BY <2>5, <2>6
<1>17. total > N \/ total <= N
  BY <1>2, <1>13
<1> QED BY <1>14, <1>15, <1>16, <1>17

-----------------------------------------------------------------------------
(* Every step *)

\* The next message is begun with a new decoder.
LEMMA NextMessage == Restarts => Inv' /\ LowInv' /\ HInv'
<1>1. Restarts => HistoryInit'
  BY DEF Restarts, HistoryInit, Init
<1>2. HistoryInit => Inv /\ LowInv /\ HInv
  BY HistoryStart, InitInv, LowInvInit DEF HistoryInit
<1> QED BY <1>1, <1>2, PTL

\* A new decoder and a new accumulator are in the invariant.
LEMMA AInvInit == AccumulatingInit => AInv
<1> SUFFICES ASSUME AccumulatingInit PROVE AInv
  OBVIOUS
<1>1. /\ buf = [i \in 1..N |-> 0] /\ len = 0 /\ complete = FALSE /\ got = <<>> /\ log = <<>>
      /\ state = "Idle"
  BY DEF AccumulatingInit, HistoryInit, Init, Acc!Init
<1>2. 0 \in Bytes /\ 0 \in 0..N
  BY AccumulatorAssumption, Widths DEF Bytes
<1> QED BY <1>1, <1>2, WholesGrow DEF AInv, Storage, Held, PayloadsArriveWhole

\* Every step keeps the invariant of decoder and accumulator.
LEMMA AInvNext ==
  ASSUME Inv, HInv, AInv, [AccumulatingNext]_accumulating
  PROVE  AInv'
<1>1. CASE UNCHANGED accumulating
  BY <1>1, NothingPassed DEF accumulating, historyVars, vars, decoder, Unspoken
<1>2. CASE Restarts
  <2>1. got' = <<>> /\ log' = <<>> /\ UNCHANGED accumulator /\ state' = "Idle"
    BY <1>2 DEF Restarts
  <2> QED BY <2>1, WholesGrow DEF AInv, Storage, Held, PayloadsArriveWhole, accumulator
<1>3. CASE Passes /\ (Feeds \/ FeedRefused \/ FeedReturns) /\ UNCHANGED <<seen, log>>
  <2>1. calls' = <<>> /\ UNCHANGED <<state, fixlen_remaining, fixlen_total>>
    BY <1>3 DEF Feeds, FeedBegins, FeedRefused, FeedReturns, decoder
  <2> QED BY <1>3, <2>1, PassesNothing, NothingPassed
<1>4. ASSUME Passes, NEW byte \in Input, step(byte), seen' = Append(seen, byte), Hears
      PROVE  AInv'
  <2>1. SpeaksOfBytes /\ BeginsPayload
    BY <1>4, StepSpeaks
  <2>2. CASE calls' = <<>>
    <3>1. log' = log
      BY <1>4, <2>2, HearsNothing
    <3> QED BY <1>4, <2>1, <2>2, <3>1, PassesNothing, NothingPassed DEF BeginsPayload
  <2>3. CASE calls' # <<>>
    <3>1. state # "Invalid"
      BY <1>4, StepReads
    <3>2. IsSequence(log)
      BY <3>1, LogIsSequence
    <3>3. ASSUME NEW e, calls' = <<e>>, ~IsPayload(e) PROVE AInv'
      BY <1>4, <2>1, <3>2, <3>3, PassesOthers, OtherEvents, NothingPassed DEF BeginsPayload
    <3>4. ASSUME NEW e, NEW d, calls' = <<e, d>>, ~IsPayload(e), EmptyPayload(d) PROVE AInv'
      BY <1>4, <2>1, <3>2, <3>4, EmptyPassed
    <3> QED BY <2>1, <2>3, <3>3, <3>4 DEF SpeaksOfBytes
  <2> QED BY <2>2, <2>3
<1>5. ASSUME Passes, NEW chunk \in Runs, RawRun(chunk), seen' = seen \o chunk, Hears
      PROVE  AInv'
  BY <1>5, RunPassed
<1> QED BY <1>1, <1>2, <1>3, <1>4, <1>5 DEF AccumulatingNext, HistoryNext

-----------------------------------------------------------------------------
(* Theorems *)

\* The invariants always hold together.
LEMMA AccumulatingInvariance ==
  AccumulatingSpec => []Inv /\ []LowInv /\ []HInv /\ []AInv
<1> DEFINE I == Inv /\ LowInv /\ HInv /\ AInv
<1>1. AccumulatingInit => I
  BY HistoryStart, InitInv, LowInvInit, AInvInit DEF AccumulatingInit, HistoryInit
<1>2. ASSUME I, [AccumulatingNext]_accumulating PROVE I'
  <2>1. AInv'
    BY <1>2, AInvNext
  <2>2. CASE Restarts
    BY <2>1, <2>2, NextMessage
  <2>3. CASE ~Restarts
    <3>1. [HistoryNext]_historyVars
      BY <1>2, <2>3 DEF AccumulatingNext, accumulating
    <3>2. [Next]_vars
      BY <3>1 DEF HistoryNext, historyVars, Next, Decodes, Feeds
    <3>3. Inv' /\ LowInv'
      BY <1>2, <3>2, NextInv, LowNext
    <3>4. Inv /\ LowInv /\ HInv
      BY <1>2
    <3>5. HInv'
      <4>1. [HistoryMoves]_historyVars
        BY <3>1, MovesAreSteps
      <4> HIDE DEF I
      <4> QED BY <3>3, <3>4, <4>1, HistoryStep, Zenon
    <3> QED BY <2>1, <3>3, <3>5
  <2> QED BY <2>2, <2>3
<1> QED BY <1>1, <1>2, PTL DEF AccumulatingSpec

\* Behind a decoder, whatever the messages, however they are cut and whichever were
\* abandoned before, the payloads handed back are those of the message that the
\* storage can hold, each whole, once and in order.
THEOREM PayloadsAlwaysArriveWhole == AccumulatingSpec => []PayloadsArriveWhole
<1>1. AInv => PayloadsArriveWhole
  BY DEF AInv
<1> QED BY <1>1, AccumulatingInvariance, PTL
=============================================================================
