----------------------------- MODULE PayloadAcc -----------------------------
(***************************************************************************)
(* The accumulator of payload.rs: a visitor feeds it every chunk of its    *)
(* string and blob callbacks and gets each payload back once, whole.       *)
(*                                                                         *)
(* A definition whose name ends in _but_... is the one that follows it     *)
(* with a mistake: the properties must tell the two apart.                 *)
(***************************************************************************)
EXTENDS Naturals, Sequences

CONSTANT N  \* bytes of storage

ASSUME StorageAssumption == N \in Nat

VARIABLES
  buf,       \* the storage, N bytes
  len,       \* how many of them are held
  complete,  \* the current payload has been handed back
  out        \* what the last feed returned

accVars == <<buf, len, complete, out>>

Nothing       == [is |-> "none"]
Refusal       == [is |-> "Argument"]
Value(bytes)  == [is |-> "payload", bytes |-> bytes]

Init == buf = [i \in 1..N |-> 0] /\ len = 0 /\ complete = FALSE /\ out = Nothing

Lesser(m, n) == IF m < n THEN m ELSE n

\* The next piece: copy what the field still owes, hand it back when full.
Takes(total, l, chunk) ==
  LET copied == Lesser(IF total > l THEN total - l ELSE 0, Lesser(N - l, Len(chunk)))
  IN /\ buf' = [i \in 1..N |-> IF i \in (l + 1)..(l + copied) THEN chunk[i - l] ELSE buf[i]]
     /\ len' = l + copied
     /\ complete' = (len' >= total)
     /\ out' = IF complete' THEN Value(SubSeq(buf', 1, total)) ELSE Nothing

\* A chunk of a payload already handed back yields nothing, one of a payload
\* longer than the storage is refused, a first chunk that holds the whole payload
\* is handed back itself, and a chunk that is not the next piece is ignored.
feed_but_not_refused_whole(total, offset, chunk) ==
  IF offset # 0 /\ complete
    THEN out' = Nothing /\ UNCHANGED <<buf, len, complete>>
  ELSE LET l == IF offset = 0 THEN 0 ELSE len
       IN IF offset = 0 /\ Len(chunk) >= total
            THEN /\ out' = Value(SubSeq(chunk, 1, total))
                 /\ len' = 0 /\ complete' = TRUE /\ UNCHANGED buf
          ELSE IF total > N
            THEN out' = Refusal /\ len' = l /\ complete' = FALSE /\ UNCHANGED buf
          ELSE IF offset # l
            THEN out' = Nothing /\ len' = l /\ complete' = FALSE /\ UNCHANGED buf
          ELSE Takes(total, l, chunk)

feed_but_twice(total, offset, chunk) ==
  LET l == IF offset = 0 THEN 0 ELSE len
  IN IF total > N
       THEN out' = Refusal /\ len' = l /\ complete' = FALSE /\ UNCHANGED buf
     ELSE IF offset = 0 /\ Len(chunk) >= total
       THEN /\ out' = Value(SubSeq(chunk, 1, total))
            /\ len' = 0 /\ complete' = TRUE /\ UNCHANGED buf
     ELSE IF offset # l
       THEN out' = Nothing /\ len' = l /\ complete' = FALSE /\ UNCHANGED buf
     ELSE Takes(total, l, chunk)

feed_but_not_restarted(total, offset, chunk) ==
  IF offset # 0 /\ complete
    THEN out' = Nothing /\ UNCHANGED <<buf, len, complete>>
  ELSE IF total > N
    THEN out' = Refusal /\ complete' = FALSE /\ UNCHANGED <<buf, len>>
  ELSE IF offset = 0 /\ Len(chunk) >= total
    THEN /\ out' = Value(SubSeq(chunk, 1, total))
         /\ complete' = TRUE /\ UNCHANGED <<buf, len>>
  ELSE IF offset # len
    THEN out' = Nothing /\ complete' = FALSE /\ UNCHANGED <<buf, len>>
  ELSE Takes(total, len, chunk)

feed_but_spliced(total, offset, chunk) ==
  IF offset # 0 /\ complete
    THEN out' = Nothing /\ UNCHANGED <<buf, len, complete>>
  ELSE LET l == IF offset = 0 THEN 0 ELSE len
       IN IF total > N
            THEN out' = Refusal /\ len' = l /\ complete' = FALSE /\ UNCHANGED buf
          ELSE IF offset = 0 /\ Len(chunk) >= total
            THEN /\ out' = Value(SubSeq(chunk, 1, total))
                 /\ len' = 0 /\ complete' = TRUE /\ UNCHANGED buf
          ELSE Takes(total, l, chunk)

feed(total, offset, chunk) ==
  IF offset # 0 /\ complete
    THEN out' = Nothing /\ UNCHANGED <<buf, len, complete>>
  ELSE LET l == IF offset = 0 THEN 0 ELSE len
       IN IF total > N
            THEN out' = Refusal /\ len' = l /\ complete' = FALSE /\ UNCHANGED buf
          ELSE IF offset = 0 /\ Len(chunk) >= total
            THEN /\ out' = Value(SubSeq(chunk, 1, total))
                 /\ len' = 0 /\ complete' = TRUE /\ UNCHANGED buf
          ELSE IF offset # l
            THEN out' = Nothing /\ len' = l /\ complete' = FALSE /\ UNCHANGED buf
          ELSE Takes(total, l, chunk)

reset == len' = 0 /\ complete' = FALSE /\ out' = Nothing /\ UNCHANGED buf
=============================================================================
