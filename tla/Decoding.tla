------------------------------ MODULE Decoding ------------------------------
(***************************************************************************)
(* A decoder and the history of one message: every byte it has been fed    *)
(* and every event its visitor has seen.  The history ties the streaming   *)
(* decoder to the meaning of the message as a whole.                       *)
(***************************************************************************)
EXTENDS IStream, WireGrammar

CONSTANT MaxMessage  \* the longest message fed

ASSUME MessageAssumption == MaxMessage \in Nat

VARIABLES
  seen,  \* the bytes fed so far, in order
  log    \* the events so far: callbacks, the chunks of a payload joined

historyVars == <<vars, seen, log>>

\* A visitor joins a chunk to the payload it continues.
Join(events, call) ==
  IF call.fn \in {"string", "blob"} /\ call.offset # 0
    THEN [events EXCEPT ![Len(events)].chunk = @ \o call.chunk]
    ELSE Append(events, call)

\* It hears the callbacks of a step in order.
Heard(events, made) ==
  LET heard[n \in 0..Len(made)] ==
        IF n = 0 THEN events ELSE Join(heard[n - 1], made[n])
  IN heard[Len(made)]

Hears == log' = Heard(log, calls')

HistoryInit == Init /\ seen = <<>> /\ log = <<>>

\* Feeding starts again only while the message may grow.
Feeds == \E n \in 0..MaxChunk : Len(seen) + n <= MaxMessage /\ FeedBegins(n)

HistoryNext ==
  \/ (Feeds \/ FeedRefused \/ FeedReturns) /\ UNCHANGED <<seen, log>>
  \/ \E byte \in Input : step(byte) /\ seen' = Append(seen, byte) /\ Hears
  \/ \E chunk \in Runs : RawRun(chunk) /\ seen' = seen \o chunk /\ Hears

HistorySpec == HistoryInit /\ [][HistoryNext]_historyVars

\* At every byte the visitor has seen exactly the events the bytes so far hold
\* when they are read in one piece, with the same ids, counts and values: how
\* the message was cut into chunks makes no difference, and what was delivered
\* ahead of a malformed byte stays delivered.
EventsAreTheMessages == log = Meaning(seen).events

\* What a feed returns is the verdict on all the bytes so far, not on its own
\* chunk: COMPLETE exactly at the end of a message no field or sequence of
\* which is open, INVALID exactly when no continuation could be a message.
VerdictIsTheMessages ==
  status \notin {"New", "Feeding"} => status = Meaning(seen).verdict
=============================================================================
