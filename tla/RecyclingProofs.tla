-------------------------- MODULE RecyclingProofs --------------------------
(***************************************************************************)
(* Proofs about the recycling sink, for any number of buffers of any sizes *)
(* and whatever is written through them.                                   *)
(***************************************************************************)
EXTENDS Recycling, OStreamProofs

\* The steps of the callback, in the order the sink takes them, and where the
\* buffers are after each: nothing is installed before the callback has done it,
\* and what it has taken back is not given up again before it returns.
Callback ==
  /\ takes /\ did \subseteq {"put back", "install"}
  /\ pc # "sink" => did = {}
  /\ "install" \notin did => next = None
  /\ "install" \in did => next # None
  /\ pc = "sink" /\ "put back" \in did => retired = None
  /\ pc = "sink" => then.is # "swap"

RInv == Callback /\ NothingLost

-----------------------------------------------------------------------------
(* The sink uses the encoder as any sink may *)

\* A pooling sink does what a sink may do.
LEMMA StepsAreSteps == [RecyclingNext]_recyclingVars => [Next]_vars
<1> SUFFICES ASSUME RecyclingNext PROVE [Next]_vars
  BY DEF recyclingVars
<1>1. CASE PutsBack
  BY <1>1 DEF PutsBack, Next
<1>2. CASE InstallsFromPool
  BY <1>2, RecyclingAssumption DEF InstallsFromPool, Next, Installs
<1>3. CASE CallbackReturns
  BY <1>3 DEF CallbackReturns, Next, Drains
<1>4. CASE Pushes \/ WritesField \/ BeginsSequence \/ EndsSequence \/ flush
  BY <1>4 DEF Next, Drains
<1> QED
  BY <1>1, <1>2, <1>3, <1>4 DEF RecyclingNext, RunsOn

\* So the invariant of the encoder holds behind it.
LEMMA RecyclingIInv == RecyclingSpec => []IInv
<1>1. RecyclingInit => Init
  BY DEF RecyclingInit
<1> QED
  BY <1>1, StepsAreSteps, InitInv, NextInv, PTL DEF RecyclingSpec

-----------------------------------------------------------------------------
(* Where the buffers are *)

\* A sink whose pool has every buffer but the first is in the invariant.
LEMMA RInit == RecyclingInit => RInv
<1> SUFFICES ASSUME RecyclingInit PROVE RInv
  OBVIOUS
<1>1. takes
  BY RecyclingAssumption DEF RecyclingInit, Init, Built
<1> QED
  BY <1>1, StreamAssumption DEF RecyclingInit, Init, RInv, Callback, NothingLost, None

\* No buffer of the pool is refused by `install`.
LEMMA PoolFits ==
  ASSUME IInv, NEW b \in free
  PROVE  HeaderRoom <= Size[b] /\ Size[b] - HeaderRoom >= MIN_OUTPUT_BUFFER
<1>1. HeaderRoom \in Nat /\ Size[b] \in Nat /\ HeaderRoom < Size[b]
  BY StreamAssumption, RecyclingAssumption DEF IInv, TypeOK, BufferTypeOK
<1> QED
  BY <1>1 DEF MIN_OUTPUT_BUFFER

\* Every step of the sink and of the encoder keeps it.
LEMMA RNext == IInv /\ RInv /\ [RecyclingNext]_recyclingVars => RInv'
<1> SUFFICES ASSUME IInv, RInv, [RecyclingNext]_recyclingVars PROVE RInv'
  OBVIOUS
<1> USE DEF RInv, Callback, NothingLost
<1>1. CASE UNCHANGED recyclingVars
  BY <1>1 DEF recyclingVars, vars, streamVars, doingVars
<1>2. CASE PutsBack
  <2>1. did' = did \cup {"put back"} /\ pc = "sink"
    BY <1>2 DEF PutsBack
  <2>2. /\ retired' = None /\ UNCHANGED <<takes, pc, then, next, buffer>>
        /\ free' = free \cup (IF retired = None THEN {} ELSE {retired.buffer})
    BY <1>2 DEF PutsBack, taken, vars, streamVars, doingVars
  <2> QED BY <2>1, <2>2
<1>3. CASE InstallsFromPool
  <2>1. PICK b \in free : install(b, HeaderRoom)
    BY <1>3 DEF InstallsFromPool
  <2>2. did' = did \cup {"install"} /\ pc = "sink" /\ "install" \notin did
    BY <1>3 DEF InstallsFromPool, MustInstall
  <2> DEFINE installed == [is |-> "buffer", buffer |-> b, offset |-> HeaderRoom]
  <2>3. HeaderRoom <= Size[b] /\ Size[b] - HeaderRoom >= MIN_OUTPUT_BUFFER
    BY PoolFits
  <2>4. installed.buffer = b /\ installed.is = "buffer" /\ None.is = "none"
    BY DEF None
  <2> HIDE DEF installed
  <2>5. /\ next' = installed /\ free' = free \ {b}
        /\ UNCHANGED <<takes, pc, then, retired, buffer>>
    BY <2>1, <2>3 DEF install, installed, streamVars, doingVars
  <2>6. next'.buffer = b /\ next' # None
    BY <2>4, <2>5
  <2> QED BY <2>1, <2>2, <2>5, <2>6
<1>4. CASE CallbackReturns
  <2>1. next # None /\ retired = None /\ did' = {}
    BY <1>4 DEF CallbackReturns, SinkReturns
  <2>2. /\ retired' = [is |-> "buffer", buffer |-> buffer] /\ next' = None
        /\ buffer' = next.buffer /\ pc' # "sink" /\ UNCHANGED <<takes, free>>
    BY <1>4, <2>1 DEF CallbackReturns, SinkReturns, Returns
  <2>3. retired'.buffer = buffer /\ retired' # None
    BY <2>2 DEF None
  <2> QED BY <2>1, <2>2, <2>3
<1>5. CASE UNCHANGED did /\ (StoreByte \/ BufferFull \/ WritesField \/ BeginsSequence
                               \/ EndsSequence)
  <2>1. /\ pc # "sink" /\ pc' # "sink"
        /\ UNCHANGED <<takes, next, retired, buffer, free>>
    BY <1>5 DEF StoreByte, PartDone, BufferFull, WritesField, WriteField, BeginsSequence,
       write_sequence_begin_lazy, HoldsBack, FramesEagerly, EndsSequence, write_sequence_end,
       Vanishes, write_sequence_end_keep, Begins, streamVars, doingVars
  <2> QED BY <1>5, <2>1
<1>6. CASE UNCHANGED did /\ (DrainsWhenFull \/ flush)
  <2>1. pc # "sink" /\ UNCHANGED <<takes, next, retired, buffer, free>>
    BY <1>6 DEF DrainsWhenFull, flush, HandsOver, streamVars
  <2>2. then' \in {[is |-> "push"], [is |-> "flush"]}
    BY <1>6 DEF DrainsWhenFull, flush, HandsOver
  <2>3. [is |-> "push"].is = "push" /\ [is |-> "flush"].is = "flush"
    OBVIOUS
  <2>4. then'.is \in {"push", "flush"}
    <3>1. CASE then' = [is |-> "push"]
      BY <2>3, <3>1, Zenon
    <3>2. CASE then' = [is |-> "flush"]
      BY <2>3, <3>2, Zenon
    <3> QED BY <2>2, <3>1, <3>2
  <2> QED BY <1>6, <2>1, <2>4
<1> QED
  BY <1>1, <1>2, <1>3, <1>4, <1>5, <1>6 DEF RecyclingNext, RunsOn, Pushes

-----------------------------------------------------------------------------
(* Theorems *)

\* It always holds.
LEMMA RecyclingInvariance == RecyclingSpec => []RInv
BY RInit, RNext, RecyclingIInv, PTL DEF RecyclingSpec

\* Install, the swap inside drain, the retirement and taken pass every buffer on:
\* none is dropped, for any number of buffers and wherever the drains fall.
THEOREM BuffersAreNeverLost == RecyclingSpec => []NothingLost
<1>1. RInv => NothingLost
  BY DEF RInv
<1> QED BY <1>1, RecyclingInvariance, PTL

\* A sink that installs first, as the documentation shows it, needs two spares:
\* the buffer it gave up last is still in the channel when it looks for another.
THEOREM TwoSparesAreEnough ==
  ASSUME NEW one \in Buffers, NEW two \in Buffers, one # First, two # First, one # two
  PROVE  RecyclingSpec => []NeverStarves
<1>1. RInv => NeverStarves
  <2> SUFFICES ASSUME RInv, MustInstall PROVE free # {}
    BY DEF NeverStarves
  <2>1. next = None
    BY DEF RInv, Callback, MustInstall
  <2>2. Buffers = {buffer} \cup free \cup (IF retired = None THEN {} ELSE {retired.buffer})
    BY <2>1 DEF RInv, NothingLost
  <2> QED BY <2>2, StreamAssumption
<1> QED BY <1>1, RecyclingInvariance, PTL

\* A sink that takes back the retired buffer before it installs always finds a
\* buffer in its pool if there is any but the one the stream was built on.
THEOREM OneSpareIsEnough ==
  ASSUME TakesFirst, NEW spare \in Buffers, spare # First
  PROVE  RecyclingSpec => []NeverStarves
<1>1. RInv => NeverStarves
  <2> SUFFICES ASSUME RInv, MustInstall PROVE free # {}
    BY DEF NeverStarves
  <2>1. next = None /\ retired = None
    BY DEF RInv, Callback, MustInstall
  <2>2. Buffers = {buffer} \cup free
    BY <2>1 DEF RInv, NothingLost
  <2> QED BY <2>2, StreamAssumption
<1> QED BY <1>1, RecyclingInvariance, PTL

=============================================================================
