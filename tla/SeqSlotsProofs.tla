--------------------------- MODULE SeqSlotsProofs ---------------------------
(***************************************************************************)
(* Proofs about the wrapper-array slots, for every bound, capacity, kind   *)
(* of element and width of usize that SlotsAssumption allows.              *)
(***************************************************************************)
EXTENDS SeqSlots, TLAPS

\* What a reservation in progress has checked, and how far it can have come:
\* its id is within its bound, so the sum that gives its length does not wrap,
\* and that length is one the container can have.
Underway ==
  doing # Idle =>
    /\ open = -1
    /\ doing.ask.id < doing.ask.bound.n
    /\ doing.from > doing.ask.id \/ doing.ask.id + 1 <= limit
    /\ doing.from <= Len(slots) /\ Len(slots) <= GrowsTo

\* An index is recorded only when it was an id.
OpenIsAnId == open <= IdMax

IInv == TypeOK /\ Underway /\ OpenIsAnId

-----------------------------------------------------------------------------
(* Facts about one request *)

\* What generated code may ask for.
LEMMA RequestFacts ==
  ASSUME NEW ask \in Requests
  PROVE  /\ ask.id \in Nat /\ ask.id <= IdMax /\ ask.id <= UsizeMax
         /\ ask.bound \in Bounds /\ ask.bound.n \in Nat /\ ask.bound.n <= UsizeMax
         /\ ask.bound.is \in {"Schema", "Cap"}
         /\ ask.fn \in {"place_elem", "reserve_elem", "reserve_row"}
         /\ ask.fn = "place_elem" => ask.value \in Elems
BY SlotsAssumption DEF Requests, Ids

\* An id that passes its bound is below it, and below the largest usize.
LEMMA Accepted ==
  ASSUME NEW ask \in Requests
  PROVE  /\ check_index(ask.id, ask.bound) = "Ok" <=> ask.id < ask.bound.n
         /\ check_index(ask.id, ask.bound)
              \in {"Ok", "InvalidMsg", "LimitExceeded", "Argument"}
BY RequestFacts DEF check_index

\* The bound keeps i + 1 from wrapping.
LEMMA NoWrap ==
  ASSUME NEW ask \in Requests, ask.id < ask.bound.n
  PROVE  LengthFor(ask.id) = ask.id + 1
<1>1. ask.id + 1 \in Nat /\ ask.id + 1 < UsizeMax + 1 /\ UsizeMax \in Nat
  BY RequestFacts, SlotsAssumption
<1>2. ASSUME NEW x \in Nat, NEW m \in Nat \ {0}, x < m PROVE x % m = x
  BY <1>2
<1> QED
  BY <1>1, <1>2 DEF LengthFor

\* The default is an element.
LEMMA DefaultTyped == Default \in Elems
BY SlotsAssumption DEF Default, Elems

-----------------------------------------------------------------------------
(* The inductive invariant *)

\* An empty container is in the invariant.
LEMMA InitInv == Init => IInv
BY SlotsAssumption DEF Init, IInv, TypeOK, Underway, OpenIsAnId, Elems

\* The length a reservation grows to, once it is under way.
LEMMA Target ==
  ASSUME IInv, doing # Idle
  PROVE  /\ doing.ask \in Requests /\ doing.from \in Nat
         /\ GrowsTo = IF doing.from > doing.ask.id THEN doing.from ELSE doing.ask.id + 1
         /\ GrowsTo \in Nat /\ GrowsTo <= limit /\ limit \in Nat
         /\ slots \in Seq(Elems) /\ Len(slots) \in Nat
<1>1. /\ doing \in [is : {"reserve"}, ask : Requests, from : 0..UsizeMax]
      /\ slots \in Seq(Elems) /\ Len(slots) <= limit
      /\ limit \in Nat
  BY SlotsAssumption DEF IInv, TypeOK
<1>2. doing.ask \in Requests /\ doing.from \in Nat
  BY <1>1, SlotsAssumption
<1>3. LengthFor(doing.ask.id) = doing.ask.id + 1
  BY <1>2, NoWrap DEF IInv, Underway
<1> QED
  BY <1>1, <1>2, <1>3, RequestFacts DEF IInv, Underway, GrowsTo

\* The invariant leaves no reservation half grown.
LEMMA NeverHalf == IInv => NeverHalfGrown
<1> SUFFICES ASSUME IInv, doing # Idle
             PROVE  /\ Len(slots) < GrowsTo => Len(slots) < limit
                    /\ Len(slots) >= GrowsTo => doing.ask.id < Len(slots)
  BY DEF NeverHalfGrown
<1> QED
  BY Target, RequestFacts

\* A request keeps it, refused or taken up.
LEMMA AsksInv ==
  ASSUME IInv, NEW ask \in Requests, Rejected(ask) \/ Full(ask) \/ Reserves(ask)
  PROVE  IInv'
<1>1. CASE Rejected(ask)
  BY <1>1, Accepted DEF Rejected, Answers, IInv, TypeOK, Underway, OpenIsAnId
<1>2. CASE Full(ask)
  BY <1>2 DEF Full, Answers, IInv, TypeOK, Underway, OpenIsAnId
<1>3. CASE Reserves(ask)
  <2>1. /\ limit \in Nat /\ limit <= UsizeMax
        /\ slots \in Seq(Elems) /\ Len(slots) \in Nat /\ Len(slots) <= limit
    BY SlotsAssumption DEF IInv, TypeOK
  <2>2. /\ ask.id < ask.bound.n /\ LengthFor(ask.id) = ask.id + 1
        /\ ask.id \in Nat
    BY <1>3, Accepted, NoWrap, RequestFacts DEF Reserves
  <2>3. /\ doing' = [is |-> "reserve", ask |-> ask, from |-> Len(slots)]
        /\ UNCHANGED <<limit, slots, open, answer>> /\ open = -1
    BY <1>3 DEF Reserves
  <2>4. doing'.ask = ask /\ doing'.from = Len(slots)
    BY <2>3
  <2>5. Len(slots) > ask.id \/ ask.id + 1 <= limit
    BY <1>3, <2>2 DEF Reserves, Reservable, MayGrow
  <2>6. GrowsTo' = IF Len(slots) > ask.id THEN Len(slots) ELSE ask.id + 1
    BY <2>2, <2>4 DEF GrowsTo, LengthFor
  <2>7. TypeOK'
    <3>1. doing' \in [is : {"reserve"}, ask : Requests, from : 0..UsizeMax]
      BY <2>1, <2>3, SlotsAssumption
    <3> QED
      BY <2>3, <3>1 DEF IInv, TypeOK
  <2>8. Underway'
    BY <2>1, <2>2, <2>3, <2>4, <2>5, <2>6 DEF Underway
  <2> QED
    BY <2>3, <2>7, <2>8 DEF IInv, OpenIsAnId
<1> QED
  BY <1>1, <1>2, <1>3

\* Growing by a slot keeps it.
LEMMA GrowsInv == ASSUME IInv, Grows PROVE IInv'
<1>1. /\ slots' = Append(slots, Default)
      /\ UNCHANGED <<limit, doing, open, answer>>
      /\ Len(slots) < GrowsTo /\ doing # Idle
  BY Target DEF Grows
<1>2. /\ slots' \in Seq(Elems) /\ Len(slots') = Len(slots) + 1 /\ Len(slots) \in Nat
      /\ GrowsTo \in Nat /\ GrowsTo <= limit /\ limit \in Nat /\ doing.from \in Nat
  BY <1>1, Target, DefaultTyped
<1>3. GrowsTo' = GrowsTo
  BY <1>1 DEF GrowsTo, LengthFor
<1>4. TypeOK'
  BY <1>1, <1>2 DEF IInv, TypeOK
<1>5. Underway'
  BY <1>1, <1>2, <1>3 DEF IInv, Underway
<1> QED
  BY <1>1, <1>4, <1>5 DEF IInv, OpenIsAnId

\* What a slot becomes is an element.
LEMMA LandedTyped ==
  ASSUME NEW ask \in Requests, NEW old \in Elems
  PROVE  Landed(ask, old) \in Elems
BY RequestFacts, DefaultTyped DEF Landed

\* The last step of a reservation: the slot is there.
LEMMA LandsFacts ==
  ASSUME IInv, Lands
  PROVE  /\ doing # Idle /\ doing' = Idle /\ limit' = limit
         /\ doing.ask.id < Len(slots)
         /\ Len(slots') = Len(slots) /\ slots' \in Seq(Elems)
         /\ slots' = [slots EXCEPT ![doing.ask.id + 1] = Landed(doing.ask, @)]
         /\ open' = IF doing.ask.fn = "place_elem" THEN open ELSE doing.ask.id
         /\ Answers(doing.ask, "Ok")
<1>1. doing # Idle /\ Len(slots) >= GrowsTo
  BY DEF Lands
<1>2. doing.ask.id < Len(slots)
  BY <1>1, NeverHalf DEF NeverHalfGrown
<1>3. /\ slots' = [slots EXCEPT ![doing.ask.id + 1] = Landed(doing.ask, @)]
      /\ open' = IF doing.ask.fn = "place_elem" THEN open ELSE doing.ask.id
      /\ Answers(doing.ask, "Ok") /\ doing' = Idle /\ limit' = limit
  BY <1>2 DEF Lands
<1>4. /\ doing.ask \in Requests /\ slots \in Seq(Elems)
      /\ doing.ask.id + 1 \in 1..Len(slots)
  BY <1>1, <1>2, Target, RequestFacts
<1>5. Len(slots') = Len(slots) /\ slots' \in Seq(Elems)
  BY <1>3, <1>4, LandedTyped
<1> QED
  BY <1>1, <1>2, <1>3, <1>5

\* Landing in the slot keeps it.
LEMMA LandsInv == ASSUME IInv, Lands PROVE IInv'
<1>1. doing.ask \in Requests /\ Len(slots) \in Nat /\ open = -1
  BY Target, LandsFacts DEF IInv, Underway
<1>2. open' = -1 \/ open' = doing.ask.id
  BY <1>1, LandsFacts
<1>3. TypeOK'
  BY <1>1, <1>2, LandsFacts, RequestFacts DEF IInv, TypeOK, Answers
<1> QED
  BY <1>1, <1>2, <1>3, LandsFacts, RequestFacts, SlotsAssumption DEF IInv, Underway, OpenIsAnId

\* A part of the open element is replaced, and nothing else.
LEMMA FillsFacts ==
  ASSUME IInv, Fills
  PROVE  /\ open \in Ids /\ open + 1 \in 1..Len(slots)
         /\ UNCHANGED <<limit, doing, open, answer>> /\ doing = Idle
         /\ slots' \in Seq(Elems) /\ Len(slots') = Len(slots)
         /\ \E part \in Parts, value \in Values :
              slots' = [slots EXCEPT ![open + 1] = [@ EXCEPT ![part] = value]]
<1>1. /\ open \in Ids /\ open + 1 \in 1..Len(slots) /\ slots \in Seq(Elems)
  BY SlotsAssumption DEF Fills, IInv, TypeOK, OpenIsAnId, Ids
<1>2. PICK part \in Parts, value \in Values :
        slots' = [slots EXCEPT ![open + 1] = [@ EXCEPT ![part] = value]]
  BY DEF Fills
<1>3. slots[open + 1] \in Elems
  BY <1>1
<1>4. [slots[open + 1] EXCEPT ![part] = value] \in Elems
  BY <1>3 DEF Elems
<1>5. slots' \in Seq(Elems) /\ Len(slots') = Len(slots)
  BY <1>1, <1>2, <1>4
<1> QED
  BY <1>1, <1>2, <1>5 DEF Fills

\* Every step keeps it.
LEMMA NextInv == IInv /\ [Next]_vars => IInv'
<1> SUFFICES ASSUME IInv, [Next]_vars PROVE IInv'
  OBVIOUS
<1>1. CASE Asks
  BY <1>1, AsksInv DEF Asks
<1>2. CASE Grows
  BY <1>2, GrowsInv
<1>3. CASE Lands
  BY <1>3, LandsInv
<1>4. CASE Judges
  <2>1. \A len, bound : check_len(len, bound)
                          \in {"Ok", "InvalidMsg", "LimitExceeded", "Argument"}
    BY DEF check_len
  <2> QED
    BY <1>4, <2>1 DEF Judges, Answers, IInv, TypeOK, Underway, OpenIsAnId
<1>5. CASE Fills
  BY <1>5, FillsFacts DEF IInv, TypeOK, Underway, OpenIsAnId
<1>6. CASE Closes
  BY <1>6, SlotsAssumption DEF Closes, IInv, TypeOK, Underway, OpenIsAnId
<1>7. CASE Clears
  BY <1>7, SlotsAssumption DEF Clears, IInv, TypeOK, Underway, OpenIsAnId
<1>8. CASE UNCHANGED vars
  BY <1>8 DEF vars, IInv, TypeOK, Underway, OpenIsAnId, GrowsTo, LengthFor
<1> QED
  BY <1>1, <1>2, <1>3, <1>4, <1>5, <1>6, <1>7, <1>8 DEF Next

\* It always holds.
LEMMA Invariance == Spec => []IInv
BY InitInv, NextInv, PTL DEF Spec

-----------------------------------------------------------------------------
(* Theorems about the specification *)

\* Every variable keeps its type, and the recorded index is that of a slot.
THEOREM TypeCorrect == Spec => []TypeOK
<1>1. IInv => TypeOK
  BY DEF IInv
<1> QED
  BY <1>1, Invariance, PTL

\* A reservation that has begun ends with its slot: whatever the bound, the
\* capacity and the width of usize, no call of seq.rs fails half way.
THEOREM ReservationsComplete == Spec => []NeverHalfGrown
BY Invariance, NeverHalf, PTL

-----------------------------------------------------------------------------
(* The container implements SparseArray *)

\* The array and the length that the container stands for.
At     == [i \in Ids |-> IF i < Len(slots) THEN slots[i + 1] ELSE Default]
Length == IF doing = Idle THEN Len(slots) ELSE doing.from

\* Changing one slot changes the array at that index and nowhere else.
LEMMA AtOne ==
  ASSUME NEW i \in Ids, slots \in Seq(Elems), i < Len(slots), NEW value \in Elems,
         slots' = [slots EXCEPT ![i + 1] = value]
  PROVE  At' = [At EXCEPT ![i] = value]
<1>1. /\ i + 1 \in 1..Len(slots) /\ Len(slots') = Len(slots) /\ Len(slots) \in Nat
      /\ \A j \in 1..Len(slots) : slots'[j] = IF j = i + 1 THEN value ELSE slots[j]
  BY DEF Ids
<1>2. ASSUME NEW j \in Ids
      PROVE  (IF j < Len(slots') THEN slots'[j + 1] ELSE Default)
               = IF j = i THEN value ELSE IF j < Len(slots) THEN slots[j + 1] ELSE Default
  BY <1>1 DEF Ids
<1> QED
  BY <1>2 DEF At

\* A step that takes no part in the abstract array.
SparseStutter == UNCHANGED <<limit, At, Length, open, answer>>

\* Growing shows the sparse array nothing.
LEMMA GrowsStutters == ASSUME IInv, Grows PROVE SparseStutter
<1>1. /\ slots' = Append(slots, Default)
      /\ UNCHANGED <<limit, doing, open, answer>> /\ doing # Idle
      /\ slots \in Seq(Elems)
  BY Target DEF Grows
<1>2. \A i \in Ids : (IF i < Len(slots') THEN slots'[i + 1] ELSE Default)
                      = IF i < Len(slots) THEN slots[i + 1] ELSE Default
  BY <1>1 DEF Ids
<1> QED
  BY <1>1, <1>2 DEF SparseStutter, At, Length

\* Landing is the sparse array's taking of the request.
LEMMA LandsTakes ==
  ASSUME IInv, Lands
  PROVE  \E ask \in Requests :
           Sparse!Places(ask) \/ Sparse!Opens(ask) \/ Sparse!OpensRow(ask)
<1>0. PICK ask \in Requests : ask = doing.ask
  BY LandsFacts, Target
<1> DEFINE i == ask.id
<1>1. /\ slots \in Seq(Elems) /\ i < Len(slots)
      /\ doing' = Idle /\ doing # Idle /\ limit' = limit
      /\ Answers(ask, "Ok") /\ Len(slots') = Len(slots)
  BY <1>0, LandsFacts, Target
<1>2. i \in Ids /\ i + 1 \in 1..Len(slots) /\ slots[i + 1] \in Elems
  BY <1>1, RequestFacts DEF Ids
<1>3. slots' = [slots EXCEPT ![i + 1] = Landed(ask, slots[i + 1])]
  BY <1>0, <1>1, <1>2, LandsFacts
<1>4. At' = [At EXCEPT ![i] = Landed(ask, slots[i + 1])]
  BY <1>1, <1>2, <1>3, LandedTyped, AtOne
<1>5. i < ask.bound.n /\ i < limit
  BY <1>0, <1>1, RequestFacts, SlotsAssumption DEF IInv, TypeOK, Underway
<1>6. Length' = IF Length > i THEN Length ELSE i + 1
  <2>1. Length' = Len(slots) /\ Length = doing.from
    BY <1>1 DEF Length
  <2>2. Len(slots) = IF doing.from > i THEN doing.from ELSE i + 1
    <3>1. /\ Len(slots) >= GrowsTo /\ Len(slots) <= GrowsTo
          /\ GrowsTo = IF doing.from > i THEN doing.from ELSE i + 1
          /\ GrowsTo \in Nat /\ Len(slots) \in Nat
      BY <1>0, <1>1, Target DEF Lands, IInv, Underway
    <3> QED BY <3>1
  <2> QED BY <2>1, <2>2
<1>7. At[i] = slots[i + 1] /\ At = [At EXCEPT ![i] = At[i]]
  BY <1>1, <1>2 DEF At
<1>8. open' = IF ask.fn = "place_elem" THEN open ELSE i
  BY <1>0, LandsFacts
<1>9. Sparse!Takes(ask)
  BY <1>1, <1>5, <1>6 DEF Sparse!Takes, Sparse!Within, Sparse!Answers, Answers, Length
<1>10. CASE ask.fn = "place_elem"
  <2>1. Sparse!Places(ask)
    BY <1>1, <1>4, <1>8, <1>9, <1>10 DEF Sparse!Places, Landed, At
  <2> QED BY <1>1, <2>1
<1>11. CASE ask.fn = "reserve_elem"
  <2>1. Sparse!Opens(ask)
    BY <1>1, <1>4, <1>7, <1>8, <1>9, <1>11 DEF Sparse!Opens, Landed, At
  <2> QED BY <1>1, <2>1
<1>12. CASE ask.fn = "reserve_row"
  <2>1. Sparse!OpensRow(ask)
    BY <1>1, <1>4, <1>8, <1>9, <1>12
       DEF Sparse!OpensRow, Landed, At, Default, Sparse!Default
  <2> QED BY <1>1, <2>1
<1> QED
  BY <1>1, <1>10, <1>11, <1>12, RequestFacts

\* A refusal is the sparse array's; taking a request up shows it nothing.
LEMMA AsksRefine ==
  ASSUME IInv, NEW ask \in Requests, Rejected(ask) \/ Full(ask) \/ Reserves(ask)
  PROVE  Sparse!Refuses(ask) \/ SparseStutter
<1>1. /\ doing = Idle /\ slots' = slots /\ limit' = limit /\ open' = open
      /\ ask.id \in Nat /\ ask.bound.n \in Nat /\ ask.bound.is \in {"Schema", "Cap"}
      /\ limit \in Nat /\ Len(slots) \in Nat /\ Len(slots) <= limit
  BY RequestFacts, SlotsAssumption DEF Rejected, Full, Reserves, IInv, TypeOK
<1>2. At' = At
  BY <1>1 DEF At
<1>3. CASE Rejected(ask)
  <2>1. Length' = Length
    BY <1>1, <1>3 DEF Rejected, Length
  <2>2. ~Sparse!Within(ask) /\ Answers(ask, Sparse!Breach(ask.bound))
    BY <1>1, <1>3 DEF Rejected, check_index, Sparse!Within, Sparse!Breach
  <2> QED
    BY <1>1, <1>2, <2>1, <2>2 DEF Sparse!Refuses, Sparse!Answers, Answers, At, Length
<1>4. CASE Full(ask)
  <2>1. Length' = Length
    BY <1>1, <1>4 DEF Full, Length
  <2>2. Sparse!Within(ask) /\ Answers(ask, "Argument")
    BY <1>1, <1>4, Accepted DEF Full, Sparse!Within
  <2>3. LengthFor(ask.id) = ask.id + 1
    BY <2>2, NoWrap DEF Sparse!Within
  <2>4. ask.id >= limit
    BY <1>1, <1>4, <2>3 DEF Full, Reservable, MayGrow
  <2> QED
    BY <1>1, <1>2, <2>1, <2>2, <2>4 DEF Sparse!Refuses, Sparse!Answers, Answers, At, Length
<1>5. CASE Reserves(ask)
  <2>1. doing' = [is |-> "reserve", ask |-> ask, from |-> Len(slots)] /\ answer' = answer
    BY <1>5 DEF Reserves
  <2>2. doing' # Idle /\ doing'.from = Len(slots)
    BY <2>1 DEF Idle
  <2> QED
    BY <1>1, <1>2, <2>1, <2>2 DEF SparseStutter, Length
<1> QED
  BY <1>3, <1>4, <1>5

\* Filling a row is the sparse array's filling of it.
LEMMA FillsRefine == ASSUME IInv, Fills PROVE Sparse!Fills
<1>1. PICK part \in Parts, value \in Values :
        slots' = [slots EXCEPT ![open + 1] = [@ EXCEPT ![part] = value]]
  BY FillsFacts
<1>2. /\ open \in Ids /\ open + 1 \in 1..Len(slots) /\ slots \in Seq(Elems)
      /\ UNCHANGED <<limit, doing, open, answer>> /\ doing = Idle
      /\ Len(slots') = Len(slots)
  BY FillsFacts, SlotsAssumption DEF IInv, TypeOK
<1>3. slots[open + 1] \in Elems /\ [slots[open + 1] EXCEPT ![part] = value] \in Elems
  <2>1. slots[open + 1] \in Elems
    BY <1>2
  <2> QED BY <2>1 DEF Elems
<1>4. PICK i \in Ids : i = open
  BY <1>2
<1>5. /\ i < Len(slots)
      /\ slots' = [slots EXCEPT ![i + 1] = [slots[i + 1] EXCEPT ![part] = value]]
  BY <1>1, <1>2, <1>4 DEF Ids
<1>6. At' = [At EXCEPT ![i] = [slots[i + 1] EXCEPT ![part] = value]]
  BY <1>2, <1>3, <1>4, <1>5, AtOne
<1>7. At[i] = slots[i + 1]
  BY <1>4, <1>5 DEF At
<1>8. At' = [At EXCEPT ![open] = [At[open] EXCEPT ![part] = value]]
  BY <1>4, <1>6, <1>7
<1>9. Length' = Length /\ open # -1
  BY <1>2 DEF Length, Fills
<1> QED
  BY <1>2, <1>8, <1>9 DEF Sparse!Fills, At, Length

\* Both start empty.
LEMMA InitRefines == Init => Sparse!Init
BY SlotsAssumption
   DEF Init, Sparse!Init, Ids, Sparse!Ids, Default, Sparse!Default, Idle

\* Every step of the container is one of the sparse array, or none.
LEMMA StepRefines ==
  ASSUME IInv, [Next]_vars
  PROVE  Sparse!Next \/ SparseStutter
<1>1. CASE Asks
  <2>1. PICK ask \in Requests : Rejected(ask) \/ Full(ask) \/ Reserves(ask)
    BY <1>1 DEF Asks
  <2>2. ask \in Sparse!Requests
    BY DEF Requests, Sparse!Requests, Ids, Sparse!Ids, Elems, Sparse!Elems
  <2>3. open = -1
    BY <2>1 DEF Rejected, Full, Reserves
  <2> QED
    BY <2>1, <2>2, <2>3, AsksRefine DEF Sparse!Next, Sparse!Asks
<1>2. CASE Grows
  BY <1>2, GrowsStutters
<1>3. CASE Lands
  <2>1. PICK ask \in Requests :
          Sparse!Places(ask) \/ Sparse!Opens(ask) \/ Sparse!OpensRow(ask)
    BY <1>3, LandsTakes
  <2>2. ask \in Sparse!Requests
    BY DEF Requests, Sparse!Requests, Ids, Sparse!Ids, Elems, Sparse!Elems
  <2>3. open = -1
    BY <1>3, LandsFacts DEF IInv, Underway
  <2> QED
    BY <2>1, <2>2, <2>3 DEF Sparse!Next, Sparse!Asks
<1>4. CASE Judges
  <2>1. PICK ask \in Lengths : Answers(ask, check_len(ask.len, ask.bound))
    BY <1>4 DEF Judges
  <2>2. /\ UNCHANGED <<limit, slots, doing, open>>
        /\ ask.len \in Nat /\ ask.bound \in [is : {"Schema", "Cap"}, n : 0..UsizeMax]
        /\ ask \in Sparse!Lengths
    <3>1. ask.len \in Lens /\ ask.bound \in Bounds /\ ask \in Sparse!Lengths
      BY DEF Lengths, Sparse!Lengths
    <3>2. /\ \A len \in Lens : len \in Nat
          /\ \A bound \in Bounds : bound \in [is : {"Schema", "Cap"}, n : 0..UsizeMax]
      BY SlotsAssumption
    <3>3. ask.len \in Nat /\ ask.bound \in [is : {"Schema", "Cap"}, n : 0..UsizeMax]
      BY <3>1, <3>2
    <3>4. UNCHANGED <<limit, slots, doing, open>>
      BY <1>4 DEF Judges
    <3> QED
      BY <3>1, <3>2, <3>3, <3>4
  <2>3. ask.bound = [is |-> "Cap", n |-> 0] <=> ask.bound.is = "Cap" /\ ask.bound.n = 0
    BY <2>2, SlotsAssumption
  <2>4. check_len(ask.len, ask.bound)
          = IF ask.len > ask.bound.n \/ ask.bound = [is |-> "Cap", n |-> 0]
              THEN Sparse!Breach(ask.bound) ELSE "Ok"
    BY <2>2, <2>3, SlotsAssumption DEF check_len, Sparse!Breach
  <2>5. At' = At /\ Length' = Length
    BY <2>2 DEF At, Length
  <2> QED
    BY <2>1, <2>2, <2>4, <2>5
       DEF Sparse!Next, Sparse!Judges, Sparse!Answers, Answers, At, Length
<1>5. CASE Fills
  BY <1>5, FillsRefine DEF Sparse!Next
<1>6. CASE Closes
  <2>1. At' = At /\ Length' = Length
    BY <1>6 DEF Closes, At, Length
  <2> QED
    BY <1>6, <2>1 DEF Closes, Sparse!Next, Sparse!Closes, At, Length
<1>7. CASE Clears
  <2>1. /\ At' = [i \in Sparse!Ids |-> Sparse!Default] /\ Length' = 0
        /\ open' = -1 /\ UNCHANGED <<limit, answer>>
    BY <1>7 DEF Clears, At, Length, Ids, Sparse!Ids, Default, Sparse!Default
  <2> QED
    BY <2>1 DEF Sparse!Next, Sparse!Clears, At, Length
<1>8. CASE UNCHANGED vars
  BY <1>8 DEF vars, SparseStutter, At, Length
<1> QED
  BY <1>1, <1>2, <1>3, <1>4, <1>5, <1>6, <1>7, <1>8 DEF Next

\* The container implements the sparse array, step for step: pushes of a call
\* in progress change nothing anyone can see, the call's last step takes its
\* index, and a refused request only answers.
THEOREM ContainerIsSparseArray == Spec => IsSparseArray
<1>1. ASSUME IInv, [Next]_vars PROVE [Sparse!Next]_(Sparse!vars)
  BY <1>1, StepRefines DEF SparseStutter, Sparse!vars, At, Length
<1> QED
  BY <1>1, InitRefines, Invariance, PTL DEF Spec, IsSparseArray, Sparse!Spec
=============================================================================
