------------------------------ MODULE SeqSlots ------------------------------
(***************************************************************************)
(* The wrapper-array slots of seq.rs.  Generated code asks for the slot of *)
(* the element whose id has arrived; the bound is compared, the container  *)
(* grows one default at a time, and the slot is replaced, kept or cleared. *)
(*                                                                         *)
(* A call that grows is a call in progress (`doing`), one step for each    *)
(* push, since a container can be full in the middle.  Between the calls   *)
(* generated code fills the slot it was handed, part by part as they are   *)
(* decoded; it has recorded the index and fetches the slot anew each time. *)
(*                                                                         *)
(* A definition whose name ends in _but_... is the one that follows it     *)
(* with a mistake: the properties must tell the two apart.                 *)
(***************************************************************************)
EXTENDS Integers, Sequences

CONSTANTS
  IdMax, UsizeMax,  \* the largest id, the largest usize
  Capacities,       \* what the containers hold: N of a heapless::Vec, for a
                    \* Vec, which refuses nothing, as much as a usize counts
  Bounds, Parts, Values, Unset, Lens  \* see SparseArray

ASSUME SlotsAssumption ==
  /\ IdMax \in Nat /\ UsizeMax \in Nat /\ IdMax <= UsizeMax
  /\ Capacities \subseteq 0..UsizeMax /\ Lens \subseteq 0..UsizeMax
  /\ Bounds \subseteq [is : {"Schema", "Cap"}, n : 0..UsizeMax]
  /\ Unset \in Values

VARIABLES
  limit,   \* the capacity of this container
  slots,   \* the elements; the slot of index i is slots[i + 1]
  doing,   \* the reservation in progress, with the length it started from
  open,    \* the index generated code has recorded, -1 for none
  answer   \* the last request and what it was told

vars == <<limit, slots, doing, open, answer>>

Ids     == 0..IdMax
Elems   == [Parts -> Values]
Default == [part \in Parts |-> Unset]
Idle    == [is |-> "idle"]

Requests == [fn : {"reserve_elem", "reserve_row"}, id : Ids, bound : Bounds]
              \cup [fn : {"place_elem"}, id : Ids, bound : Bounds, value : Elems]
Lengths  == [fn : {"check_len"}, len : Lens, bound : Bounds]

Init ==
  /\ limit \in Capacities /\ slots = <<>> /\ doing = Idle
  /\ open = -1 /\ answer = [is |-> "none"]

Answers(ask, verdict) == answer' = [is |-> verdict, ask |-> ask]

check_index_but_inclusive(id, bound) ==
  IF bound.is = "Cap" /\ bound.n = 0 THEN "Argument"
  ELSE IF id <= bound.n THEN "Ok"
  ELSE IF bound.is = "Schema" THEN "InvalidMsg" ELSE "LimitExceeded"

check_index(id, bound) ==
  IF bound.is = "Cap" /\ bound.n = 0 THEN "Argument"
  ELSE IF id < bound.n THEN "Ok"
  ELSE IF bound.is = "Schema" THEN "InvalidMsg" ELSE "LimitExceeded"

check_len(len, bound) ==
  IF bound.is = "Cap" /\ bound.n = 0 THEN "Argument"
  ELSE IF len <= bound.n THEN "Ok"
  ELSE IF bound.is = "Schema" THEN "InvalidMsg" ELSE "LimitExceeded"

-----------------------------------------------------------------------------
(* reserve_elem, which place_elem and reserve_row start with *)

\* i + 1 in a usize.
LengthFor(id) == (id + 1) % (UsizeMax + 1)

\* grow_to refuses up front what the container cannot hold.
MayGrow_but_only_when_full(len) == len <= limit \/ Len(slots) < limit

MayGrow(len) == len <= limit

Reservable(id) == Len(slots) > id \/ MayGrow(LengthFor(id))

Rejected(ask) ==
  /\ doing = Idle /\ open = -1
  /\ check_index(ask.id, ask.bound) # "Ok"
  /\ Answers(ask, check_index(ask.id, ask.bound))
  /\ UNCHANGED <<limit, slots, doing, open>>

Full(ask) ==
  /\ doing = Idle /\ open = -1
  /\ check_index(ask.id, ask.bound) = "Ok" /\ ~Reservable(ask.id)
  /\ Answers(ask, "Argument")
  /\ UNCHANGED <<limit, slots, doing, open>>

Reserves(ask) ==
  /\ doing = Idle /\ open = -1
  /\ check_index(ask.id, ask.bound) = "Ok" /\ Reservable(ask.id)
  /\ doing' = [is |-> "reserve", ask |-> ask, from |-> Len(slots)]
  /\ UNCHANGED <<limit, slots, open, answer>>

GrowsTo == IF doing.from > doing.ask.id THEN doing.from ELSE LengthFor(doing.ask.id)

\* One turn of the push loop; a push that finds the container full fails the
\* call with what has been pushed left where it is.
Grows ==
  /\ doing # Idle /\ Len(slots) < GrowsTo
  /\ IF Len(slots) < limit
       THEN slots' = Append(slots, Default) /\ UNCHANGED <<doing, answer>>
       ELSE doing' = Idle /\ Answers(doing.ask, "Argument") /\ UNCHANGED slots
  /\ UNCHANGED <<limit, open>>

\* What is in the slot when the call returns: place_elem assigns it,
\* reserve_row empties it, reserve_elem hands it out as it is.
Landed_but_rows_merged(ask, old) == IF ask.fn = "place_elem" THEN ask.value ELSE old

Landed(ask, old) ==
  IF ask.fn = "place_elem" THEN ask.value
  ELSE IF ask.fn = "reserve_row" THEN Default ELSE old

Lands_but_container_cleared ==
  LET i == doing.ask.id
  IN /\ doing # Idle /\ Len(slots) >= GrowsTo
     /\ IF i < Len(slots)
          THEN /\ slots' = IF doing.ask.fn = "reserve_row" THEN <<>>
                           ELSE [slots EXCEPT ![i + 1] = Landed(doing.ask, @)]
               /\ open' = IF doing.ask.fn = "place_elem" THEN open ELSE i
               /\ Answers(doing.ask, "Ok")
          ELSE Answers(doing.ask, "Argument") /\ UNCHANGED <<slots, open>>
     /\ doing' = Idle /\ UNCHANGED limit

Lands ==
  LET i == doing.ask.id
  IN /\ doing # Idle /\ Len(slots) >= GrowsTo
     /\ IF i < Len(slots)
          THEN /\ slots' = [slots EXCEPT ![i + 1] = Landed(doing.ask, @)]
               /\ open' = IF doing.ask.fn = "place_elem" THEN open ELSE i
               /\ Answers(doing.ask, "Ok")
          ELSE Answers(doing.ask, "Argument") /\ UNCHANGED <<slots, open>>
     /\ doing' = Idle /\ UNCHANGED limit

-----------------------------------------------------------------------------
(* The other calls, and generated code between the calls *)

Judges ==
  /\ doing = Idle
  /\ \E ask \in Lengths : Answers(ask, check_len(ask.len, ask.bound))
  /\ UNCHANGED <<limit, slots, doing, open>>

\* slot_mut at the recorded index, for a part of the element.
Fills ==
  /\ doing = Idle /\ open # -1 /\ open < Len(slots)
  /\ \E part \in Parts, value \in Values : slots' = [slots EXCEPT ![open + 1][part] = value]
  /\ UNCHANGED <<limit, doing, open, answer>>

Closes ==
  /\ doing = Idle /\ open # -1 /\ open' = -1
  /\ UNCHANGED <<limit, slots, doing, answer>>

\* clear: the destination is used for another message.
Clears ==
  /\ doing = Idle /\ slots' = <<>> /\ open' = -1
  /\ UNCHANGED <<limit, doing, answer>>

Asks == \E ask \in Requests : Rejected(ask) \/ Full(ask) \/ Reserves(ask)

Next == Asks \/ Grows \/ Lands \/ Judges \/ Fills \/ Closes \/ Clears

Spec == Init /\ [][Next]_vars

-----------------------------------------------------------------------------
(* Properties *)

\* Every variable has its type, no container holds more than it can, and the
\* recorded index is that of a slot.
TypeOK ==
  /\ limit \in Capacities
  /\ slots \in Seq(Elems) /\ Len(slots) <= limit
  /\ \/ doing = Idle
     \/ doing \in [is : {"reserve"}, ask : Requests, from : 0..UsizeMax]
  /\ open \in -1..(Len(slots) - 1)
  /\ answer.is \in {"none", "Ok", "InvalidMsg", "LimitExceeded", "Argument"}

\* A reservation that has begun will end with its slot: its length is one past
\* its id and not the wrapped sum, no push after the first finds the container
\* full, and the slot is there when the loop is over.  So no call fails after
\* the container has changed.
NeverHalfGrown ==
  doing # Idle =>
    /\ Len(slots) < GrowsTo => Len(slots) < limit
    /\ Len(slots) >= GrowsTo => doing.ask.id < Len(slots)

Sparse == INSTANCE SparseArray WITH
  at     <- [i \in Ids |-> IF i < Len(slots) THEN slots[i + 1] ELSE Default],
  length <- IF doing = Idle THEN Len(slots) ELSE doing.from

\* The container is the array of SparseArray: every element at its own id
\* whatever was left out before it, the default in the gaps, a length one past
\* the highest id, last write wins except that a struct merges, and a request
\* that is refused extends nothing, so that a lower id still lands.
IsSparseArray == Sparse!Spec
=============================================================================
