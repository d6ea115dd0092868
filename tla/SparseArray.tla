---------------------------- MODULE SparseArray ----------------------------
(***************************************************************************)
(* What a wrapper array is to the generated code that decodes into it: a   *)
(* value at every index, the default where nothing was ever put, and a     *)
(* length one past the highest index taken.  Nothing grows here, and a     *)
(* request that is refused changes nothing but the answer.                 *)
(***************************************************************************)
EXTENDS Integers

CONSTANTS
  IdMax,   \* the largest id
  Bounds,  \* the bounds requests carry, schema counts and receiver caps
  Parts,   \* what an element is made of: a struct's fields, a row's positions
  Values,  \* what a part can hold
  Unset,   \* what a part holds by default
  Lens     \* the lengths that are announced

VARIABLES
  limit,   \* how many elements the destination can hold
  at,      \* the value at each index
  length,  \* one past the highest index taken
  open,    \* the index whose parts are arriving, -1 when there is none
  answer   \* the last request and what it was told

vars == <<limit, at, length, open, answer>>

Ids     == 0..IdMax
Elems   == [Parts -> Values]
Default == [part \in Parts |-> Unset]

Requests == [fn : {"reserve_elem", "reserve_row"}, id : Ids, bound : Bounds]
              \cup [fn : {"place_elem"}, id : Ids, bound : Bounds, value : Elems]
Lengths  == [fn : {"check_len"}, len : Lens, bound : Bounds]

Init ==
  /\ limit \in Nat /\ at = [i \in Ids |-> Default] /\ length = 0
  /\ open = -1 /\ answer = [is |-> "none"]

Answers(ask, verdict) == answer' = [is |-> verdict, ask |-> ask]

\* What breaking a bound means depends on whose bound it is: the schema's makes
\* the message invalid, the receiver's is policy, and a cap of 0 is none at all.
Breach(bound) ==
  IF bound.is = "Schema" THEN "InvalidMsg"
  ELSE IF bound.n = 0 THEN "Argument" ELSE "LimitExceeded"

Within(ask) == ask.id < ask.bound.n

Takes(ask) ==
  /\ Within(ask) /\ ask.id < limit
  /\ length' = IF length > ask.id THEN length ELSE ask.id + 1
  /\ Answers(ask, "Ok")

\* A string or blob replaces what was there.
Places(ask) ==
  /\ ask.fn = "place_elem" /\ Takes(ask)
  /\ at' = [at EXCEPT ![ask.id] = ask.value] /\ UNCHANGED <<limit, open>>

\* A struct opened again keeps what it holds.
Opens(ask) ==
  /\ ask.fn = "reserve_elem" /\ Takes(ask)
  /\ open' = ask.id /\ UNCHANGED <<limit, at>>

\* A row opened again starts empty.
OpensRow(ask) ==
  /\ ask.fn = "reserve_row" /\ Takes(ask)
  /\ at' = [at EXCEPT ![ask.id] = Default] /\ open' = ask.id /\ UNCHANGED limit

\* Past the bound, or more than the destination holds.
Refuses(ask) ==
  /\ \/ ~Within(ask) /\ Answers(ask, Breach(ask.bound))
     \/ Within(ask) /\ ask.id >= limit /\ Answers(ask, "Argument")
  /\ UNCHANGED <<limit, at, length, open>>

Asks ==
  /\ open = -1
  /\ \E ask \in Requests : Places(ask) \/ Opens(ask) \/ OpensRow(ask) \/ Refuses(ask)

\* A length is judged where it is announced, before there is an element.
Judges ==
  /\ \E ask \in Lengths :
       Answers(ask, IF ask.len > ask.bound.n \/ ask.bound = [is |-> "Cap", n |-> 0]
                      THEN Breach(ask.bound) ELSE "Ok")
  /\ UNCHANGED <<limit, at, length, open>>

Fills ==
  /\ open # -1
  /\ \E part \in Parts, value \in Values : at' = [at EXCEPT ![open][part] = value]
  /\ UNCHANGED <<limit, length, open, answer>>

Closes == open # -1 /\ open' = -1 /\ UNCHANGED <<limit, at, length, answer>>

Clears ==
  /\ at' = [i \in Ids |-> Default] /\ length' = 0 /\ open' = -1
  /\ UNCHANGED <<limit, answer>>

Next == Asks \/ Judges \/ Fills \/ Closes \/ Clears

Spec == Init /\ [][Next]_vars
=============================================================================
