----------------------------- MODULE MCSeqSlots -----------------------------
(***************************************************************************)
(* A small wrapper array: ids up to the largest usize, containers that     *)
(* hold nothing, two elements or whatever fits a usize, schema counts and  *)
(* receiver caps from 0 to the largest.                                    *)
(***************************************************************************)
EXTENDS SeqSlots

Bound(is, n) == [is |-> is, n |-> n]

AllBounds == {Bound("Schema", n) : n \in {0, 1, UsizeMax}}
               \cup {Bound("Cap", n) : n \in {0, UsizeMax}}
=============================================================================
