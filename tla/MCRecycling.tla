---------------------------- MODULE MCRecycling ----------------------------
(***************************************************************************)
(* Small instances of the recycling sink: one buffer active, one spare.    *)
(***************************************************************************)
EXTENDS Recycling

AllFeatures == {"fixlen", "fp64", "array", "sequence"}
TwoBuffers  == {"a", "b"}
TwoSizes    == [x \in TwoBuffers |-> IF x = "a" THEN 2 ELSE 3]

Short == {[id |-> 0, writer |-> "write_unsigned", data |-> 9]}
=============================================================================
