----------------------------- MODULE MCRecovery -----------------------------
(***************************************************************************)
(* Small instances of the recovery: buffers of two, one and twelve bytes,  *)
(* so that the first fills up and the next may again, and an offset that   *)
(* leaves the second no room at all.                                       *)
(***************************************************************************)
EXTENDS Recovery

AllFeatures  == {"fixlen", "fp64", "array", "sequence"}
ThreeBuffers == {"a", "b", "c"}
ThreeSizes   == [x \in ThreeBuffers |-> CASE x = "a" -> 2 [] x = "b" -> 1 [] x = "c" -> 12]

Short == {[id |-> 0, writer |-> "write_unsigned", data |-> 9]}
=============================================================================
