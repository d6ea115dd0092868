----------------------------- MODULE MCLoopback -----------------------------
(***************************************************************************)
(* The fields of MCRoundTrip, received as they are sent.                   *)
(***************************************************************************)
EXTENDS Loopback, MCRoundTrip
=============================================================================
