---------------------------- MODULE MCRoundTrip ----------------------------
(***************************************************************************)
(* Small instances of the round trip: a sink that copies, one buffer, and  *)
(* a field of every writer with the values at its edges.                   *)
(***************************************************************************)
EXTENDS RoundTrip

AllFeatures == {"fixlen", "fp64", "array", "sequence"}
OneBuffer   == {"a"}
TwoBytes    == [x \in {"a"} |-> 2]
FiftyBytes  == [x \in {"a"} |-> 50]

Field(id, writer, data) == [id |-> id, writer |-> writer, data |-> data]

\* The least, the greatest and the in-between values of ValueBits = 8, with
\* ids whose headers take one byte and two.
EveryWriter ==
  {Field(0, "write_unsigned", v) : v \in {0, 7, 8, 255}} \cup
  {Field(1, "write_signed", v) : v \in {-128, -1, 127}} \cup
  {Field(0, "write_fp32", bits) : bits \in {1, 205}} \cup
  {Field(ID_MAX, "write_fp64", 4101), Field(ID_MAX + 1, "write_unsigned", 0)} \cup
  {[id |-> 1, writer |-> "write_fixlen", data |-> <<9>>, subtype |-> "Blob"],
   [id |-> 0, writer |-> "write_fixlen", data |-> <<3, 14>>, subtype |-> "Fp32"]} \cup
  {Field(0, "write_str", <<>>), Field(0, "write_blob", <<6, 7, 15>>)} \cup
  {Field(0, "write_array_unsigned", d) : d \in {<<>>, <<255, 0>>}} \cup
  {Field(1, "write_array_signed", <<-128, 127, 0>>)} \cup
  {Field(0, "write_array_fp32", d) : d \in {<<>>, <<200, 7>>}} \cup
  {Field(0, "write_array_fp64", d) : d \in {<<>>, <<4101>>}}

\* A blob as long as the length word's three subtype bits leave no room for.
LongBlob == {Field(0, "write_blob", [i \in 1..32 |-> 1])}
=============================================================================
