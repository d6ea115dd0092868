----------------------------- MODULE Recycling -----------------------------
(***************************************************************************)
(* A sink that takes every buffer it is handed and keeps a pool, the way   *)
(* the documentation of Handover shows it: in every callback it installs a *)
(* buffer from the pool and puts back in it the one it took before.        *)
(***************************************************************************)
EXTENDS OStream

CONSTANTS
  TakesFirst,  \* whether it takes back before it installs
  HeaderRoom   \* the offset of every installation

ASSUME RecyclingAssumption ==
  /\ TakesFirst \in BOOLEAN /\ HeaderRoom \in Offsets
  /\ Constructors = {"with_handover"}
  /\ \A b \in Buffers : HeaderRoom < Size[b]  \* each of them can be installed

VARIABLE did  \* what the callback has done so far

recyclingVars == <<vars, did>>

RecyclingInit == Init /\ offset = HeaderRoom /\ did = {}

PutsBack ==
  /\ pc = "sink" /\ "put back" \notin did /\ (TakesFirst \/ "install" \in did)
  /\ did' = did \cup {"put back"}
  /\ taken \/ (retired = None /\ UNCHANGED vars)

MustInstall == pc = "sink" /\ "install" \notin did /\ (TakesFirst => "put back" \in did)

InstallsFromPool ==
  /\ MustInstall /\ did' = did \cup {"install"}
  /\ \E b \in free : install(b, HeaderRoom)

CallbackReturns ==
  /\ did = {"install", "put back"} /\ did' = {}
  /\ SinkReturns

\* What goes on by itself once a call is in progress.
RunsOn == PutsBack \/ InstallsFromPool \/ CallbackReturns \/ (UNCHANGED did /\ Pushes)

RecyclingNext ==
  RunsOn \/ (UNCHANGED did /\ (WritesField \/ BeginsSequence \/ EndsSequence \/ flush))

RecyclingSpec == RecyclingInit /\ [][RecyclingNext]_recyclingVars

\* push_byte, drain and this callback wait for nothing.
FairRecyclingSpec == RecyclingSpec /\ WF_recyclingVars(RunsOn)

\* The pool holds a buffer whenever the sink needs one to install.
NeverStarves == MustInstall => free # {}

\* Every buffer is where it can be found: active, installed, given up and
\* waiting to be taken back, or in the pool.
NothingLost ==
  Buffers = {buffer} \cup free \cup (IF next = None THEN {} ELSE {next.buffer})
                     \cup (IF retired = None THEN {} ELSE {retired.buffer})

\* Every write and flush returns, however small the buffers in the pool: each
\* drain calls the sink once and makes room, and no drain leads to another
\* before a byte has been stored.
CallsReturn == (pc # "idle") ~> (pc = "idle")
=============================================================================
