--------------------------- MODULE MCEventStream ---------------------------
(***************************************************************************)
(* EventStream for TLC.  Clients do not meet, so one of them is enough.    *)
(***************************************************************************)
EXTENDS EventStream, TLC

RequestSymmetry == Permutations(Requests)
=============================================================================
