----------------------------- MODULE MCFetcher -----------------------------
(***************************************************************************)
(* Fetcher for TLC: lengths up to three show a transfer that is resumed    *)
(* twice, three calls a resumption of a resumption.                        *)
(***************************************************************************)
EXTENDS Fetcher
=============================================================================
