-------------------------- MODULE MCDownloadQueue --------------------------
(***************************************************************************)
(* DownloadQueue for TLC.  Runs and requests are interchangeable, so they  *)
(* are symmetric model values in the runs that check safety alone.         *)
(***************************************************************************)
EXTENDS DownloadQueue, TLC

SlotRequestSymmetry == Permutations(Slots) \cup Permutations(Requests)
=============================================================================
