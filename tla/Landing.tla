------------------------------ MODULE Landing ------------------------------
(***************************************************************************)
(* What fetchFile (downloads/fetcher.ts) promises to those who look at the *)
(* library and to its caller: the file is under its final name whole or    *)
(* not at all, apart from one that was there before, and a call that       *)
(* returns leaves it there.  A host whose answers do not suit the requests *)
(* takes the first part of the promise away.  DownloadQueue uses the       *)
(* fetcher in this form, with a host that does not.                        *)
(***************************************************************************)
VARIABLES
    file,   \* what is under the final name: "none", "foreign", "whole" or "broken"
    call,   \* "off", "on" while fetchFile runs, "done" once it returned
    misled  \* the host has once answered what does not suit the request

vars == <<file, call, misled>>

Init == file \in {"none", "foreign"} /\ call = "off" /\ misled = FALSE

Start == call # "on" /\ call' = "on" /\ UNCHANGED <<file, misled>>

\* Taken as it is.
Skip == call = "on" /\ file # "none" /\ call' = "done" /\ UNCHANGED <<file, misled>>

\* Not trusted, and removed.
Discard == call = "on" /\ file' = "none" /\ UNCHANGED <<call, misled>>

\* The rename of the finished .part file.
Land ==
    /\ call = "on" /\ file = "none" /\ call' = "done"
    /\ file' = "whole" \/ (misled /\ file' \in {"none", "foreign", "broken"})
    /\ UNCHANGED misled

\* An answer to the call that does not suit its request.
Mislead == call = "on" /\ misled' = TRUE /\ UNCHANGED <<file, call>>

\* An error, an abort, or the end of the process.
Fail == call' = "off" /\ UNCHANGED <<file, misled>>

Next == Start \/ Skip \/ Discard \/ Land \/ Mislead \/ Fail

Spec == Init /\ [][Next]_vars
=============================================================================
