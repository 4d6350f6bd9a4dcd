------------------------------ MODULE Fetcher ------------------------------
(***************************************************************************)
(* fetchFile (downloads/fetcher.ts): one remote file, one destination, any *)
(* number of calls one after the other, each of which may fail, be aborted *)
(* or die with the process at any point and leave its .part behind.        *)
(*                                                                         *)
(* A file is its length and whether its bytes are the first ones of the    *)
(* remote file.  Bytes are counted when they pass the counter and written  *)
(* later.  The remote file does not change, and one call at a time works   *)
(* on a destination (one job at a time, the default).                      *)
(*                                                                         *)
(* The host may answer a range that exists with 416, and send another one  *)
(* than it was asked for: fetchFile checks neither.  The bytes it sends    *)
(* are those of the remote file, and the lengths it states are true of     *)
(* what it sends.                                                          *)
(***************************************************************************)
EXTENDS Naturals

CONSTANTS
    MaxSize,       \* bound: length of the remote file
    MaxCalls,      \* bound: how often fetchFile is called
    LengthStated   \* every answer has a Content-Length or a Content-Range

ASSUME SizeAssumption == MaxSize \in Nat \ {0} /\ MaxCalls \in Nat
ASSUME StatedAssumption == LengthStated \in BOOLEAN

VARIABLES
    size, foreign,   \* the remote file; what was under the final name at first
    dest, part,      \* the two files on disk
    pc, expected,    \* where the call is, and its argument expectedSize
    from, base,      \* resumeFrom; where in the remote file the body starts
    written, total,  \* the locals of those names
    bytes, calls,
    misled           \* history: an answer did not suit the request

outside == <<size, foreign>>
disk == <<dest, part>>
offsets == <<from, base, written, total>>
vars == <<outside, disk, pc, expected, offsets, bytes, calls, misled>>

Unknown == 0                              \* a length that is not known
Absent == [len |-> 0, of |-> "remote"]    \* as fileSize sees it: no file, or an empty one
Whole == [len |-> size, of |-> "remote"]
FileRecord == [len : Nat, of : {"remote", "other"}]

Quiet == {"idle", "done"}
Pc == Quiet \cup {"look", "measure", "request", "refused", "failed", "ignored",
                  "open", "body", "land"}

\* The final name may hold a file from elsewhere.
Init ==
    /\ size \in 1..MaxSize
    /\ foreign \in {Absent} \cup [len : 1..MaxSize, of : {"other"}]
    /\ dest = foreign /\ part = Absent
    /\ pc = "idle" /\ expected = Unknown
    /\ from = 0 /\ base = 0 /\ written = 0 /\ total = Unknown
    /\ bytes = 0 /\ calls = 0 /\ misled = FALSE

-----------------------------------------------------------------------------
\* probeSize found the size, or did not.
Call ==
    /\ pc \in Quiet /\ calls < MaxCalls
    /\ calls' = calls + 1
    /\ pc' = "look"
    /\ expected' \in {size, Unknown}
    /\ UNCHANGED <<outside, disk, offsets, bytes, misled>>

Return(n) == pc' = "done" /\ bytes' = n

\* Mutant: whatever is there is taken.
TrustedAny(n) == TRUE

Trusted(n) == expected = Unknown \/ n = expected

\* The first fileSize, and the removal of a file of the wrong size.
Look ==
    /\ pc = "look"
    /\ \/ dest.len > 0 /\ Trusted(dest.len) /\ Return(dest.len) /\ UNCHANGED dest
       \/ dest.len > 0 /\ ~Trusted(dest.len) /\ dest' = Absent /\ pc' = "measure" /\ UNCHANGED bytes
       \/ dest.len = 0 /\ pc' = "measure" /\ UNCHANGED <<dest, bytes>>
    /\ UNCHANGED <<outside, part, expected, offsets, calls, misled>>

Measure ==
    /\ pc = "measure"
    /\ from' = part.len
    /\ pc' = "request"
    /\ UNCHANGED <<outside, disk, expected, base, written, total, bytes, calls, misled>>

\* What the host answers to a request with "Range: bytes=from-", or without one:
\* 416, 200 from the start, 206 from somewhere, or an error status.
Answer ==
    /\ pc = "request"
    /\ \/ pc' = "refused" /\ misled' = (misled \/ from < size) /\ UNCHANGED base
       \/ pc' = (IF from > 0 THEN "ignored" ELSE "open") /\ base' = 0 /\ UNCHANGED misled
       \/ \E b \in 0..(size - 1) : pc' = "open" /\ base' = b /\ misled' = (misled \/ b # from)
       \/ pc' = "failed" /\ UNCHANGED <<base, misled>>
    /\ UNCHANGED <<outside, disk, expected, from, written, total, bytes, calls>>

\* The body of a 416 has ended: the .part is taken to be the whole and renamed.  If
\* there is none, that throws.
Refused ==
    /\ pc = "refused"
    /\ \/ dest' = part /\ part' = Absent /\ Return(from)
       \/ part.len = 0 /\ pc' = "idle" /\ UNCHANGED <<disk, bytes>>
    /\ UNCHANGED <<outside, expected, offsets, calls, misled>>

\* The body of an error answer has ended.
Failed ==
    /\ pc = "failed"
    /\ pc' = "idle"
    /\ UNCHANGED <<outside, disk, expected, offsets, bytes, calls, misled>>

\* Mutant: the offset is kept.
RestartFromKept == from

RestartFrom == 0

\* The host sends from the start.
Ignored ==
    /\ pc = "ignored"
    /\ part' = Absent
    /\ from' = RestartFrom
    /\ pc' = "open"
    /\ UNCHANGED <<outside, dest, expected, base, written, total, bytes, calls, misled>>

\* Mutant: the .part is always written anew.
AppendsNever == FALSE

Appends == from > 0

\* totalFromHeaders: the length of the file in Content-Range, or else that of the
\* body, counted from the offset.
Totals == {size, from + (size - base)} \cup (IF LengthStated THEN {} ELSE {Unknown})

Open ==
    /\ pc = "open"
    /\ total' \in Totals
    /\ part' = IF Appends THEN part ELSE Absent
    /\ written' = from
    /\ pc' = "body"
    /\ UNCHANGED <<outside, dest, expected, from, base, bytes, calls, misled>>

\* A chunk passes the counter.
Chunk ==
    /\ pc = "body"
    /\ base + (written - from) < size
    /\ written' = written + 1
    /\ UNCHANGED <<outside, disk, pc, expected, from, base, total, bytes, calls, misled>>

\* It is written at the end of the .part file.
Flush ==
    /\ pc = "body"
    /\ part.len < written
    /\ part' = [len |-> part.len + 1, of |-> IF base = from THEN part.of ELSE "other"]
    /\ UNCHANGED <<outside, dest, pc, expected, offsets, bytes, calls, misled>>

\* Mutant: one byte may be missing.
CutShortByTwo == total # Unknown /\ written + 1 < total

CutShort == total # Unknown /\ written < total

\* Mutant: a short transfer is continued at once, without end.
AfterCutShortAgain == "measure"

AfterCutShort == "idle"

\* The body ended without an error, perhaps too early, and all is written.
End ==
    /\ pc = "body"
    /\ part.len = written
    /\ pc' = IF CutShort THEN AfterCutShort ELSE "land"
    /\ UNCHANGED <<outside, disk, expected, offsets, bytes, calls, misled>>

Land ==
    /\ pc = "land"
    /\ dest' = part /\ part' = Absent
    /\ Return(written)
    /\ UNCHANGED <<outside, expected, offsets, calls, misled>>

\* An error, an abort, the stall timer, or the end of the process.
Break ==
    /\ pc \notin Quiet
    /\ pc' = "idle"
    /\ UNCHANGED <<outside, disk, expected, offsets, bytes, calls, misled>>

Local == Look \/ Measure \/ Ignored \/ Open \/ Land
Dumped == Refused \/ Failed
Body == Chunk \/ Flush \/ End \/ (pc = "body" /\ Break)

Next == Call \/ Local \/ Answer \/ Dumped \/ Body \/ Break

Spec == Init /\ [][Next]_vars

\* Local calls return, the headers come within headersTimeout or the request
\* fails, and the stall timer ends a body that goes quiet.
TimerFairness == WF_vars(Local) /\ WF_vars(Answer \/ (pc = "request" /\ Break)) /\ WF_vars(Body)

\* The bodies of error answers are under no timer: the host must end them.
HostFairness == WF_vars(Dumped)

FairSpec == Spec /\ TimerFairness /\ HostFairness

-----------------------------------------------------------------------------
TypeOK ==
    /\ size \in 1..MaxSize
    /\ foreign \in {Absent} \cup [len : 1..MaxSize, of : {"other"}]
    /\ dest \in FileRecord /\ part \in FileRecord
    /\ pc \in Pc
    /\ expected \in 0..MaxSize
    /\ from \in Nat /\ base \in 0..MaxSize /\ written \in Nat
    /\ total \in Nat /\ bytes \in Nat /\ calls \in 0..MaxCalls
    /\ misled \in BOOLEAN
    /\ misled \/ {dest.len, part.len, from, written, total, bytes} \subseteq 0..MaxSize

\* "A partial file is never visible to Jellyfin's scanner": under the final name
\* there is nothing, the whole remote file, or what was there before, unless the
\* host once answered what does not suit the request.
NeverPartial == dest \in {Absent, Whole, foreign} \/ misled

\* A call that returns tells the size of the file that is in place; and, unless the
\* host once misled it, there is one, of the size that was known beforehand.
ResultIsFile ==
    pc = "done" =>
      /\ bytes = dest.len
      /\ misled \/ (bytes > 0 /\ (expected # Unknown => bytes = size))

\* "The partial file is deliberately kept": what was written is given up only
\* when the host ignores the range, or when it becomes the file.
ResumeKept == [][part'.len < part.len => pc = "ignored" \/ dest' = part]_vars

\* Every call ends ("DownloadStalledError when the connection goes quiet"), if the
\* host ends the bodies of its error answers.
CallEnds == (pc \notin Quiet) ~> (pc \in Quiet)

\* The promise to the library and the caller.
FileKind ==
    IF dest.len = 0 THEN "none" ELSE IF dest = foreign THEN "foreign"
    ELSE IF dest = Whole THEN "whole" ELSE "broken"
CallKind == IF pc = "idle" THEN "off" ELSE IF pc = "done" THEN "done" ELSE "on"

Promise == INSTANCE Landing WITH file <- FileKind, call <- CallKind

\* fetchFile keeps the promise that DownloadQueue relies on.
KeepsPromise == Promise!Spec
=============================================================================
