--------------------------- MODULE DownloadQueue ---------------------------
(***************************************************************************)
(* The in-process download worker (downloads/queue.ts) together with the   *)
(* HTTP handlers that create, cancel, retry and delete jobs                *)
(* (downloads/service.ts, routes/downloads.ts), boot and shutdown          *)
(* (index.ts).                                                             *)
(*                                                                         *)
(* Everything runs on one JavaScript thread, so a step of this module is   *)
(* the code between two awaits together with the database or disk call it  *)
(* ends in; what that call returned is kept in a pc (or a local) and used  *)
(* by the next step, when it may be stale.  Rows outlive the process; the  *)
(* class fields, the running jobs and the open requests do not.            *)
(*                                                                         *)
(* Abstracted: bytes, sizes, speed and the .part files (a file is on disk  *)
(* whole or it is not), texts of errors, and the SSE events.  Each job has *)
(* the same number of files and its own title.                             *)
(***************************************************************************)
EXTENDS Naturals, FiniteSets

CONSTANTS
    MaxJobs,      \* bound: how many jobs are ever created
    NumFiles,     \* files of a job
    Concurrency,  \* env.DOWNLOAD_CONCURRENCY
    MaxAttempts,  \* env.DOWNLOAD_MAX_ATTEMPTS
    Slots,        \* identities for concurrent runJob calls
    Requests,     \* HTTP requests that may be open at once
    MaxRestarts,  \* bound: how often the process ends
    MaxFaults     \* bound: how many database calls fail

ASSUME SizeAssumption ==
    MaxJobs \in Nat /\ NumFiles \in Nat \ {0} /\ MaxRestarts \in Nat /\ MaxFaults \in Nat
ASSUME ConcurrencyAssumption == Concurrency \in Nat \ {0}
ASSUME AttemptsAssumption == MaxAttempts \in Nat \ {0}
ASSUME SlotsAssumption == IsFiniteSet(Slots)

VARIABLES
    \* database rows
    status, cancelRequested, fileStatus, attempts,
    \* what is outside: files in place, files Nextcloud and Jellyfin were told of
    whole, scanned,
    \* the process
    phase, stopped, running, drain, wakePending, aborts, run, req,
    \* how much of the bounds was used
    restarts, faults

rows == <<status, cancelRequested, fileStatus, attempts>>
world == <<whole, scanned>>
worker == <<running, drain, wakePending, aborts, run>>
life == <<phase, stopped>>
used == <<restarts, faults>>
vars == <<rows, world, worker, req, life, used>>

-----------------------------------------------------------------------------
Jobs == 1..MaxJobs        \* numbered in the order of createdAt
Files == 1..NumFiles      \* numbered in the order of their column "order"
NoJob == 0
NoFile == 0

Terminal == {"COMPLETED", "PARTIAL", "FAILED", "CANCELLED"}
JobStatus == {"NONE", "QUEUED", "RUNNING", "DELETED"} \cup Terminal
FileStatus == {"PENDING", "RUNNING", "COMPLETED", "FAILED", "CANCELLED"}

Row(j) == status[j] \notin {"NONE", "DELETED"}
Done(j) == {f \in Files : fileStatus[j][f] = "COMPLETED"}

DrainPc == {"idle", "seek", "found", "missed", "claimed", "lost"}
\* before its verdict is written a run is the one that will end its job
Working == {"load", "next", "probe", "fetch", "dump", "landing", "record", "recorded",
            "backoff", "tally", "sweep", "verdict", "crashed"}
RunPc == {"idle", "post", "leave"} \cup Working
ReqPc == {"idle", "created", "cancelQueued", "cancelFiles", "cancelRunning",
          "cancelled", "retry", "requeued", "delete", "purging"}

AtRest == [pc |-> "idle", job |-> NoJob]
NoRun == [pc |-> "idle", job |-> NoJob, file |-> NoFile, todo |-> {},
          att |-> [f \in Files |-> 0], cancelled |-> FALSE, aborted |-> FALSE,
          verdict |-> "NONE", landed |-> FALSE]
NoReq == [pc |-> "idle", job |-> NoJob, left |-> {}]

RunRecord == [pc : RunPc, job : Jobs \cup {NoJob}, file : Files \cup {NoFile},
              todo : SUBSET Files, att : [Files -> Nat], cancelled : BOOLEAN,
              aborted : BOOLEAN, verdict : {"NONE"} \cup Terminal, landed : BOOLEAN]
ReqRecord == [pc : ReqPc, job : Jobs \cup {NoJob}, left : SUBSET Files]

Live(s) == run[s].pc # "idle"
LiveSlots == {s \in Slots : Live(s)}

Init ==
    /\ status = [j \in Jobs |-> "NONE"]
    /\ cancelRequested = [j \in Jobs |-> FALSE]
    /\ fileStatus = [j \in Jobs |-> [f \in Files |-> "PENDING"]]
    /\ attempts = [j \in Jobs |-> [f \in Files |-> 0]]
    /\ whole = [j \in Jobs |-> {}]
    /\ scanned = [j \in Jobs |-> {}]
    /\ phase = "jobs"
    /\ stopped = FALSE
    /\ running = 0
    /\ drain = AtRest
    /\ wakePending = FALSE
    /\ aborts = [j \in Jobs |-> {}]
    /\ run = [s \in Slots |-> NoRun]
    /\ req = [r \in Requests |-> NoReq]
    /\ restarts = 0
    /\ faults = 0

-----------------------------------------------------------------------------
(* The drain loop: at most one is in progress, drain.pc # "idle" is the    *)
(* flag "draining".                                                        *)

\* Mutant: one job too many.
HasSlotOffByOne(n) == n <= Concurrency

HasSlot(n) == n < Concurrency

\* The head of the while loop, entered with n jobs running.
Loop(n) == IF ~stopped /\ HasSlot(n) THEN [pc |-> "seek", job |-> NoJob] ELSE AtRest

Wake == drain' = IF stopped \/ drain.pc # "idle" THEN drain ELSE Loop(running)

\* The job findFirst returns: the oldest of the queued ones.
IsNextQueued(j) ==
    /\ status[j] = "QUEUED"
    /\ \A i \in Jobs : status[i] = "QUEUED" => j <= i

DrainFind ==
    /\ drain.pc = "seek"
    /\ \/ \E j \in Jobs : IsNextQueued(j) /\ drain' = [pc |-> "found", job |-> j]
       \/ /\ \A j \in Jobs : status[j] # "QUEUED"
          /\ drain' = [pc |-> "missed", job |-> NoJob]
    /\ UNCHANGED <<rows, world, running, wakePending, aborts, run, req, life, used>>

DrainMissed ==
    /\ drain.pc = "missed"
    /\ drain' = AtRest
    /\ UNCHANGED <<rows, world, running, wakePending, aborts, run, req, life, used>>

\* The condition of the claiming update.
MayClaim(j) == status[j] = "QUEUED"

DrainClaim ==
    /\ drain.pc = "found"
    /\ \/ /\ MayClaim(drain.job)
          /\ status' = [status EXCEPT ![drain.job] = "RUNNING"]
          /\ drain' = [drain EXCEPT !.pc = "claimed"]
       \/ /\ ~MayClaim(drain.job)
          /\ drain' = [pc |-> "lost", job |-> NoJob]
          /\ UNCHANGED status
    /\ UNCHANGED <<cancelRequested, fileStatus, attempts, world, running, wakePending,
                   aborts, run, req, life, used>>

DrainLost ==
    /\ drain.pc = "lost"
    /\ drain' = Loop(running)
    /\ UNCHANGED <<rows, world, running, wakePending, aborts, run, req, life, used>>

\* Mutant: the controller is registered only once a transfer begins.
RegisteredLater(j, s) == aborts

Registered(j, s) == [aborts EXCEPT ![j] = {s}]

\* runJob starts: its controller is registered before its first await.
DrainStart(s) ==
    /\ drain.pc = "claimed"
    /\ ~Live(s)
    /\ running' = running + 1
    /\ aborts' = Registered(drain.job, s)
    /\ run' = [run EXCEPT ![s] = [NoRun EXCEPT !.pc = "load", !.job = drain.job]]
    /\ drain' = Loop(running + 1)
    /\ UNCHANGED <<rows, world, wakePending, req, life, used>>

\* findFirst or the claim throws: logged, and the loop is over.
DrainFault ==
    /\ drain.pc \in {"seek", "found"}
    /\ faults < MaxFaults
    /\ faults' = faults + 1
    /\ drain' = AtRest
    /\ UNCHANGED <<rows, world, running, wakePending, aborts, run, req, life, restarts>>

\* The callback a finished run left to setImmediate.
Immediate ==
    /\ wakePending
    /\ wakePending' = FALSE
    /\ Wake
    /\ UNCHANGED <<rows, world, running, aborts, run, req, life, used>>

Drain == DrainFind \/ DrainMissed \/ DrainClaim \/ DrainLost \/ (\E s \in Slots : DrainStart(s))

-----------------------------------------------------------------------------
(* One run of a job: runJob, processJob, processFile, finishJob.           *)

At(s, pc) == run[s].pc = pc

Goto(s, pc) == run' = [run EXCEPT ![s].pc = pc]

SetFile(j, f, st) == fileStatus' = [fileStatus EXCEPT ![j][f] = st]

\* processJob reads the job and its files once; a row that is gone ends it.
RunLoad(s) ==
    LET j == run[s].job IN
    /\ At(s, "load")
    /\ \/ /\ Row(j)
          /\ run' = [run EXCEPT ![s].pc = "next", ![s].todo = Files \ Done(j),
                                ![s].att = attempts[j]]
       \/ ~Row(j) /\ Goto(s, "leave")
    /\ UNCHANGED <<rows, world, running, drain, wakePending, aborts, req, life, used>>

\* The head of the loop over the files: the cancel flag is read before each.
RunCheck(s) ==
    LET j == run[s].job IN
    /\ At(s, "next")
    /\ \/ \E f \in run[s].todo :
            /\ \A g \in run[s].todo : f <= g
            /\ ~cancelRequested[j]
            /\ run' = [run EXCEPT ![s].pc = "probe", ![s].file = f]
       \/ /\ run[s].todo # {} /\ cancelRequested[j]
          /\ run' = [run EXCEPT ![s].pc = "tally", ![s].cancelled = TRUE]
       \/ run[s].todo = {} /\ Goto(s, "tally")
    /\ UNCHANGED <<rows, world, running, drain, wakePending, aborts, req, life, used>>

\* Mutant: the file is looked at once more.
NextFileAgain(s) == run' = [run EXCEPT ![s].pc = "next", ![s].file = NoFile]

\* The file is over: on to the next one.
NextFile(s) == run' = [run EXCEPT ![s].pc = "next", ![s].file = NoFile,
                                  ![s].todo = @ \ {run[s].file}]

\* The destination is outside the library or the disk is too full.
RunReject(s) ==
    /\ At(s, "probe") /\ Row(run[s].job)
    /\ SetFile(run[s].job, run[s].file, "FAILED")
    /\ NextFile(s)
    /\ UNCHANGED <<status, cancelRequested, attempts, world, running, drain, wakePending,
                   aborts, req, life, used>>

RunBegin(s) ==
    LET j == run[s].job
        f == run[s].file
    IN
    /\ At(s, "probe") /\ Row(j)
    /\ SetFile(j, f, "RUNNING")
    /\ attempts' = [attempts EXCEPT ![j][f] = @ + 1]
    /\ Goto(s, "fetch")
    /\ UNCHANGED <<status, cancelRequested, world, running, drain, wakePending, aborts,
                   req, life, used>>

\* Mutant: a partial file is taken for the file.
InPlaceUnchecked(j, f) == TRUE

InPlace(j, f) == f \in whole[j]

\* fetchFile finds the file in place.
FetchSkip(s) ==
    /\ At(s, "fetch")
    /\ InPlace(run[s].job, run[s].file)
    /\ Goto(s, "record")
    /\ UNCHANGED <<rows, world, running, drain, wakePending, aborts, req, life, used>>

\* The host refuses, or says that the .part is the whole file: fetchFile reads the
\* body of such an answer to its end, under no timer.
FetchDump(s) ==
    /\ At(s, "fetch")
    /\ ~InPlace(run[s].job, run[s].file)
    /\ ~run[s].aborted
    /\ Goto(s, "dump")
    /\ UNCHANGED <<rows, world, running, drain, wakePending, aborts, req, life, used>>

\* The last byte arrived, of the file or of the answer that says it is whole; an
\* abort after this is not seen.
FetchEnd(s) ==
    /\ run[s].pc \in {"fetch", "dump"}
    /\ ~InPlace(run[s].job, run[s].file)
    /\ ~run[s].aborted
    /\ Goto(s, "landing")
    /\ UNCHANGED <<rows, world, running, drain, wakePending, aborts, req, life, used>>

FetchRename(s) ==
    /\ At(s, "landing")
    /\ whole' = [whole EXCEPT ![run[s].job] = @ \cup {run[s].file}]
    /\ Goto(s, "record")
    /\ UNCHANGED <<rows, scanned, running, drain, wakePending, aborts, req, life, used>>

\* Mutant: one attempt more than configured.
MayRetryFileOnceMore(n) == n < MaxAttempts

\* Attempts left for the file after one more failed.
MayRetryFile(n) == n + 1 < MaxAttempts

\* The catch of processFile: which row it writes depends on the controller
\* and on the attempts counted locally.
Caught(s) ==
    LET j == run[s].job
        f == run[s].file
        n == run[s].att[f]
    IN
    /\ \/ /\ ~Row(j)
          /\ Goto(s, "crashed")
          /\ UNCHANGED fileStatus
       \/ /\ Row(j) /\ run[s].aborted
          /\ SetFile(j, f, "CANCELLED")
          /\ run' = [run EXCEPT ![s].pc = "tally", ![s].cancelled = TRUE]
       \/ /\ Row(j) /\ ~run[s].aborted /\ MayRetryFile(n)
          /\ SetFile(j, f, "PENDING")
          /\ run' = [run EXCEPT ![s].pc = "backoff", ![s].att[f] = n + 1]
       \/ /\ Row(j) /\ ~run[s].aborted /\ ~MayRetryFile(n)
          /\ SetFile(j, f, "FAILED")
          /\ NextFile(s)
    /\ UNCHANGED <<status, cancelRequested, attempts, world, running, drain, wakePending,
                   aborts, req, life>>

\* The transfer fails, stalls, is refused or aborted, or the rename fails.
FetchThrow(s) ==
    /\ run[s].pc \in {"fetch", "dump", "landing"}
    /\ Caught(s)
    /\ UNCHANGED used

\* A database call of the try block fails after the file landed.
RecordFault(s) ==
    /\ run[s].pc \in {"record", "recorded"}
    /\ faults < MaxFaults
    /\ faults' = faults + 1
    /\ Caught(s)
    /\ UNCHANGED restarts

BackoffOver(s) ==
    /\ At(s, "backoff")
    /\ Goto(s, "probe")
    /\ UNCHANGED <<rows, world, running, drain, wakePending, aborts, req, life, used>>

RunRecordDone(s) ==
    /\ At(s, "record") /\ Row(run[s].job)
    /\ SetFile(run[s].job, run[s].file, "COMPLETED")
    /\ Goto(s, "recorded")
    /\ UNCHANGED <<status, cancelRequested, attempts, world, running, drain, wakePending,
                   aborts, req, life, used>>

\* recomputeTotals and the event of the finished file.
RunTotals(s) ==
    /\ At(s, "recorded") /\ Row(run[s].job)
    /\ NextFile(s)
    /\ UNCHANGED <<rows, world, running, drain, wakePending, aborts, req, life, used>>

\* Mutant: no PARTIAL.
VerdictOfTwo(completed, cancelled) ==
    IF cancelled THEN "CANCELLED" ELSE IF completed # {} THEN "COMPLETED" ELSE "FAILED"

VerdictOf(completed, cancelled) ==
    IF cancelled THEN "CANCELLED"
    ELSE IF completed = Files THEN "COMPLETED"
    ELSE IF completed # {} THEN "PARTIAL" ELSE "FAILED"

\* Mutant: the media server is told only of complete titles.
LandedAll(completed) == completed = Files

Landed(completed) == completed # {}

\* finishJob reads the files; the rows it writes later rest on this read.
RunTally(s) ==
    LET j == run[s].job IN
    /\ At(s, "tally") /\ Row(j)
    /\ run' = [run EXCEPT ![s] =
                 [@ EXCEPT !.pc = IF run[s].cancelled THEN "sweep" ELSE "verdict",
                           !.verdict = VerdictOf(Done(j), run[s].cancelled),
                           !.landed = Landed(Done(j)),
                           !.todo = {}, !.file = NoFile, !.att = NoRun.att]]
    /\ UNCHANGED <<rows, world, running, drain, wakePending, aborts, req, life, used>>

\* Mutant: the sweep forgets its status filter.
SweptAll(j) == [f \in Files |-> "CANCELLED"]

Swept(j) == [f \in Files |-> IF fileStatus[j][f] \in {"PENDING", "RUNNING"}
                               THEN "CANCELLED" ELSE fileStatus[j][f]]

RunSweep(s) ==
    LET j == run[s].job IN
    /\ At(s, "sweep") /\ Row(j)
    /\ fileStatus' = [fileStatus EXCEPT ![j] = Swept(j)]
    /\ Goto(s, "verdict")
    /\ UNCHANGED <<status, cancelRequested, attempts, world, running, drain, wakePending,
                   aborts, req, life, used>>

\* recomputeTotals and the update that ends the job, whatever its row says.
RunVerdict(s) ==
    LET j == run[s].job IN
    /\ At(s, "verdict") /\ Row(j)
    /\ status' = [status EXCEPT ![j] = run[s].verdict]
    /\ cancelRequested' = [cancelRequested EXCEPT ![j] = FALSE]
    /\ Goto(s, "post")
    /\ UNCHANGED <<fileStatus, attempts, world, running, drain, wakePending, aborts, req,
                   life, used>>

\* Post-processing if anything landed, then the last event.
RunPost(s) ==
    LET j == run[s].job IN
    /\ At(s, "post")
    /\ IF run[s].landed /\ Row(j)
         THEN scanned' = [scanned EXCEPT ![j] = @ \cup whole[j]]
         ELSE UNCHANGED scanned
    /\ Goto(s, "leave")
    /\ UNCHANGED <<rows, whole, running, drain, wakePending, aborts, req, life, used>>

\* Mutant: the slot is given back twice, or never.
FreeSlotTwice(n) == n - 2
FreeSlotNever(n) == n

FreeSlot(n) == n - 1

\* What the finally block of runJob forgets for job j.
Forget(j) == [aborts EXCEPT ![j] = {}]

\* Both finally blocks: the handle goes by job, not by run.
RunEnd(s) ==
    /\ At(s, "leave")
    /\ aborts' = Forget(run[s].job)
    /\ running' = FreeSlot(running)
    /\ wakePending' = TRUE
    /\ run' = [run EXCEPT ![s] = NoRun]
    /\ UNCHANGED <<rows, world, drain, req, life, used>>

\* An update finds its row deleted and throws, up to the catch of runJob.
RunRowGone(s) ==
    /\ run[s].pc \in {"probe", "record", "recorded", "tally", "sweep", "verdict"}
    /\ ~Row(run[s].job)
    /\ Goto(s, "crashed")
    /\ UNCHANGED <<rows, world, running, drain, wakePending, aborts, req, life, used>>

\* A database call outside processFile's try block fails.
RunFault(s) ==
    /\ run[s].pc \in {"load", "next", "probe", "fetch", "tally", "sweep", "verdict", "post"}
    /\ faults < MaxFaults
    /\ faults' = faults + 1
    /\ Goto(s, "crashed")
    /\ UNCHANGED <<rows, world, running, drain, wakePending, aborts, req, life, restarts>>

\* The catch of runJob; a row that is gone is ignored.
RunFailed(s) ==
    LET j == run[s].job IN
    /\ At(s, "crashed")
    /\ status' = IF Row(j) THEN [status EXCEPT ![j] = "FAILED"] ELSE status
    /\ Goto(s, "leave")
    /\ UNCHANGED <<cancelRequested, fileStatus, attempts, world, running, drain,
                   wakePending, aborts, req, life, used>>

\* Its own update fails too, and that is ignored as well.
FailedFault(s) ==
    /\ At(s, "crashed")
    /\ faults < MaxFaults
    /\ faults' = faults + 1
    /\ Goto(s, "leave")
    /\ UNCHANGED <<rows, world, running, drain, wakePending, aborts, req, life, restarts>>

\* What a run does by itself, given that its own calls return.
Advance(s) ==
    \/ RunLoad(s) \/ RunCheck(s) \/ RunReject(s) \/ RunBegin(s) \/ FetchSkip(s)
    \/ FetchRename(s) \/ (run[s].aborted /\ FetchThrow(s)) \/ BackoffOver(s)
    \/ RunRecordDone(s) \/ RunTotals(s) \/ RunTally(s) \/ RunSweep(s) \/ RunVerdict(s)
    \/ RunPost(s) \/ RunEnd(s) \/ RunRowGone(s) \/ RunFailed(s)

\* What it waits for the file host to do.
Transfer(s) == FetchEnd(s) \/ FetchDump(s) \/ FetchThrow(s)

-----------------------------------------------------------------------------
(* The handlers of routes/downloads.ts.  A request that is refused on its  *)
(* first read changes nothing and is left out.                             *)

Accepting == phase = "up" /\ ~stopped

Open(r, pc, j) ==
    /\ Accepting
    /\ req[r] = NoReq
    /\ req' = [req EXCEPT ![r] = [NoReq EXCEPT !.pc = pc, !.job = j]]

Reply(r) == req' = [req EXCEPT ![r] = NoReq]
Answer(r, pc) == req' = [req EXCEPT ![r].pc = pc]

\* One insert; the transfer list it depends on is in the modules of circleftp/.
Create(r) ==
    \E j \in Jobs :
        /\ status[j] = "NONE" /\ \A i \in Jobs : i < j => status[i] # "NONE"
        /\ Open(r, "created", j)
        /\ status' = [status EXCEPT ![j] = "QUEUED"]
        /\ UNCHANGED <<cancelRequested, fileStatus, attempts, world, worker, life, used>>

\* The wake-up after the service call returned.
WakeReply(r) ==
    /\ req[r].pc \in {"created", "requeued"}
    /\ Wake
    /\ Reply(r)
    /\ UNCHANGED <<rows, world, running, wakePending, aborts, run, life, used>>

\* getDownload finds the row deleted meanwhile: 404, and nothing after it.
ReplyGone(r) ==
    /\ req[r].pc \in {"requeued", "cancelled", "cancelQueued", "cancelRunning", "retry",
                      "delete", "purging"}
    /\ req[r].left = {} /\ ~Row(req[r].job)
    /\ Reply(r)
    /\ UNCHANGED <<rows, world, worker, life, used>>

CancelRead(r) ==
    \E j \in Jobs :
        /\ \/ status[j] = "QUEUED" /\ Open(r, "cancelQueued", j)
           \/ status[j] = "RUNNING" /\ Open(r, "cancelRunning", j)
        /\ UNCHANGED <<rows, world, worker, life, used>>

\* The branch for a job that was queued when it was read.
CancelQueued(r) ==
    LET j == req[r].job IN
    /\ req[r].pc = "cancelQueued" /\ Row(j)
    /\ status' = [status EXCEPT ![j] = "CANCELLED"]
    /\ cancelRequested' = [cancelRequested EXCEPT ![j] = TRUE]
    /\ Answer(r, "cancelFiles")
    /\ UNCHANGED <<fileStatus, attempts, world, worker, life, used>>

CancelFiles(r) ==
    LET j == req[r].job IN
    /\ req[r].pc = "cancelFiles"
    /\ fileStatus' = [fileStatus EXCEPT ![j] =
         [f \in Files |-> IF Row(j) /\ @[f] = "PENDING" THEN "CANCELLED" ELSE @[f]]]
    /\ Answer(r, "cancelled")
    /\ UNCHANGED <<status, cancelRequested, attempts, world, worker, life, used>>

CancelRunning(r) ==
    LET j == req[r].job IN
    /\ req[r].pc = "cancelRunning" /\ Row(j)
    /\ cancelRequested' = [cancelRequested EXCEPT ![j] = TRUE]
    /\ Answer(r, "cancelled")
    /\ UNCHANGED <<status, fileStatus, attempts, world, worker, life, used>>

\* Mutant: the handle is not found, or it is everybody's.
HandlesNone(j) == {}
HandlesAll(j) == UNION {aborts[i] : i \in Jobs}

\* The runs whose controller the table holds for job j.
Handles(j) == aborts[j]

Aborted(S) == [s \in Slots |-> IF s \in S THEN [run[s] EXCEPT !.aborted = TRUE] ELSE run[s]]

\* The route aborts the transfer after the service call returned.
CancelAbort(r) ==
    /\ req[r].pc = "cancelled"
    /\ run' = Aborted(Handles(req[r].job))
    /\ Reply(r)
    /\ UNCHANGED <<rows, world, running, drain, wakePending, aborts, life, used>>

RetryRead(r) ==
    \E j \in Jobs :
        /\ status[j] \in Terminal /\ Done(j) # Files
        /\ Open(r, "retry", j)
        /\ UNCHANGED <<rows, world, worker, life, used>>

\* One transaction over the files and the job.
RetryWrite(r) ==
    LET j == req[r].job IN
    /\ req[r].pc = "retry" /\ Row(j)
    /\ status' = [status EXCEPT ![j] = "QUEUED"]
    /\ cancelRequested' = [cancelRequested EXCEPT ![j] = FALSE]
    /\ fileStatus' = [fileStatus EXCEPT ![j] =
         [f \in Files |-> IF f \in Done(j) THEN "COMPLETED" ELSE "PENDING"]]
    /\ attempts' = [attempts EXCEPT ![j] = [f \in Files |-> IF f \in Done(j) THEN @[f] ELSE 0]]
    /\ Answer(r, "requeued")
    /\ UNCHANGED <<world, worker, life, used>>

\* The caller may ask for the files to be removed as well, or not.
DeleteRead(r) ==
    \E j \in Jobs :
        /\ status[j] \in Terminal
        /\ \/ Open(r, "delete", j)
           \/ /\ Accepting /\ req[r] = NoReq
              /\ req' = [req EXCEPT ![r] = [pc |-> "purging", job |-> j, left |-> Files]]
        /\ UNCHANGED <<rows, world, worker, life, used>>

\* removeDownloadFiles removes one path after the other.
DeletePurge(r) ==
    /\ req[r].pc = "purging"
    /\ \E f \in req[r].left :
        /\ \A g \in req[r].left : f <= g
        /\ whole' = [whole EXCEPT ![req[r].job] = @ \ {f}]
        /\ req' = [req EXCEPT ![r].left = @ \ {f}]
    /\ UNCHANGED <<rows, scanned, worker, life, used>>

\* The files' rows go with the job's; a second delete finds nothing and fails.
DeleteRow(r) ==
    LET j == req[r].job IN
    /\ req[r].pc \in {"delete", "purging"} /\ req[r].left = {} /\ Row(j)
    /\ status' = [status EXCEPT ![j] = "DELETED"]
    /\ cancelRequested' = [cancelRequested EXCEPT ![j] = FALSE]
    /\ fileStatus' = [fileStatus EXCEPT ![j] = [f \in Files |-> "PENDING"]]
    /\ attempts' = [attempts EXCEPT ![j] = [f \in Files |-> 0]]
    /\ Reply(r)
    /\ UNCHANGED <<world, worker, life, used>>

RequestFault(r) ==
    /\ req[r].pc \notin {"idle", "created"}
    /\ faults < MaxFaults
    /\ faults' = faults + 1
    /\ Reply(r)
    /\ UNCHANGED <<rows, world, worker, life, restarts>>

\* What an open request does next.
Handle(r) ==
    \/ WakeReply(r) \/ ReplyGone(r) \/ CancelQueued(r) \/ CancelFiles(r)
    \/ CancelRunning(r) \/ CancelAbort(r) \/ RetryWrite(r) \/ DeletePurge(r) \/ DeleteRow(r)

UserAsks(r) == Create(r) \/ CancelRead(r) \/ RetryRead(r) \/ DeleteRead(r)

-----------------------------------------------------------------------------
(* Boot, shutdown and the end of the process.                              *)

\* Mutant: the interrupted jobs are left as they are.
RequeuedNever(j) == status[j]

Requeued(j) == IF status[j] = "RUNNING" THEN "QUEUED" ELSE status[j]

BootJobs ==
    /\ phase = "jobs"
    /\ status' = [j \in Jobs |-> Requeued(j)]
    /\ phase' = "files"
    /\ UNCHANGED <<cancelRequested, fileStatus, attempts, world, worker, req, stopped, used>>

BootFiles ==
    /\ phase = "files"
    /\ fileStatus' = [j \in Jobs |-> [f \in Files |->
         IF fileStatus[j][f] = "RUNNING" THEN "PENDING" ELSE fileStatus[j][f]]]
    /\ phase' = "wake"
    /\ UNCHANGED <<status, cancelRequested, attempts, world, worker, req, stopped, used>>

\* The first wake-up; then the server listens.
BootUp ==
    /\ phase = "wake"
    /\ Wake
    /\ phase' = "up"
    /\ UNCHANGED <<rows, world, running, wakePending, aborts, run, req, stopped, used>>

\* downloadQueue.shutdown(), on SIGTERM or SIGINT.
Shutdown ==
    /\ phase = "up" /\ ~stopped
    /\ restarts < MaxRestarts
    /\ stopped' = TRUE
    /\ run' = Aborted(UNION {Handles(j) : j \in Jobs})
    /\ UNCHANGED <<rows, world, running, drain, wakePending, aborts, req, phase, used>>

\* The memory of the process is gone; the supervisor starts another.
ProcessEnds ==
    /\ restarts < MaxRestarts
    /\ restarts' = restarts + 1
    /\ phase' = "jobs"
    /\ stopped' = FALSE
    /\ running' = 0
    /\ drain' = AtRest
    /\ wakePending' = FALSE
    /\ aborts' = [j \in Jobs |-> {}]
    /\ run' = [s \in Slots |-> NoRun]
    /\ req' = [r \in Requests |-> NoReq]
    /\ UNCHANGED <<rows, world, faults>>

Exit == stopped /\ ProcessEnds
Crash == ~stopped /\ ProcessEnds

Boot == BootJobs \/ BootFiles \/ BootUp

Next ==
    \/ Drain \/ DrainFault \/ Immediate
    \/ \E s \in Slots : Advance(s) \/ Transfer(s) \/ RecordFault(s) \/ RunFault(s) \/ FailedFault(s)
    \/ \E r \in Requests : UserAsks(r) \/ Handle(r) \/ RequestFault(r)
    \/ Boot \/ Shutdown \/ Exit \/ Crash

Spec == Init /\ [][Next]_vars

\* The event loop runs every callback that is ready, local calls return, and
\* a process that was told to stop ends.
SystemFairness ==
    /\ WF_vars(Drain) /\ WF_vars(Immediate) /\ WF_vars(Boot) /\ WF_vars(Exit)
    /\ \A s \in Slots : WF_vars(Advance(s))
    /\ \A r \in Requests : WF_vars(Handle(r))

\* The timeout of the headers and the stall timer end every wait for an answer or
\* for the next bytes of the file, well or badly.
TimerFairness == \A s \in Slots : WF_vars(~At(s, "dump") /\ Transfer(s))

\* The body of any other answer is read with bodyTimeout 0 before there is a stall
\* timer: that it ends, or its connection does, is assumed of the host.
HostFairness == \A s \in Slots : WF_vars(At(s, "dump") /\ Transfer(s))

CancelSpec == Spec /\ SystemFairness
FairSpec == Spec /\ SystemFairness /\ TimerFairness /\ HostFairness

-----------------------------------------------------------------------------
(* What makes the queue correct.                                           *)

RowsOK ==
    /\ status \in [Jobs -> JobStatus]
    /\ cancelRequested \in [Jobs -> BOOLEAN]
    /\ fileStatus \in [Jobs -> [Files -> FileStatus]]
    /\ attempts \in [Jobs -> [Files -> Nat]]

WorldOK ==
    /\ whole \in [Jobs -> SUBSET Files]
    /\ scanned \in [Jobs -> SUBSET Files]

ProcessOK ==
    /\ phase \in {"jobs", "files", "wake", "up"}
    /\ stopped \in BOOLEAN
    /\ running \in Nat
    /\ drain \in [pc : DrainPc, job : Jobs \cup {NoJob}]
    /\ drain.pc \in {"found", "claimed"} => drain.job \in Jobs
    /\ wakePending \in BOOLEAN
    /\ aborts \in [Jobs -> SUBSET Slots]

HasFile == {"probe", "fetch", "dump", "landing", "record", "recorded", "backoff"}

RunOK(g) ==
    /\ g \in RunRecord
    /\ g.pc # "idle" => g.job \in Jobs
    /\ g.pc \in HasFile => g.file \in Files

RunsOK == run \in [Slots -> RunRecord] /\ \A s \in Slots : RunOK(run[s])

ReqOK(q) == q \in ReqRecord /\ (q.pc # "idle" => q.job \in Jobs)

RequestsOK == req \in [Requests -> ReqRecord] /\ \A r \in Requests : ReqOK(req[r])

\* Every variable holds a value of its type; what is at work names a job, and
\* a file where it needs one.
TypeOK ==
    /\ RowsOK /\ WorldOK /\ ProcessOK /\ RunsOK /\ RequestsOK
    /\ restarts \in Nat /\ faults \in Nat

\* The counter "running" is the number of runJob calls that have not ended,
\* and it never exceeds DOWNLOAD_CONCURRENCY, whatever wakes the drain and
\* whenever (drain, queue.ts).
SlotsBounded ==
    /\ running = Cardinality(LiveSlots)
    /\ running <= Concurrency

\* A RUNNING row of an up process is held by that process: the drain has just
\* claimed it, or a run that has yet to write its verdict works on it.  One
\* failed database call is never enough to leave it to nobody; it takes the
\* failure of runJob's catch as well.
Owned(j) ==
    \/ drain.pc = "claimed" /\ drain.job = j
    \/ \E s \in Slots : run[s].job = j /\ run[s].pc \in Working

RunningIsOwned ==
    \A j \in Jobs : status[j] = "RUNNING" /\ phase \in {"wake", "up"} /\ faults < 2 => Owned(j)

\* The abort handle of a running job is the one of the run that works on it,
\* so that a cancel can interrupt it (queue.ts, field aborts).
AbortReachable == \A s \in Slots : Live(s) => aborts[run[s].job] = {s}

\* The verdict written at the end agrees with the rows of the files, although
\* cancel, retry and delete write to the same rows while it is being reached.
VerdictMatchesFiles ==
    \A j \in Jobs :
        /\ status[j] = "COMPLETED" => Done(j) = Files
        /\ status[j] = "PARTIAL" => Done(j) # {} /\ Done(j) # Files
        /\ status[j] = "FAILED" => Done(j) = {} \/ faults > 0

\* A file recorded as COMPLETED is in place, unless a delete that removes the
\* files is in progress or was cut short by a failure or a restart.
RecordedIsWhole ==
    \A j \in Jobs :
        \/ Done(j) \subseteq whole[j]
        \/ \E r \in Requests : req[r].pc = "purging" /\ req[r].job = j
        \/ restarts > 0 \/ faults > 0

\* A file is tried at most DOWNLOAD_MAX_ATTEMPTS times between two retries by a
\* user, and once more for every restart, or pair of failing database calls,
\* that left it to the next run unfinished.
AttemptBudget ==
    \A j \in Jobs, f \in Files :
        attempts[j][f] <= MaxAttempts + restarts + (faults \div 2)

\* When nothing runs a finished job any more, Nextcloud and Jellyfin were told
\* of every file it recorded (no restart and no failure in between).
ScannedWhenDone ==
    \A j \in Jobs :
        status[j] \in Terminal /\ restarts = 0 /\ faults = 0
          /\ (\A s \in Slots : Live(s) => run[s].job # j)
        => Done(j) \cap whole[j] \subseteq scanned[j]

\* "Completed ones are left alone": while its row exists, a file's COMPLETED is
\* taken back only by a run whose next database call failed.
FilesStick ==
    [][\A j \in Jobs, f \in Files :
         f \in Done(j) /\ status'[j] # "DELETED" /\ faults' = faults
           => f \in Done(j)']_vars

\* A running job is cancelled only if somebody asked for it.
CancelledWasAsked ==
    [][\A j \in Jobs :
         status[j] = "RUNNING" /\ status'[j] = "CANCELLED"
           => cancelRequested[j] \/ cancelRequested'[j]]_vars

\* A transfer is aborted only for a cancel of its own job, or by a shutdown,
\* although the handles go by job and runs come and go (aborts, queue.ts).
AbortIsMeant ==
    [][\A s \in Slots :
         ~run[s].aborted /\ run'[s].aborted
           => \/ ~stopped /\ stopped'
              \/ \E r \in Requests : req[r].pc = "cancelled" /\ req[r].job = run[s].job]_vars

\* A step that belongs to a request of a user.
UserStep == req' # req

\* A finished job does not change again without user action (the comment on
\* the terminal statuses in shared/src/enums.ts).
TerminalSticks ==
    [][\A j \in Jobs : status[j] \in Terminal /\ status'[j] # status[j] => UserStep]_vars

\* A cancelled job leaves RUNNING even when the file host never answers again.
CancelTerminates ==
    \A j \in Jobs : (cancelRequested[j] /\ status[j] = "RUNNING") ~> (status[j] # "RUNNING")


\* While a job runs, the wake-up of the oldest queued one cannot be lost.
OldestServed ==
    \A j \in Jobs : (IsNextQueued(j) /\ running > 0) ~> ~IsNextQueued(j)

\* A job the last process left behind is taken up again, or cancelled, or an older
\* one has the turn.
BootServed ==
    \A j \in Jobs :
        (phase = "jobs" /\ status[j] = "RUNNING") ~>
        (phase = "up" /\ (Owned(j) \/ status[j] \notin {"QUEUED", "RUNNING"}
                           \/ \E i \in 1..(j - 1) : status[i] \in {"QUEUED", "RUNNING"}))

\* A created or retried job is picked up ("The worker picks it up on the next
\* tick", routes/downloads.ts).
QueuedIsPicked == \A j \in Jobs : (status[j] = "QUEUED") ~> (status[j] # "QUEUED")
=============================================================================
