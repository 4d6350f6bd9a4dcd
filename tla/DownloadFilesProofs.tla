------------------------ MODULE DownloadFilesProofs ------------------------
(***************************************************************************)
(* What is proved of the rows and the files of DownloadQueue: that what    *)
(* the database records agrees with the disk, with the verdict of the job  *)
(* and with what the media server was told, and how often a file is tried. *)
(***************************************************************************)
EXTENDS DownloadQueueProofs

-----------------------------------------------------------------------------
(* The ways a run can go, with what it carries along.                      *)

Begun == {"fetch", "dump", "landing", "record", "recorded"}

Step(s, from, to) == run[s].pc \in from /\ run'[s].pc = to

Keeps(s) ==
    /\ run'[s].file = run[s].file /\ run'[s].todo = run[s].todo /\ run'[s].att = run[s].att
    /\ run'[s].verdict = run[s].verdict /\ run'[s].landed = run[s].landed

Move(s) ==
    LET j == run[s].job
        f == run[s].file
    IN
    \/ /\ Step(s, {"load"}, "next") /\ Row(j)
       /\ run'[s].todo = Files \ Done(j) /\ run'[s].att = attempts[j]
    \/ Step(s, {"load"}, "leave") /\ ~Row(j)
    \/ /\ Step(s, {"next"}, "probe") /\ run'[s].file \in run[s].todo
       /\ run'[s].todo = run[s].todo /\ run'[s].att = run[s].att
    \/ Step(s, {"probe"}, "fetch") /\ Keeps(s)
    \/ Step(s, {"fetch"}, "dump") /\ Keeps(s)
    \/ Step(s, {"fetch", "dump"}, "landing") /\ Keeps(s)
    \/ Step(s, {"fetch", "landing"}, "record") /\ Keeps(s)
    \/ Step(s, {"record"}, "recorded") /\ Keeps(s)
    \/ /\ Step(s, {"probe"} \cup Begun, "next")
       /\ run'[s].todo = run[s].todo \ {f} /\ run'[s].att = run[s].att
    \/ /\ Step(s, Begun, "backoff") /\ MayRetryFile(run[s].att[f])
       /\ run'[s].file = f /\ run'[s].todo = run[s].todo
       /\ run'[s].att = [run[s].att EXCEPT ![f] = @ + 1]
    \/ Step(s, {"backoff"}, "probe") /\ Keeps(s)
    \/ Step(s, {"next"} \cup Begun, "tally")
    \/ /\ run[s].pc = "tally" /\ run'[s].pc \in {"sweep", "verdict"}
       /\ run'[s].verdict = VerdictOf(Done(j), run[s].cancelled)
       /\ run'[s].landed = Landed(Done(j))
    \/ Step(s, {"sweep"}, "verdict") /\ Keeps(s)
    \/ Step(s, {"verdict"}, "post") /\ Keeps(s)
    \/ Step(s, {"post", "crashed"}, "leave")
    \/ Step(s, (Working \ {"crashed"}) \cup {"post"}, "crashed") /\ (~Row(j) \/ faults' > faults)

\* A run's own pc moves and it carries what it carried.
LEMMA GotoKeeps ==
    ASSUME TypeOK, NEW s \in Slots, NEW pc, Goto(s, pc)
    PROVE  Alone(s) /\ run'[s].pc = pc /\ Keeps(s)
  BY DEF Goto, TypeOK, RunsOK, RunRecord, Alone, Keeps

LEMMA NextFileLeaves ==
    ASSUME TypeOK, NEW s \in Slots, NextFile(s)
    PROVE  /\ Alone(s) /\ run'[s].pc = "next"
           /\ run'[s].todo = run[s].todo \ {run[s].file} /\ run'[s].att = run[s].att
  BY DEF NextFile, TypeOK, RunsOK, RunRecord, Alone

\* The catch of processFile.
LEMMA CaughtMoves ==
    ASSUME TypeOK, NEW s \in Slots, run[s].pc \in Begun, Caught(s)
    PROVE  Alone(s) /\ Move(s)
  <1> DEFINE j == run[s].job
             f == run[s].file
             n == run[s].att[f]
  <1>1. run \in [Slots -> RunRecord] BY DEF TypeOK, RunsOK
  <1>2. CASE ~Row(j) /\ Goto(s, "crashed")
    BY <1>2, GotoKeeps DEF Move, Step, Begun, Working
  <1>3. CASE run' = [run EXCEPT ![s].pc = "tally", ![s].cancelled = TRUE]
    <2>1. Alone(s) /\ run'[s].pc = "tally" BY <1>1, <1>3 DEF Alone, RunRecord
    <2>2. QED BY <2>1 DEF Move, Step
  <1>4. CASE /\ MayRetryFile(n)
             /\ run' = [run EXCEPT ![s].pc = "backoff", ![s].att[f] = n + 1]
    <2>1. /\ Alone(s) /\ run'[s].pc = "backoff" /\ run'[s].file = f /\ run'[s].todo = run[s].todo
          /\ run'[s].att = [run[s].att EXCEPT ![f] = n + 1]
      BY <1>1, <1>4 DEF Alone, RunRecord
    <2>2. QED BY <1>4, <2>1 DEF Move, Step
  <1>5. CASE NextFile(s)
    BY <1>5, NextFileLeaves DEF Move, Step
  <1>6. QED BY <1>2, <1>3, <1>4, <1>5 DEF Caught

\* Every step of a run short of its end is one of these moves, and the other
\* runs are as they were.
LEMMA WorksMoves ==
    ASSUME TypeOK, NEW s \in Slots, Works(s)
    PROVE  Alone(s) /\ Move(s)
  <1> DEFINE j == run[s].job
  <1>1. run \in [Slots -> RunRecord] /\ faults \in Nat BY DEF TypeOK, RunsOK
  <1>2. CASE RunLoad(s)
    <2>1. CASE run' = [run EXCEPT ![s].pc = "next", ![s].todo = Files \ Done(j),
                                  ![s].att = attempts[j]] /\ Row(j)
      <3>1. /\ Alone(s) /\ run'[s].pc = "next"
            /\ run'[s].todo = Files \ Done(j) /\ run'[s].att = attempts[j]
        BY <1>1, <2>1 DEF Alone, RunRecord
      <3>2. QED BY <1>2, <2>1, <3>1 DEF RunLoad, At, Move, Step
    <2>2. CASE ~Row(j) /\ Goto(s, "leave")
      BY <1>2, <2>2, GotoKeeps DEF RunLoad, At, Move, Step
    <2>3. QED BY <1>2, <2>1, <2>2 DEF RunLoad
  <1>3. CASE RunCheck(s)
    <2>1. ASSUME NEW f \in run[s].todo, run' = [run EXCEPT ![s].pc = "probe", ![s].file = f]
          PROVE  Alone(s) /\ Move(s)
      <3>1. /\ Alone(s) /\ run'[s].pc = "probe" /\ run'[s].file = f
            /\ run'[s].todo = run[s].todo /\ run'[s].att = run[s].att
        BY <1>1, <2>1 DEF Alone, RunRecord
      <3>2. QED BY <1>3, <3>1 DEF RunCheck, At, Move, Step
    <2>2. CASE run' = [run EXCEPT ![s].pc = "tally", ![s].cancelled = TRUE]
      <3>1. Alone(s) /\ run'[s].pc = "tally" BY <1>1, <2>2 DEF Alone, RunRecord
      <3>2. QED BY <1>3, <3>1 DEF RunCheck, At, Move, Step
    <2>3. CASE Goto(s, "tally") BY <1>3, <2>3, GotoKeeps DEF RunCheck, At, Move, Step
    <2>4. QED BY <1>3, <2>1, <2>2, <2>3 DEF RunCheck
  <1>4. CASE RunTally(s)
    <2>1. /\ Alone(s) /\ run'[s].pc \in {"sweep", "verdict"}
          /\ run'[s].verdict = VerdictOf(Done(j), run[s].cancelled)
          /\ run'[s].landed = Landed(Done(j))
      BY <1>1, <1>4 DEF RunTally, Alone, RunRecord
    <2>2. QED BY <1>4, <2>1 DEF RunTally, At, Move
  <1>5. CASE RunReject(s) \/ RunTotals(s)
    BY <1>5, NextFileLeaves DEF RunReject, RunTotals, At, Move, Step, Begun
  <1>6. CASE FetchThrow(s) \/ RecordFault(s)
    BY <1>6, CaughtMoves DEF FetchThrow, RecordFault, Begun
  <1>7. CASE RunBegin(s) \/ FetchSkip(s) \/ FetchDump(s) \/ FetchEnd(s) \/ FetchRename(s) \/ BackoffOver(s)
              \/ RunRecordDone(s) \/ RunSweep(s) \/ RunVerdict(s) \/ RunPost(s)
    BY <1>7, GotoKeeps DEF RunBegin, FetchSkip, FetchDump, FetchEnd, FetchRename, BackoffOver,
       RunRecordDone, RunSweep, RunVerdict, RunPost, At, Move, Step
  <1>8. CASE RunRowGone(s) \/ RunFault(s)
    <2>1. ~Row(j) \/ faults' > faults BY <1>1, <1>8 DEF RunRowGone, RunFault
    <2>2. QED BY <1>8, <2>1, GotoKeeps DEF RunRowGone, RunFault, Move, Step, Working
  <1>9. CASE RunFailed(s) \/ FailedFault(s)
    BY <1>9, GotoKeeps DEF RunFailed, FailedFault, At, Move, Step
  <1>10. QED BY <1>2, <1>3, <1>4, <1>5, <1>6, <1>7, <1>8, <1>9 DEF Works

\* A run that moves names a job.
LEMMA WorksNamed ==
    ASSUME TypeOK, NEW s \in Slots, Works(s)
    PROVE  run[s].pc # "idle" /\ run[s].job \in Jobs
  <1>1. Move(s) BY WorksMoves
  <1>2. run[s].pc # "idle" BY <1>1 DEF Move, Step, Begun, Working
  <1>3. QED BY <1>2, Named

-----------------------------------------------------------------------------
(* What those moves do to the rows and to the disk.                        *)

\* A failing call is counted, a restart is none of a run's doing.
LEMMA WorksUsed ==
    ASSUME TypeOK, NEW s \in Slots, Works(s)
    PROVE  /\ restarts' = restarts /\ restarts \in Nat
           /\ faults \in Nat /\ faults' \in Nat /\ faults' >= faults
           /\ UNCHANGED <<drain, req, phase>>
  <1>1. UNCHANGED <<drain, req, phase>> BY WorksTypes DEF life
  <1>2. restarts \in Nat /\ faults \in Nat BY DEF TypeOK
  <1>3. restarts' = restarts /\ faults' \in {faults, faults + 1}
    BY DEF Works, RunLoad, RunCheck, RunReject, RunBegin, FetchSkip, FetchDump, FetchEnd, FetchRename,
       FetchThrow, RecordFault, Caught, BackoffOver, RunRecordDone, RunTotals, RunTally, RunSweep,
       RunVerdict, RunPost, RunRowGone, RunFault, RunFailed, FailedFault, used
  <1>4. QED BY <1>1, <1>2, <1>3

\* The rows of the files: one write records the file at hand as done, and only
\* the writes for the file at hand take that back.
LEMMA WorksFiles ==
    ASSUME TypeOK, NEW s \in Slots, Works(s), NEW i \in Jobs
    PROVE  \/ Done(i)' = Done(i)
           \/ /\ run[s].job = i /\ Step(s, {"record"}, "recorded") /\ Row(i)
              /\ Done(i)' = Done(i) \cup {run[s].file}
           \/ /\ run[s].job = i /\ run[s].pc \in {"probe"} \cup Begun
              /\ run[s].pc \in {"probe", "fetch", "dump", "landing"} \/ faults' # faults
              /\ Done(i)' = Done(i) \ {run[s].file}
  <1> DEFINE j == run[s].job
             f == run[s].file
             Writes(st) == SetFile(j, f, st)
  <1>1. /\ fileStatus \in [Jobs -> [Files -> FileStatus]] /\ j \in Jobs
        /\ run[s].pc \in HasFile => f \in Files
    BY Named, WorksNamed DEF TypeOK, RowsOK
  <1>2. CASE UNCHANGED fileStatus BY <1>2 DEF Done
  <1>3. CASE RunSweep(s) BY <1>1, <1>3 DEF RunSweep, Done, Swept
  <1>4. CASE RunRecordDone(s)
    <2>1. Step(s, {"record"}, "recorded") /\ Row(j)
      BY <1>4, GotoKeeps DEF RunRecordDone, At, Step
    <2>2. f \in Files BY <1>1, <1>4 DEF RunRecordDone, At, HasFile
    <2>3. CASE i = j
      <3>1. Done(i)' = Done(i) \cup {f}
        BY <1>1, <1>4, <2>2, <2>3 DEF RunRecordDone, SetFile, Done
      <3>2. QED BY <2>1, <2>3, <3>1 DEF Row
    <2>4. CASE i # j BY <1>1, <1>4, <2>4 DEF RunRecordDone, SetFile, Done
    <2>5. QED BY <2>3, <2>4
  <1>5. CASE /\ run[s].pc \in {"probe", "fetch", "dump", "landing"} \/ faults' # faults
             /\ run[s].pc \in {"probe"} \cup Begun
             /\ \E st \in FileStatus \ {"COMPLETED"} : Writes(st)
    <2>1. PICK st \in FileStatus \ {"COMPLETED"} : Writes(st) BY <1>5
    <2>2. CASE i = j
      <3>1. Done(i)' = Done(i) \ {f} BY <1>1, <2>1, <2>2 DEF SetFile, Done
      <3>2. QED BY <1>5, <2>2, <3>1
    <2>3. CASE i # j BY <1>1, <2>1, <2>3 DEF SetFile, Done
    <2>4. QED BY <2>2, <2>3
  <1>6. CASE RunReject(s) \/ RunBegin(s) BY <1>5, <1>6 DEF RunReject, RunBegin, At, FileStatus
  <1>7. CASE FetchThrow(s) \/ RecordFault(s)
    <2>1. faults \in Nat BY DEF TypeOK
    <2>2. run[s].pc \in {"fetch", "dump", "landing"} \/ (run[s].pc \in Begun /\ faults' # faults)
      BY <1>7, <2>1 DEF FetchThrow, RecordFault, Begun
    <2>3. QED BY <1>2, <1>5, <1>7, <2>2 DEF FetchThrow, RecordFault, Caught, FileStatus, Begun
  <1>8. QED
    BY <1>2, <1>3, <1>4, <1>6, <1>7
       DEF Works, RunLoad, RunCheck, FetchSkip, FetchDump, FetchEnd, FetchRename, BackoffOver, RunTotals,
           RunTally, RunVerdict, RunPost, RunRowGone, RunFault, RunFailed, FailedFault, rows

\* The disk: a file gets its name, and what is recorded next is in place.
LEMMA WorksWhole ==
    ASSUME TypeOK, NEW s \in Slots, Works(s)
    PROVE  /\ \A i \in Jobs :
                \/ whole'[i] = whole[i]
                \/ /\ run[s].job = i /\ Step(s, {"landing"}, "record")
                   /\ whole'[i] = whole[i] \cup {run[s].file}
           /\ run'[s].pc = "record" => run[s].file \in whole'[run[s].job]
  <1> DEFINE j == run[s].job
             f == run[s].file
  <1>1. whole \in [Jobs -> SUBSET Files] BY DEF TypeOK, WorldOK
  <1>2. CASE FetchRename(s)
    <2>1. Step(s, {"landing"}, "record") BY <1>2, GotoKeeps DEF FetchRename, At, Step
    <2>2. j \in Jobs BY <1>2, Named DEF FetchRename, At
    <2>3. QED BY <1>1, <1>2, <2>1, <2>2 DEF FetchRename
  <1>3. CASE FetchSkip(s)
    BY <1>3 DEF FetchSkip, InPlace, world
  <1>4. CASE ~FetchRename(s) /\ ~FetchSkip(s)
    <2>1. whole' = whole
      BY <1>4 DEF Works, RunLoad, RunCheck, RunReject, RunBegin, FetchDump, FetchEnd,
         FetchThrow, RecordFault, Caught, BackoffOver, RunRecordDone, RunTotals, RunTally, RunSweep,
         RunVerdict, RunPost, RunRowGone, RunFault, RunFailed, FailedFault, world
    <2>2. run'[s].pc # "record"
      <3>1. CASE run[s].pc \in {"fetch", "dump", "landing"}
        <4>1. Move(s) BY WorksMoves
        <4>2. FetchDump(s) \/ FetchEnd(s) \/ FetchThrow(s) \/ RunFault(s)
          BY <1>4, <3>1 DEF Works, RunLoad, RunCheck, RunReject, RunBegin, FetchDump, FetchEnd,
            FetchThrow, RecordFault, BackoffOver, RunRecordDone, RunTotals, RunTally,
            RunSweep, RunVerdict, RunPost, RunRowGone, RunFault, RunFailed, FailedFault, At
        <4>3. CASE FetchDump(s) \/ FetchEnd(s) BY <4>3, GotoKeeps DEF FetchDump, FetchEnd
        <4>4. CASE RunFault(s) BY <4>4, GotoKeeps DEF RunFault
        <4>5. CASE FetchThrow(s)
          <5>1. run \in [Slots -> RunRecord] BY DEF TypeOK, RunsOK
          <5>2. QED BY <4>5, <5>1, GotoKeeps, NextFileLeaves DEF FetchThrow, Caught, RunRecord
        <4>6. QED BY <4>2, <4>3, <4>4, <4>5
      <3>2. CASE run[s].pc \notin {"fetch", "dump", "landing"}
        BY <3>2, WorksMoves DEF Move, Step, Begun
      <3>3. QED BY <3>1, <3>2
    <2>3. QED BY <2>1, <2>2
  <1>5. QED BY <1>2, <1>3, <1>4

\* What the media server was told grows, and takes in all there is when a run
\* that saw a finished file does its post-processing.
LEMMA WorksScanned ==
    ASSUME TypeOK, NEW s \in Slots, Works(s)
    PROVE  LET j == run[s].job IN
           /\ \A i \in Jobs : scanned[i] \subseteq scanned'[i]
           /\ Step(s, {"post"}, "leave") /\ run[s].landed /\ Row(j)
                => whole'[j] = whole[j] /\ whole[j] \subseteq scanned'[j]
  <1> DEFINE j == run[s].job
  <1>1. scanned \in [Jobs -> SUBSET Files] BY DEF TypeOK, WorldOK
  <1>2. CASE RunPost(s)
    <2>1. j \in Jobs BY <1>2, Named DEF RunPost, At
    <2>2. QED BY <1>1, <1>2, <2>1 DEF RunPost
  <1>3. CASE ~RunPost(s)
    <2>1. scanned' = scanned
      BY <1>3 DEF Works, RunLoad, RunCheck, RunReject, RunBegin, FetchSkip, FetchDump, FetchEnd, FetchRename,
         FetchThrow, RecordFault, Caught, BackoffOver, RunRecordDone, RunTotals, RunTally, RunSweep,
         RunVerdict, RunRowGone, RunFault, RunFailed, FailedFault, world
    <2>2. run[s].pc = "post" => run'[s].pc = "crashed"
      BY <1>3, GotoKeeps
         DEF Works, RunLoad, RunCheck, RunReject, RunBegin, FetchSkip, FetchDump, FetchEnd, FetchRename,
         FetchThrow, RecordFault, BackoffOver, RunRecordDone, RunTotals, RunTally, RunSweep,
         RunVerdict, RunRowGone, RunFault, RunFailed, FailedFault, At
    <2>3. QED BY <2>1, <2>2 DEF Step
  <1>4. QED BY <1>2, <1>3

\* The row of the job: the verdict, or FAILED.
LEMMA WorksStatus ==
    ASSUME TypeOK, NEW s \in Slots, Works(s)
    PROVE  LET j == run[s].job IN
           \/ status' = status
           \/ /\ Step(s, {"verdict"}, "post") /\ Row(j)
              /\ status' = [status EXCEPT ![j] = run[s].verdict]
           \/ /\ Step(s, {"crashed"}, "leave") /\ Row(j)
              /\ status' = [status EXCEPT ![j] = "FAILED"]
  <1>1. CASE RunVerdict(s) BY <1>1, GotoKeeps DEF RunVerdict, At, Step
  <1>2. CASE RunFailed(s) BY <1>2, GotoKeeps DEF RunFailed, At, Step
  <1>3. CASE ~RunVerdict(s) /\ ~RunFailed(s)
    BY <1>3 DEF Works, RunLoad, RunCheck, RunReject, RunBegin, FetchSkip, FetchDump, FetchEnd, FetchRename,
       FetchThrow, RecordFault, Caught, BackoffOver, RunRecordDone, RunTotals, RunTally, RunSweep,
       RunPost, RunRowGone, RunFault, FailedFault, rows
  <1>4. QED BY <1>1, <1>2, <1>3

\* The count of attempts: one more when a transfer begins.
LEMMA WorksAttempts ==
    ASSUME TypeOK, NEW s \in Slots, Works(s)
    PROVE  LET j == run[s].job
               f == run[s].file
           IN  \/ attempts' = attempts /\ ~Step(s, {"probe"}, "fetch")
               \/ /\ Step(s, {"probe"}, "fetch") /\ Keeps(s)
                  /\ attempts' = [attempts EXCEPT ![j][f] = @ + 1]
  <1>1. CASE RunBegin(s) BY <1>1, GotoKeeps DEF RunBegin, At, Step
  <1>2. CASE ~RunBegin(s)
    <2>1. attempts' = attempts
      BY <1>2 DEF Works, RunLoad, RunCheck, RunReject, FetchSkip, FetchDump, FetchEnd, FetchRename,
         FetchThrow, RecordFault, Caught, BackoffOver, RunRecordDone, RunTotals, RunTally, RunSweep,
         RunVerdict, RunPost, RunRowGone, RunFault, RunFailed, FailedFault, rows
    <2>2. run[s].pc = "probe" => run'[s].pc \in {"next", "crashed"}
      BY <1>2, GotoKeeps, NextFileLeaves
         DEF Works, RunLoad, RunCheck, RunReject, FetchSkip, FetchDump, FetchEnd, FetchRename,
         FetchThrow, RecordFault, BackoffOver, RunRecordDone, RunTotals, RunTally, RunSweep,
         RunVerdict, RunPost, RunRowGone, RunFault, RunFailed, FailedFault, At
    <2>3. QED BY <2>1, <2>2 DEF Step
  <1>3. QED BY <1>1, <1>2

-----------------------------------------------------------------------------
(* What the other steps do to them.                                        *)

\* A run as it was, but for the flag that aborts its transfer.
Alike(t) == run'[t].pc = run[t].pc /\ run'[t].job = run[t].job /\ Keeps(t)
AllAlike == \A t \in Slots : Alike(t)

LEMMA AbortedAlike ==
    ASSUME TypeOK, NEW S, run' = Aborted(S)
    PROVE  AllAlike
  BY DEF TypeOK, RunsOK, RunRecord, Aborted, AllAlike, Alike, Keeps

Purging(j) == \E r \in Requests : req[r].pc = "purging" /\ req[r].job = j

\* The drain without a start, boot and shutdown: only a status moves.
Quiet ==
    \/ DrainFind \/ DrainMissed \/ DrainClaim \/ DrainLost \/ DrainFault \/ Immediate
    \/ Boot \/ Shutdown \/ UNCHANGED vars

LEMMA QuietRows ==
    ASSUME TypeOK, Quiet
    PROVE  /\ AllAlike /\ UNCHANGED <<attempts, whole, scanned, req, restarts>>
           /\ faults \in Nat /\ faults' \in Nat /\ faults' >= faults
           /\ \A i \in Jobs : Done(i)' = Done(i)
           /\ \A i \in Jobs :
                \/ status'[i] = status[i]
                \/ /\ status[i] = "QUEUED" /\ status'[i] = "RUNNING"
                   /\ drain.pc = "found" /\ drain'.pc = "claimed" /\ drain'.job = i
                \/ status[i] = "RUNNING" /\ status'[i] = "QUEUED" /\ phase = "jobs"
  <1>1. /\ status \in [Jobs -> JobStatus] /\ fileStatus \in [Jobs -> [Files -> FileStatus]]
        /\ faults \in Nat
        /\ drain.pc \in {"found", "claimed"} => drain.job \in Jobs
        /\ drain \in [pc : DrainPc, job : Jobs \cup {NoJob}]
    BY DEF TypeOK, RowsOK, ProcessOK
  <1>2. AllAlike
    <2>1. CASE Shutdown BY <2>1, AbortedAlike DEF Shutdown
    <2>2. CASE ~Shutdown
      <3>1. run' = run
        BY <2>2 DEF Quiet, DrainFind, DrainMissed, DrainClaim, DrainLost, DrainFault, Immediate,
           Boot, BootJobs, BootFiles, BootUp, vars, worker
      <3>2. QED BY <3>1 DEF AllAlike, Alike, Keeps
    <2>3. QED BY <2>1, <2>2
  <1>3. UNCHANGED <<attempts, whole, scanned, req, restarts>> /\ faults' \in {faults, faults + 1}
    BY DEF Quiet, DrainFind, DrainMissed, DrainClaim, DrainLost, DrainFault, Immediate, Boot,
       BootJobs, BootFiles, BootUp, Shutdown, vars, rows, world, worker, used
  <1>4. \A i \in Jobs : Done(i)' = Done(i)
    <2>1. CASE BootFiles BY <1>1, <2>1 DEF BootFiles, Done
    <2>2. CASE ~BootFiles
      <3>1. fileStatus' = fileStatus
        BY <2>2 DEF Quiet, DrainFind, DrainMissed, DrainClaim, DrainLost, DrainFault, Immediate,
           Boot, BootJobs, BootUp, Shutdown, vars, rows
      <3>2. QED BY <3>1 DEF Done
    <2>3. QED BY <2>1, <2>2
  <1>5. \A i \in Jobs :
           \/ status'[i] = status[i]
           \/ /\ status[i] = "QUEUED" /\ status'[i] = "RUNNING"
              /\ drain.pc = "found" /\ drain'.pc = "claimed" /\ drain'.job = i
           \/ status[i] = "RUNNING" /\ status'[i] = "QUEUED" /\ phase = "jobs"
    <2>1. CASE BootJobs BY <1>1, <2>1 DEF BootJobs, Requeued
    <2>2. CASE DrainClaim BY <1>1, <2>2 DEF DrainClaim, MayClaim
    <2>3. CASE ~BootJobs /\ ~DrainClaim
      BY <2>3 DEF Quiet, DrainFind, DrainMissed, DrainLost, DrainFault, Immediate, Boot,
         BootFiles, BootUp, Shutdown, vars, rows
    <2>4. QED BY <2>1, <2>2, <2>3
  <1>6. QED BY <1>1, <1>2, <1>3, <1>4, <1>5

\* A request: it may end, cancel, requeue or delete a job, and take away files
\* while it purges.
LEMMA RequestRows ==
    ASSUME TypeOK, NEW r \in Requests, UserAsks(r) \/ Handle(r) \/ RequestFault(r)
    PROVE  /\ AllAlike /\ UNCHANGED <<scanned, restarts, phase>>
           /\ faults \in Nat /\ faults' \in Nat /\ faults' >= faults
           /\ \A i \in Jobs :
                /\ \/ status'[i] = "DELETED" /\ Done(i)' = {}
                   \/ Done(i)' = Done(i) /\ (status'[i] = "DELETED" => status[i] = "DELETED")
                /\ whole'[i] \subseteq whole[i]
                /\ whole'[i] = whole[i] \/ Purging(i)'
                /\ Purging(i) => Purging(i)' \/ faults' > 0 \/ status'[i] \in {"NONE", "DELETED"}
                /\ \/ status'[i] = status[i]
                   \/ status[i] = "NONE" /\ status'[i] = "QUEUED"
                   \/ Row(i) /\ status'[i] \in {"CANCELLED", "DELETED"}
                   \/ /\ Row(i) /\ status'[i] = "QUEUED"
                      /\ \A f \in Files \ Done(i) : attempts'[i][f] = 0
                /\ \A f \in Files : attempts'[i][f] \in {attempts[i][f], 0}
                /\ attempts'[i] = attempts[i] \/ status'[i] \in {"QUEUED", "DELETED"}
  <1> DEFINE j == req[r].job
  <1>1. /\ status \in [Jobs -> JobStatus] /\ fileStatus \in [Jobs -> [Files -> FileStatus]]
        /\ attempts \in [Jobs -> [Files -> Nat]] /\ whole \in [Jobs -> SUBSET Files]
        /\ req \in [Requests -> ReqRecord] /\ faults \in Nat
        /\ req[r].pc # "idle" => j \in Jobs
    BY DEF TypeOK, RowsOK, WorldOK, RequestsOK, ReqOK
  <1>2. AllAlike
    <2>1. CASE CancelAbort(r) BY <2>1, AbortedAlike DEF CancelAbort
    <2>2. CASE ~CancelAbort(r)
      <3>1. run' = run
        BY <2>2 DEF UserAsks, Create, CancelRead, RetryRead, DeleteRead, Handle, WakeReply,
           ReplyGone, CancelQueued, CancelFiles, CancelRunning, RetryWrite, DeletePurge, DeleteRow,
           RequestFault, worker
      <3>2. QED BY <3>1 DEF AllAlike, Alike, Keeps
    <2>3. QED BY <2>1, <2>2
  <1>3. UNCHANGED <<scanned, restarts, phase>> /\ faults' \in {faults, faults + 1}
    BY DEF UserAsks, Create, CancelRead, RetryRead, DeleteRead, Handle, WakeReply, ReplyGone,
       CancelQueued, CancelFiles, CancelRunning, CancelAbort, RetryWrite, DeletePurge, DeleteRow,
       RequestFault, world, used, life
  <1>4. \A i \in Jobs :
           \/ status'[i] = "DELETED" /\ Done(i)' = {}
           \/ Done(i)' = Done(i) /\ (status'[i] = "DELETED" => status[i] = "DELETED")
    <2>1. CASE CancelFiles(r)
      <3>1. status' = status BY <2>1 DEF CancelFiles
      <3>2. \A i \in Jobs : Done(i)' = Done(i) BY <1>1, <2>1 DEF CancelFiles, Done
      <3>3. QED BY <3>1, <3>2
    <2>2. CASE RetryWrite(r)
      <3>1. \A i \in Jobs : status'[i] = "DELETED" => status[i] = "DELETED"
        BY <1>1, <2>2 DEF RetryWrite
      <3>2. \A i \in Jobs : Done(i)' = Done(i) BY <1>1, <2>2 DEF RetryWrite, Done
      <3>3. QED BY <3>1, <3>2
    <2>3. CASE DeleteRow(r) BY <1>1, <2>3 DEF DeleteRow, Done
    <2>4. CASE ~(CancelFiles(r) \/ RetryWrite(r) \/ DeleteRow(r))
      <3>1. fileStatus' = fileStatus
        BY <2>4 DEF UserAsks, Create, CancelRead, RetryRead, DeleteRead, Handle, WakeReply,
           ReplyGone, CancelQueued, CancelRunning, CancelAbort, DeletePurge, RequestFault, rows
      <3>2. \A i \in Jobs : status'[i] = "DELETED" => status[i] = "DELETED"
        BY <1>1, <2>4 DEF UserAsks, Create, CancelRead, RetryRead, DeleteRead, Handle, WakeReply,
           ReplyGone, CancelQueued, CancelRunning, CancelAbort, DeletePurge, RequestFault, rows
      <3>3. QED BY <3>1, <3>2 DEF Done
    <2>5. QED BY <2>1, <2>2, <2>3, <2>4
  <1>5. \A i \in Jobs : /\ whole'[i] \subseteq whole[i]
                        /\ whole'[i] = whole[i] \/ Purging(i)'
    <2>1. CASE DeletePurge(r)
      <3>1. PICK f \in req[r].left :
              /\ whole' = [whole EXCEPT ![j] = @ \ {f}]
              /\ req' = [req EXCEPT ![r].left = @ \ {f}]
        BY <2>1 DEF DeletePurge
      <3>2. j \in Jobs /\ req[r].pc = "purging" BY <1>1, <2>1 DEF DeletePurge
      <3>3. req'[r].pc = "purging" /\ req'[r].job = j BY <1>1, <3>1, <3>2 DEF ReqRecord
      <3>4. QED BY <1>1, <3>1, <3>2, <3>3 DEF Purging
    <2>2. CASE ~DeletePurge(r)
      <3>1. whole' = whole
        BY <2>2 DEF UserAsks, Create, CancelRead, RetryRead, DeleteRead, Handle, WakeReply,
           ReplyGone, CancelQueued, CancelFiles, CancelRunning, CancelAbort, RetryWrite, DeleteRow,
           RequestFault, world
      <3>2. QED BY <3>1
    <2>3. QED BY <2>1, <2>2
  <1>6. \A i \in Jobs :
           Purging(i) => Purging(i)' \/ faults' > 0 \/ status'[i] \in {"NONE", "DELETED"}
    <2>1. \A q \in Requests : q # r => req'[q] = req[q]
      BY <1>1 DEF UserAsks, Create, CancelRead, RetryRead, DeleteRead, Open, Handle, WakeReply,
         ReplyGone, CancelQueued, CancelFiles, CancelRunning, CancelAbort, RetryWrite, DeletePurge,
         DeleteRow, RequestFault, Reply, Answer
    <2>2. req[r].pc = "purging" =>
            \/ req'[r].pc = "purging" /\ req'[r].job = j
            \/ faults' > 0
            \/ status'[j] \in {"NONE", "DELETED"}
      <3>1. CASE DeletePurge(r)
        BY <1>1, <3>1 DEF DeletePurge, ReqRecord
      <3>2. CASE RequestFault(r) BY <1>1, <3>2 DEF RequestFault
      <3>3. CASE DeleteRow(r) BY <1>1, <3>3 DEF DeleteRow
      <3>4. CASE ReplyGone(r) BY <1>1, <3>4 DEF ReplyGone, Row, rows
      <3>5. CASE ~(DeletePurge(r) \/ RequestFault(r) \/ DeleteRow(r) \/ ReplyGone(r))
        <4>1. NoReq.pc = "idle" BY DEF NoReq
        <4>2. CASE UserAsks(r)
          <5>1. req[r] = NoReq
            BY <4>2 DEF UserAsks, Create, CancelRead, RetryRead, DeleteRead, Open
          <5>2. QED BY <4>1, <5>1
        <4>3. CASE Handle(r)
          BY <3>5, <4>3 DEF Handle, WakeReply, CancelQueued, CancelFiles, CancelRunning,
             CancelAbort, RetryWrite
        <4>4. QED BY <3>5, <4>2, <4>3
      <3>6. QED BY <3>1, <3>2, <3>3, <3>4, <3>5
    <2>3. QED BY <2>1, <2>2 DEF Purging
  <1>7. \A i \in Jobs :
           /\ \/ status'[i] = status[i]
              \/ status[i] = "NONE" /\ status'[i] = "QUEUED"
              \/ Row(i) /\ status'[i] \in {"CANCELLED", "DELETED"}
              \/ /\ Row(i) /\ status'[i] = "QUEUED"
                 /\ \A f \in Files \ Done(i) : attempts'[i][f] = 0
           /\ \A f \in Files : attempts'[i][f] \in {attempts[i][f], 0}
           /\ attempts'[i] = attempts[i] \/ status'[i] \in {"QUEUED", "DELETED"}
    <2>1. CASE Create(r)
      <3>1. PICK i \in Jobs : status[i] = "NONE" /\ status' = [status EXCEPT ![i] = "QUEUED"]
        BY <2>1 DEF Create
      <3>2. QED BY <1>1, <2>1, <3>1 DEF Create
    <2>2. CASE CancelQueued(r) BY <1>1, <2>2 DEF CancelQueued
    <2>3. CASE RetryWrite(r) BY <1>1, <2>3 DEF RetryWrite, Done
    <2>4. CASE DeleteRow(r) BY <1>1, <2>4 DEF DeleteRow
    <2>5. CASE ~(Create(r) \/ CancelQueued(r) \/ RetryWrite(r) \/ DeleteRow(r))
      BY <2>5 DEF UserAsks, CancelRead, RetryRead, DeleteRead, Handle, WakeReply, ReplyGone,
         CancelFiles, CancelRunning, CancelAbort, DeletePurge, RequestFault, rows
    <2>6. QED BY <2>1, <2>2, <2>3, <2>4, <2>5
  <1>8. QED BY <1>1, <1>2, <1>3, <1>4, <1>5, <1>6, <1>7

\* A run takes a slot with the job the drain claimed.
LEMMA StartRows ==
    ASSUME TypeOK, NEW s \in Slots, DrainStart(s)
    PROVE  /\ run[s].pc = "idle" /\ run'[s].pc = "load"
           /\ drain.pc = "claimed" /\ drain.job \in Jobs /\ run'[s].job = drain.job
           /\ \A t \in Slots : t # s => run'[t] = run[t]
           /\ drain'.pc \in {"seek", "idle"}
           /\ UNCHANGED <<status, fileStatus, attempts, whole, scanned, req, phase, restarts, faults>>
  <1> DEFINE g == [NoRun EXCEPT !.pc = "load", !.job = drain.job]
  <1>1. g.pc = "load" /\ g.job = drain.job BY DEF NoRun
  <1>2. run' = [run EXCEPT ![s] = g] /\ drain.pc = "claimed" /\ drain.job \in Jobs
    BY DEF DrainStart, TypeOK, ProcessOK
  <1> HIDE DEF g
  <1>3. run \in [Slots -> RunRecord] BY DEF TypeOK, RunsOK
  <1>4. run[s].pc = "idle" /\ drain'.pc \in {"seek", "idle"}
        /\ UNCHANGED <<status, fileStatus, attempts, whole, scanned, req, phase, restarts, faults>>
    BY DEF DrainStart, Live, Loop, AtRest, rows, world, life, used
  <1>5. QED BY <1>1, <1>2, <1>3, <1>4

\* A run gives its slot back.
LEMMA EndRows ==
    ASSUME TypeOK, NEW s \in Slots, RunEnd(s)
    PROVE  /\ run[s].pc = "leave" /\ run'[s].pc = "idle"
           /\ \A t \in Slots : t # s => run'[t] = run[t]
           /\ UNCHANGED <<status, fileStatus, attempts, whole, scanned, drain, req, phase,
                          restarts, faults>>
  <1>1. run \in [Slots -> RunRecord] BY DEF TypeOK, RunsOK
  <1>2. QED BY <1>1, FreshTypes DEF RunEnd, At, rows, world, life, used

\* The process ends: nothing is at work, and what is outside stays.
LEMMA EndsRows ==
    ASSUME TypeOK, ProcessEnds
    PROVE  /\ \A s \in Slots : run'[s].pc = "idle"
           /\ \A j \in Jobs : ~Purging(j)'
           /\ drain'.pc = "idle" /\ phase' = "jobs"
           /\ restarts \in Nat /\ restarts' = restarts + 1
           /\ UNCHANGED <<status, fileStatus, attempts, whole, scanned, faults>>
  <1>1. NoReq.pc = "idle" BY DEF NoReq
  <1>2. \A r \in Requests : req'[r].pc = "idle" BY <1>1 DEF ProcessEnds
  <1>3. QED BY <1>2, FreshTypes DEF ProcessEnds, Purging, TypeOK, rows, world

\* The invariant behind RunningIsOwned, of which other proofs need more.
LEMMA OwnedAlways == Spec => []OwnInv
  BY InitOwn, NextOwn, TypeCorrect, PTL DEF Spec

\* The kinds of steps there are.
LEMMA Kinds ==
    ASSUME [Next]_vars
    PROVE  \/ \E s \in Slots : Works(s) \/ RunEnd(s) \/ DrainStart(s)
           \/ \E r \in Requests : UserAsks(r) \/ Handle(r) \/ RequestFault(r)
           \/ Quiet \/ ProcessEnds
  <1>1. CASE \E s \in Slots : \/ Advance(s) \/ Transfer(s) \/ RecordFault(s) \/ RunFault(s)
                              \/ FailedFault(s)
    BY <1>1 DEF Advance, Transfer, Works
  <1>2. CASE Drain \/ DrainFault \/ Immediate BY <1>2 DEF Drain, Quiet
  <1>3. CASE Boot \/ Shutdown \/ Exit \/ Crash BY <1>3 DEF Quiet, Exit, Crash
  <1>4. CASE UNCHANGED vars BY <1>4 DEF Quiet
  <1>5. QED BY <1>1, <1>2, <1>3, <1>4 DEF Next

-----------------------------------------------------------------------------
(* What is recorded is in place.  A job without a row records nothing,     *)
(* and a run about to record a file has it in place, unless somebody       *)
(* purges the job's files at the same time.                                *)

Intact(j) == restarts = 0 /\ faults = 0 /\ ~Purging(j) /\ Row(j)

PlaceInv ==
    /\ \A j \in Jobs : ~Row(j) => Done(j) = {}
    /\ \A j \in Jobs : Intact(j) => Done(j) \subseteq whole[j]
    /\ \A s \in Slots, j \in Jobs :
         run[s].pc = "record" /\ run[s].job = j /\ Intact(j) => run[s].file \in whole[j]

LEMMA WorksPlace ==
    ASSUME TypeOK, OwnInv, PlaceInv, NEW s \in Slots, Works(s)
    PROVE  PlaceInv'
  <1>1. \A i \in Jobs : \/ Done(i)' \subseteq Done(i)
                        \/ /\ run[s].job = i /\ run[s].pc = "record" /\ Row(i)
                           /\ Done(i)' = Done(i) \cup {run[s].file}
    BY WorksFiles DEF Step
  <1>2. /\ \A i \in Jobs : whole[i] \subseteq whole'[i]
        /\ run'[s].pc = "record" => run[s].file \in whole'[run[s].job]
    BY WorksWhole
  <1>3. /\ Alone(s) /\ (run'[s].pc = "record" => run'[s].file = run[s].file)
    BY WorksMoves DEF Move, Step, Keeps
  <1>4. \A i \in Jobs : Row(i)' <=> Row(i)
    <2>1. status \in [Jobs -> JobStatus] BY DEF TypeOK, RowsOK
    <2>2. run[s].pc = "verdict" => run[s].verdict \in Terminal BY DEF OwnInv
    <2>3. QED BY <2>1, <2>2, WorksNamed, WorksStatus DEF Step, Terminal, Row
  <1>5. \A i \in Jobs : Intact(i)' => Intact(i)
    BY <1>4, WorksUsed DEF Intact, Purging
  <1>6. \A i \in Jobs : ~Row(i)' => Done(i)' = {}
    BY <1>1, <1>4 DEF PlaceInv
  <1>7. \A i \in Jobs : Intact(i)' => Done(i)' \subseteq whole'[i]
    BY <1>1, <1>2, <1>5 DEF PlaceInv
  <1>8. ASSUME NEW t \in Slots, NEW i \in Jobs,
               run'[t].pc = "record", run'[t].job = i, Intact(i)'
        PROVE  run'[t].file \in whole'[i]
    <2>1. CASE t = s BY <1>2, <1>3, <1>8, <2>1 DEF Alone
    <2>2. CASE t # s
      <3>1. run'[t] = run[t] /\ Intact(i) BY <1>3, <1>5, <1>8, <2>2 DEF Alone
      <3>2. QED BY <1>2, <1>8, <3>1 DEF PlaceInv
    <2>3. QED BY <2>1, <2>2
  <1>9. QED BY <1>6, <1>7, <1>8 DEF PlaceInv

LEMMA NextPlace == TypeOK /\ OwnInv /\ PlaceInv /\ [Next]_vars => PlaceInv'
  <1> SUFFICES ASSUME TypeOK, OwnInv, PlaceInv, [Next]_vars PROVE PlaceInv' OBVIOUS
  <1>1. ASSUME NEW s \in Slots, Works(s) PROVE PlaceInv' BY <1>1, WorksPlace
  <1>2. ASSUME NEW s \in Slots, RunEnd(s) \/ DrainStart(s) PROVE PlaceInv'
    <2>1. /\ UNCHANGED <<status, fileStatus, whole, req, restarts, faults>>
          /\ run'[s].pc # "record" /\ \A t \in Slots : t # s => run'[t] = run[t]
      BY <1>2, EndRows, StartRows
    <2>2. \A i \in Jobs : (Row(i)' <=> Row(i)) /\ (Intact(i)' <=> Intact(i)) /\ Done(i)' = Done(i)
      BY <2>1 DEF Intact, Row, Purging, Done
    <2>3. QED BY <2>1, <2>2 DEF PlaceInv
  <1>3. ASSUME NEW r \in Requests, UserAsks(r) \/ Handle(r) \/ RequestFault(r) PROVE PlaceInv'
    <2>1. \A i \in Jobs : Intact(i)' => status[i] = "NONE" \/ (Intact(i) /\ whole'[i] = whole[i])
      BY <1>3, RequestRows DEF Intact, Row
    <2>2. \A i \in Jobs :
             \/ status'[i] = "DELETED" /\ Done(i)' = {}
             \/ Done(i)' = Done(i) /\ (status'[i] = "DELETED" => status[i] = "DELETED")
      BY <1>3, RequestRows
    <2>3. \A i \in Jobs : ~Row(i)' => ~Row(i) \/ status'[i] = "DELETED"
      BY <1>3, RequestRows DEF Row
    <2>4. \A t \in Slots : /\ run'[t].pc = run[t].pc /\ run'[t].job = run[t].job
                           /\ run'[t].file = run[t].file
      BY <1>3, RequestRows DEF AllAlike, Alike, Keeps
    <2>5. \A i \in Jobs : ~Row(i)' => Done(i)' = {}
      BY <2>2, <2>3 DEF PlaceInv, Row
    <2>6. \A i \in Jobs : Intact(i)' => Done(i)' \subseteq whole'[i]
      BY <2>1, <2>2 DEF PlaceInv, Row
    <2>7. ASSUME NEW t \in Slots, NEW i \in Jobs,
                 run'[t].pc = "record", run'[t].job = i, Intact(i)'
          PROVE  run'[t].file \in whole'[i]
      <3>1. Live(t) /\ run[t].job = i BY <2>4, <2>7 DEF Live
      <3>2. status[i] # "NONE" BY <3>1 DEF OwnInv
      <3>3. QED BY <2>1, <2>4, <2>7, <3>2 DEF PlaceInv
    <2>8. QED BY <2>5, <2>6, <2>7 DEF PlaceInv
  <1>4. CASE Quiet
    <2>1. \A i \in Jobs : /\ (Row(i)' <=> Row(i)) /\ Done(i)' = Done(i)
                          /\ Intact(i)' => Intact(i)
      BY <1>4, QuietRows DEF Intact, Row, Purging
    <2>2. \A t \in Slots : /\ run'[t].pc = run[t].pc /\ run'[t].job = run[t].job
                           /\ run'[t].file = run[t].file
      BY <1>4, QuietRows DEF AllAlike, Alike, Keeps
    <2>3. whole' = whole BY <1>4, QuietRows
    <2>4. QED BY <2>1, <2>2, <2>3 DEF PlaceInv
  <1>5. CASE ProcessEnds
    <2>1. restarts' # 0 /\ \A t \in Slots : run'[t].pc # "record"
      BY <1>5, EndsRows
    <2>2. \A i \in Jobs : (Row(i)' <=> Row(i)) /\ Done(i)' = Done(i)
      BY <1>5, EndsRows DEF Row, Done
    <2>3. QED BY <2>1, <2>2 DEF PlaceInv, Intact
  <1>6. QED BY <1>1, <1>2, <1>3, <1>4, <1>5, Kinds

LEMMA PlacedAlways == Spec => []PlaceInv
  <1>1. Init => PlaceInv
    <2> SUFFICES ASSUME Init PROVE PlaceInv OBVIOUS
    <2>1. \A j \in Jobs : ~Row(j) /\ Done(j) = {} BY DEF Init, Row, Done
    <2>2. \A s \in Slots : run[s].pc = "idle" BY FreshTypes DEF Init
    <2>3. QED BY <2>1, <2>2 DEF PlaceInv
  <1>2. QED BY <1>1, NextPlace, TypeCorrect, OwnedAlways, PTL DEF Spec

\* A file recorded as COMPLETED is in place, whatever runs, requests and purges
\* interleave, for as long as nothing failed and the process did not end.
THEOREM RecordedInPlace == Spec => []RecordedIsWhole
  <1>1. TypeOK /\ PlaceInv => RecordedIsWhole
    <2> SUFFICES ASSUME TypeOK, PlaceInv, NEW j \in Jobs, ~(restarts > 0 \/ faults > 0)
                 PROVE  Done(j) \subseteq whole[j] \/ Purging(j)
      BY DEF RecordedIsWhole, Purging
    <2>1. restarts = 0 /\ faults = 0 BY DEF TypeOK
    <2>2. QED BY <2>1 DEF PlaceInv, Intact
  <1>2. QED BY <1>1, PlacedAlways, TypeCorrect, PTL

-----------------------------------------------------------------------------
(* What was recorded is announced.  Until then some run of the job is      *)
(* still to decide whether anything landed, or has decided that it did.    *)

Early == Working \ {"sweep", "verdict", "crashed"}
WillScan(s) ==
    run[s].pc \in Early \/ (run[s].pc \in {"sweep", "verdict", "post"} /\ run[s].landed)
Announced(j) == Done(j) \cap whole[j] \subseteq scanned[j]

ScanInv ==
    restarts = 0 /\ faults = 0 =>
        \A j \in Jobs : Row(j) => \/ Announced(j)
                                  \/ \E s \in Slots : run[s].job = j /\ WillScan(s)

\* A run keeps its promise, unless it finds that nothing landed, or fulfils it.
LEMMA PromiseKept ==
    ASSUME TypeOK, NEW s \in Slots, Works(s), WillScan(s), Row(run[s].job), faults' = faults
    PROVE  \/ WillScan(s)'
           \/ run[s].pc = "tally" /\ Done(run[s].job) = {}
           \/ Step(s, {"post"}, "leave") /\ run[s].landed
  <1>1. Move(s) /\ faults \in Nat /\ faults' \in Nat BY WorksMoves, WorksUsed
  <1>2. CASE run[s].pc = "tally"
    <2>1. \/ run'[s].pc \in {"sweep", "verdict"} /\ run'[s].landed = Landed(Done(run[s].job))
          \/ run'[s].pc = "crashed" /\ (~Row(run[s].job) \/ faults' > faults)
      BY <1>1, <1>2 DEF Move, Step, Begun
    <2>2. run'[s].pc \in {"sweep", "verdict"} /\ run'[s].landed = Landed(Done(run[s].job))
      BY <1>1, <2>1
    <2>3. CASE Done(run[s].job) = {} BY <1>2, <2>3
    <2>4. CASE Done(run[s].job) # {} BY <2>2, <2>4 DEF WillScan, Landed
    <2>5. QED BY <2>3, <2>4
  <1>3. CASE run[s].pc \in Early \ {"tally"}
    <2>1. ~(Step(s, {"load"}, "leave") /\ ~Row(run[s].job))
          /\ ~(run'[s].pc = "crashed" /\ (~Row(run[s].job) \/ faults' > faults))
      BY <1>1
    <2>2. run'[s].pc \in Early
      BY <1>1, <1>3, <2>1 DEF Move, Step, Early, Working, Begun
    <2>3. QED BY <2>2 DEF WillScan
  <1>4. CASE run[s].pc \in {"sweep", "verdict", "post"} /\ run[s].landed
    <2>1. ~(run'[s].pc = "crashed" /\ (~Row(run[s].job) \/ faults' > faults)) BY <1>1
    <2>2. \/ run'[s].pc \in {"verdict", "post"} /\ run'[s].landed = run[s].landed
          \/ run[s].pc = "post" /\ run'[s].pc = "leave"
      BY <1>1, <1>4, <2>1 DEF Move, Step, Begun, Keeps
    <2>3. QED BY <1>4, <2>2 DEF WillScan, Step
  <1>5. QED BY <1>2, <1>3, <1>4 DEF WillScan

LEMMA WorksScan ==
    ASSUME TypeOK, ScanInv, NEW s \in Slots, Works(s)
    PROVE  ScanInv'
  <1>1. SUFFICES ASSUME restarts' = 0, faults' = 0, NEW i \in Jobs, Row(i)'
                 PROVE  Announced(i)' \/ \E t \in Slots : run'[t].job = i /\ WillScan(t)'
    BY DEF ScanInv
  <1>2. restarts = 0 /\ faults = 0 /\ faults' = faults BY <1>1, WorksUsed
  <1>3. Row(i)
    <2>1. status \in [Jobs -> JobStatus] BY DEF TypeOK, RowsOK
    <2>2. QED BY <1>1, <2>1, WorksNamed, WorksStatus DEF Row
  <1>4. Alone(s) /\ Move(s) BY WorksMoves
  <1>5. scanned[i] \subseteq scanned'[i] BY WorksScanned
  <1>6. CASE \E t \in Slots \ {s} : run[t].job = i /\ WillScan(t)
    BY <1>4, <1>6 DEF Alone, WillScan
  <1>7. CASE run[s].job = i /\ WillScan(s)
    <2>1. CASE WillScan(s)' BY <1>4, <1>7, <2>1 DEF Alone
    <2>2. CASE run[s].pc = "tally" /\ Done(run[s].job) = {}
      <3>1. Done(i) = {} BY <1>7, <2>2 DEF Done
      <3>2. Done(i)' = Done(i) BY <2>2, WorksFiles DEF Step, Begun
      <3>3. QED BY <3>1, <3>2 DEF Announced
    <2>3. CASE Step(s, {"post"}, "leave") /\ run[s].landed
      <3>1. whole'[i] \subseteq scanned'[i] BY <1>3, <1>7, <2>3, WorksScanned
      <3>2. QED BY <3>1 DEF Announced
    <2>4. Row(run[s].job) BY <1>3, <1>7
    <2>5. QED BY <1>2, <1>7, <2>1, <2>2, <2>3, <2>4, PromiseKept
  <1>8. CASE ~(\E t \in Slots : run[t].job = i /\ WillScan(t))
    <2>1. Announced(i) BY <1>2, <1>3, <1>8 DEF ScanInv
    <2>2. run[s].job = i => run[s].pc \notin Early BY <1>8 DEF WillScan
    <2>3. run[s].job = i => run[s].pc \notin {"probe", "record", "landing"} \cup Begun
      BY <2>2 DEF Early, Working, Begun
    <2>4. Done(i)' = Done(i) BY <2>3, WorksFiles DEF Step
    <2>5. whole'[i] = whole[i] BY <2>3, WorksWhole DEF Step
    <2>6. QED BY <1>5, <2>1, <2>4, <2>5 DEF Announced
  <1>9. QED BY <1>6, <1>7, <1>8

LEMMA NextScan == TypeOK /\ OwnInv /\ PlaceInv /\ ScanInv /\ [Next]_vars => ScanInv'
  <1> SUFFICES ASSUME TypeOK, OwnInv, PlaceInv, ScanInv, [Next]_vars PROVE ScanInv' OBVIOUS
  <1>1. ASSUME NEW s \in Slots, Works(s) PROVE ScanInv' BY <1>1, WorksScan
  <1>2. ASSUME NEW s \in Slots, RunEnd(s) \/ DrainStart(s) PROVE ScanInv'
    <2>1. /\ UNCHANGED <<status, fileStatus, whole, scanned, restarts, faults>>
          /\ run[s].pc \in {"idle", "leave"} /\ \A t \in Slots : t # s => run'[t] = run[t]
      BY <1>2, EndRows, StartRows
    <2>2. \A i \in Jobs : (Row(i)' <=> Row(i)) /\ (Announced(i)' <=> Announced(i))
      BY <2>1 DEF Row, Announced, Done
    <2>3. ~WillScan(s) BY <2>1 DEF WillScan, Early, Working
    <2>4. \A t \in Slots : WillScan(t) => run'[t] = run[t] /\ WillScan(t)'
      BY <2>1, <2>3 DEF WillScan
    <2>5. QED BY <2>1, <2>2, <2>4 DEF ScanInv
  <1>3. ASSUME NEW r \in Requests, UserAsks(r) \/ Handle(r) \/ RequestFault(r) PROVE ScanInv'
    <2>1. \A t \in Slots : WillScan(t) => run'[t].job = run[t].job /\ WillScan(t)'
      BY <1>3, RequestRows DEF AllAlike, Alike, Keeps, WillScan
    <2>2. restarts' = 0 /\ faults' = 0 => restarts = 0 /\ faults = 0
      BY <1>3, RequestRows
    <2>3. \A i \in Jobs : Row(i)' => /\ Row(i) \/ Done(i) = {}
                                     /\ Done(i)' = Done(i)
      BY <1>3, RequestRows DEF Row, PlaceInv
    <2>4. \A i \in Jobs : whole'[i] \subseteq whole[i] /\ scanned'[i] = scanned[i]
      BY <1>3, RequestRows
    <2>5. \A i \in Jobs : Row(i)' /\ Announced(i) => Announced(i)'
      BY <2>3, <2>4 DEF Announced
    <2>6. \A i \in Jobs : Done(i) = {} => Announced(i) BY DEF Announced
    <2>7. QED BY <2>1, <2>2, <2>3, <2>5, <2>6 DEF ScanInv
  <1>4. CASE Quiet
    <2>1. \A i \in Jobs : (Row(i)' <=> Row(i)) /\ Done(i)' = Done(i)
      BY <1>4, QuietRows DEF Row
    <2>2. \A i \in Jobs : Announced(i)' <=> Announced(i)
      BY <1>4, <2>1, QuietRows DEF Announced
    <2>3. \A t \in Slots : WillScan(t) => run'[t].job = run[t].job /\ WillScan(t)'
      BY <1>4, QuietRows DEF AllAlike, Alike, Keeps, WillScan
    <2>4. restarts' = 0 /\ faults' = 0 => restarts = 0 /\ faults = 0
      BY <1>4, QuietRows
    <2>5. QED BY <2>1, <2>2, <2>3, <2>4 DEF ScanInv
  <1>5. CASE ProcessEnds BY <1>5, EndsRows DEF ScanInv
  <1>6. QED BY <1>1, <1>2, <1>3, <1>4, <1>5, Kinds

\* When nothing runs a finished job any more, the media server was told of
\* every file it recorded and that is still there: whoever recorded one has
\* come past its post-processing since, for every number of concurrent runs.
THEOREM AnnouncedWhenDone == Spec => []ScannedWhenDone
  <1>1. Init => ScanInv
    <2> SUFFICES ASSUME Init PROVE ScanInv OBVIOUS
    <2>1. \A j \in Jobs : ~Row(j) BY DEF Init, Row
    <2>2. QED BY <2>1 DEF ScanInv
  <1>2. OwnInv /\ ScanInv => ScannedWhenDone
    <2> SUFFICES ASSUME ScanInv, NEW j \in Jobs, status[j] \in Terminal, restarts = 0, faults = 0,
                        \A s \in Slots : Live(s) => run[s].job # j
                 PROVE  Announced(j)
      BY DEF ScannedWhenDone, Announced
    <2>1. Row(j) BY DEF Row, Terminal
    <2>2. \A s \in Slots : WillScan(s) => Live(s) BY DEF WillScan, Live, Early, Working
    <2>3. QED BY <2>1, <2>2 DEF ScanInv
  <1>3. QED BY <1>1, <1>2, NextScan, PlacedAlways, TypeCorrect, OwnedAlways, PTL DEF Spec

-----------------------------------------------------------------------------
(* With one job at a time: what a run has ahead of it is not recorded yet. *)
(* It read the rows when it began, and nobody else records files of its    *)
(* job; a second run of the same job would.                                *)

LEMMA OthersIdle ==
    ASSUME IInv, Concurrency = 1, NEW s \in Slots, Works(s), NEW t \in Slots, t # s
    PROVE  run[t].pc = "idle" /\ run'[t] = run[t]
  <1>1. TypeOK BY DEF IInv
  <1>2. Live(s) BY <1>1, WorksNamed DEF Live
  <1>3. LiveSlots = {s} BY <1>2, OnlyOne
  <1>4. run'[t] = run[t] BY <1>1, WorksMoves DEF Alone
  <1>5. QED BY <1>3, <1>4 DEF LiveSlots, Live

\* A file that is tried again is not recorded.
LEMMA BackoffUndone ==
    ASSUME TypeOK, NEW s \in Slots, Works(s), Step(s, Begun, "backoff"),
           NEW i \in Jobs, run[s].job = i
    PROVE  run[s].file \notin Done(i)'
  <1> DEFINE f == run[s].file
  <1>1. /\ fileStatus \in [Jobs -> [Files -> FileStatus]] /\ f \in Files
        /\ run \in [Slots -> RunRecord]
    BY Named DEF TypeOK, RowsOK, RunsOK, Step, Begun, HasFile
  <1>2. Caught(s)
    <2>1. CASE RunFault(s) BY <2>1, GotoKeeps DEF RunFault, Step
    <2>2. CASE RunRowGone(s) BY <2>2, GotoKeeps DEF RunRowGone, Step
    <2>3. CASE RunTotals(s) BY <2>3, NextFileLeaves DEF RunTotals, Step
    <2>4. CASE FetchSkip(s) \/ FetchDump(s) \/ FetchEnd(s) \/ FetchRename(s) \/ RunRecordDone(s)
      BY <2>4, GotoKeeps DEF FetchSkip, FetchDump, FetchEnd, FetchRename, RunRecordDone, Step
    <2>5. CASE ~(RunFault(s) \/ RunRowGone(s) \/ RunTotals(s) \/ FetchSkip(s) \/ FetchDump(s) \/ FetchEnd(s)
                 \/ FetchRename(s) \/ RunRecordDone(s))
      BY <2>5 DEF Works, RunLoad, RunCheck, RunReject, RunBegin, FetchThrow, RecordFault,
         BackoffOver, RunTally, RunSweep, RunVerdict, RunPost, RunFailed, FailedFault, At, Step,
         Begun
    <2>6. QED BY <2>1, <2>2, <2>3, <2>4, <2>5
  <1>3. \E st \in FileStatus \ {"COMPLETED"} : SetFile(i, f, st)
    <2>1. CASE Goto(s, "crashed") BY <2>1, GotoKeeps DEF Step
    <2>2. CASE NextFile(s) BY <2>2, NextFileLeaves DEF Step
    <2>3. CASE \E st \in {"CANCELLED", "PENDING"} : SetFile(run[s].job, f, st)
      BY <2>3 DEF FileStatus
    <2>4. QED BY <1>2, <2>1, <2>2, <2>3 DEF Caught
  <1>4. QED BY <1>1, <1>3 DEF SetFile, Done

Looping == {"next"} \cup HasFile
Ahead(s) == IF run[s].pc = "recorded" THEN run[s].todo \ {run[s].file} ELSE run[s].todo

StickInv ==
    \A s \in Slots, j \in Jobs : run[s].job = j =>
        /\ run[s].pc \in Looping => Ahead(s) \cap Done(j) = {}
        /\ run[s].pc \in HasFile => run[s].file \in run[s].todo

LEMMA WorksStick ==
    ASSUME IInv, Concurrency = 1, StickInv, NEW s \in Slots, Works(s)
    PROVE  StickInv'
  <1>1. TypeOK BY DEF IInv
  <1>2. Alone(s) /\ Move(s) BY <1>1, WorksMoves
  <1>3. SUFFICES ASSUME NEW i \in Jobs, run[s].job = i
                 PROVE  /\ run'[s].pc \in Looping => Ahead(s)' \cap Done(i)' = {}
                        /\ run'[s].pc \in HasFile => run'[s].file \in run'[s].todo
    BY <1>2, OthersIdle DEF StickInv, Alone, Looping, HasFile
  <1>4. /\ run[s].pc \in Looping => Ahead(s) \cap Done(i) = {}
        /\ run[s].pc \in HasFile => run[s].file \in run[s].todo
    BY <1>3 DEF StickInv
  <1>5. run'[s].pc \in HasFile => run'[s].file \in run'[s].todo
    BY <1>2, <1>4 DEF Move, Step, Keeps, Begun, HasFile, Working
  <1>6. ASSUME run'[s].pc \in Looping PROVE Ahead(s)' \cap Done(i)' = {}
    <2>1. Done(i)' \subseteq Done(i) \/ Step(s, {"record"}, "recorded")
      BY <1>1, WorksFiles
    <2>2. CASE Step(s, {"load"}, "next")
      <3>1. run'[s].todo = Files \ Done(run[s].job) BY <1>2, <2>2 DEF Move, Step, Begun, Working
      <3>2. Ahead(s)' = Files \ Done(i) BY <1>3, <2>2, <3>1 DEF Ahead, Step
      <3>3. QED BY <2>1, <2>2, <3>2 DEF Step
    <2>3. CASE Step(s, {"record"}, "recorded")
      <3>1. Keeps(s) BY <1>2, <2>3 DEF Move, Step, Begun, Working
      <3>2. Ahead(s)' = Ahead(s) \ {run[s].file} BY <2>3, <3>1 DEF Ahead, Step, Keeps
      <3>3. Done(i)' \subseteq Done(i) \cup {run[s].file} BY <1>1, WorksFiles
      <3>4. run[s].pc \in Looping BY <2>3 DEF Step, Looping, HasFile
      <3>5. QED BY <1>4, <3>2, <3>3, <3>4
    <2>4. CASE Step(s, {"recorded"}, "backoff")
      <3>1. run[s].file \notin Done(i)' BY <1>1, <1>3, <2>4, BackoffUndone DEF Step, Begun
      <3>2. Ahead(s)' \subseteq Ahead(s) \cup {run[s].file}
        BY <1>2, <2>4 DEF Move, Step, Begun, Working, Ahead
      <3>3. Done(i)' \subseteq Done(i) BY <2>1, <2>4 DEF Step
      <3>4. run[s].pc \in Looping BY <2>4 DEF Step, Looping, HasFile
      <3>5. QED BY <1>4, <3>1, <3>2, <3>3, <3>4
    <2>5. CASE ~(Step(s, {"load"}, "next") \/ Step(s, {"record"}, "recorded")
                 \/ Step(s, {"recorded"}, "backoff"))
      <3>1. run[s].pc \in Looping /\ Ahead(s)' \subseteq Ahead(s)
        BY <1>2, <1>6, <2>5 DEF Move, Step, Keeps, Begun, Working, Looping, HasFile, Ahead
      <3>2. QED BY <1>4, <2>1, <2>5, <3>1
    <2>6. QED BY <2>2, <2>3, <2>4, <2>5
  <1>7. QED BY <1>5, <1>6

LEMMA NextStick ==
    ASSUME IInv, Concurrency = 1, StickInv, [Next]_vars
    PROVE  StickInv'
  <1>1. TypeOK BY DEF IInv
  <1>2. ASSUME NEW s \in Slots, Works(s) PROVE StickInv' BY <1>2, WorksStick
  <1>3. ASSUME NEW s \in Slots, RunEnd(s) \/ DrainStart(s) PROVE StickInv'
    <2>1. /\ \A i \in Jobs : Done(i)' = Done(i)
          /\ run'[s].pc \in {"idle", "load"} /\ \A t \in Slots : t # s => run'[t] = run[t]
      BY <1>1, <1>3, EndRows, StartRows DEF Done
    <2>2. \A t \in Slots : run'[t].pc \in Looping => run'[t] = run[t]
      BY <2>1 DEF Looping, HasFile
    <2>3. QED BY <2>1, <2>2 DEF StickInv, Ahead, Looping
  <1>4. ASSUME AllAlike, \A i \in Jobs : Done(i)' \subseteq Done(i) PROVE StickInv'
    <2>1. \A t \in Slots : /\ run'[t].pc = run[t].pc /\ run'[t].job = run[t].job
                           /\ run'[t].file = run[t].file /\ run'[t].todo = run[t].todo
                           /\ Ahead(t)' = Ahead(t)
      BY <1>4 DEF AllAlike, Alike, Keeps, Ahead
    <2>2. QED BY <1>4, <2>1 DEF StickInv
  <1>5. ASSUME NEW r \in Requests, UserAsks(r) \/ Handle(r) \/ RequestFault(r) PROVE StickInv'
    <2>1. \A i \in Jobs : Done(i)' \subseteq Done(i) BY <1>1, <1>5, RequestRows
    <2>2. AllAlike BY <1>1, <1>5, RequestRows
    <2>3. QED BY <1>4, <2>1, <2>2
  <1>6. CASE Quiet
    <2>1. AllAlike /\ \A i \in Jobs : Done(i)' \subseteq Done(i) BY <1>1, <1>6, QuietRows
    <2>2. QED BY <1>4, <2>1
  <1>7. CASE ProcessEnds BY <1>1, <1>7, EndsRows DEF StickInv, Looping, HasFile
  <1>8. QED BY <1>2, <1>3, <1>5, <1>6, <1>7, Kinds

LEMMA SticksAlways == ASSUME Concurrency = 1 PROVE Spec => []StickInv
  <1>1. Init => StickInv
    <2> SUFFICES ASSUME Init PROVE StickInv OBVIOUS
    <2>1. \A s \in Slots : run[s].pc = "idle" BY FreshTypes DEF Init
    <2>2. QED BY <2>1 DEF StickInv, Looping, HasFile
  <1>2. IInv /\ StickInv /\ [Next]_vars => StickInv' BY NextStick
  <1>3. QED BY <1>1, <1>2, Invariant, PTL DEF Spec

\* With one job at a time, a file that is recorded stays recorded while its row
\* exists, across restarts and retries, unless a database call just failed.
THEOREM FinishedFilesStick == ASSUME Concurrency = 1 PROVE Spec => FilesStick
  <1> DEFINE Stuck == \A j \in Jobs, f \in Files :
                        f \in Done(j) /\ status'[j] # "DELETED" /\ faults' = faults => f \in Done(j)'
  <1>1. IInv /\ StickInv /\ [Next]_vars => [Stuck]_vars
    <2> SUFFICES ASSUME IInv, StickInv, [Next]_vars, NEW j \in Jobs, NEW f \in Files,
                        f \in Done(j), status'[j] # "DELETED", faults' = faults
                 PROVE  f \in Done(j)'
      OBVIOUS
    <2>1. TypeOK BY DEF IInv
    <2>2. ASSUME NEW s \in Slots, Works(s) PROVE f \in Done(j)'
      <3>1. CASE Done(j)' = Done(j) BY <3>1
      <3>2. CASE /\ run[s].job = j /\ run[s].pc \in {"probe", "fetch", "dump", "landing"}
                 /\ Done(j)' = Done(j) \ {run[s].file}
        <4>1. run[s].file \in run[s].todo /\ run[s].todo \cap Done(j) = {}
          BY <3>2 DEF StickInv, Ahead, Looping, HasFile
        <4>2. QED BY <3>2, <4>1
      <3>3. QED BY <2>1, <2>2, <3>1, <3>2, WorksFiles
    <2>3. ASSUME NEW s \in Slots, RunEnd(s) \/ DrainStart(s) PROVE f \in Done(j)'
      BY <2>1, <2>3, EndRows, StartRows DEF Done
    <2>4. ASSUME NEW r \in Requests, UserAsks(r) \/ Handle(r) \/ RequestFault(r)
          PROVE  f \in Done(j)'
      BY <2>1, <2>4, RequestRows
    <2>5. CASE Quiet BY <2>1, <2>5, QuietRows
    <2>6. CASE ProcessEnds BY <2>1, <2>6, EndsRows DEF Done
    <2>7. QED BY <2>2, <2>3, <2>4, <2>5, <2>6, Kinds
  <1>2. QED BY <1>1, SticksAlways, Invariant, PTL DEF Spec, FilesStick

-----------------------------------------------------------------------------
(* With one job at a time: the verdict.  While a run is on its way to one, *)
(* its job has not ended, or was cancelled, retried or deleted under it;   *)
(* what it tallied stays true until it is written.                         *)

\* Nobody but the drain itself puts a job into its hands.
LEMMA WakeClaims == ASSUME Wake PROVE drain' = drain \/ drain'.pc # "claimed"
  BY DEF Wake, Loop, AtRest

LEMMA RequestClaims ==
    ASSUME NEW r \in Requests, UserAsks(r) \/ Handle(r) \/ RequestFault(r)
    PROVE  drain' = drain \/ drain'.pc # "claimed"
  <1>1. CASE WakeReply(r) BY <1>1, WakeClaims DEF WakeReply
  <1>2. CASE ~WakeReply(r)
    BY <1>2 DEF UserAsks, Create, CancelRead, RetryRead, DeleteRead, Handle, ReplyGone,
       CancelQueued, CancelFiles, CancelRunning, CancelAbort, RetryWrite, DeletePurge, DeleteRow,
       RequestFault, worker
  <1>3. QED BY <1>1, <1>2

LEMMA QuietClaims ==
    ASSUME TypeOK, Quiet
    PROVE  \/ drain' = drain \/ drain'.pc # "claimed"
           \/ /\ drain.pc = "found" /\ drain'.pc = "claimed" /\ drain'.job = drain.job
              /\ status[drain.job] = "QUEUED" /\ status'[drain.job] = "RUNNING"
  <1>1. CASE DrainClaim
    <2>1. status \in [Jobs -> JobStatus] /\ drain \in [pc : DrainPc, job : Jobs \cup {NoJob}]
          /\ drain.job \in Jobs
      BY <1>1 DEF TypeOK, RowsOK, ProcessOK, DrainClaim
    <2>2. QED BY <1>1, <2>1 DEF DrainClaim, MayClaim
  <1>2. CASE Immediate \/ BootUp BY <1>2, WakeClaims DEF Immediate, BootUp
  <1>3. CASE ~(DrainClaim \/ Immediate \/ BootUp)
    BY <1>3 DEF Quiet, DrainFind, DrainMissed, DrainLost, DrainFault, Boot, BootJobs, BootFiles,
       Shutdown, Loop, AtRest, vars, worker
  <1>4. QED BY <1>1, <1>2, <1>3

\* While the drain has a job to start, nothing runs.
LEMMA NobodyRuns ==
    ASSUME IInv, Concurrency = 1, drain.pc \in {"found", "claimed"}, NEW t \in Slots
    PROVE  run[t].pc = "idle"
  <1>1. running < 1 BY DEF IInv, SlotInv
  <1>2. ~Live(t) BY <1>1, OnlyOne
  <1>3. QED BY <1>2 DEF Live

Matches(st, done) ==
    /\ st = "COMPLETED" => done = Files
    /\ st = "PARTIAL" => done # {} /\ done # Files
    /\ st = "FAILED" => done = {} \/ faults > 0

Unended == {"RUNNING", "CANCELLED", "QUEUED", "DELETED"}

VerdictInv ==
    /\ \A j \in Jobs : Matches(status[j], Done(j))
    /\ \A s \in Slots, j \in Jobs : run[s].job = j =>
         /\ run[s].pc \in Working \ {"crashed"} => status[j] \in Unended
         /\ run[s].pc \in {"sweep", "verdict"} /\ Row(j) => Matches(run[s].verdict, Done(j))
    /\ \A j \in Jobs : drain.pc = "claimed" /\ drain.job = j => status[j] \in Unended

LEMMA WorksVerdict ==
    ASSUME IInv, OwnInv, Concurrency = 1, VerdictInv, NEW s \in Slots, Works(s)
    PROVE  VerdictInv'
  <1>1. TypeOK /\ status \in [Jobs -> JobStatus] BY DEF IInv, TypeOK, RowsOK
  <1>2. Alone(s) /\ Move(s) BY <1>1, WorksMoves
  <1>3. faults \in Nat /\ faults' \in Nat /\ faults' >= faults /\ drain' = drain
    BY <1>1, WorksUsed
  <1>4. run[s].job \in Jobs /\ Live(s) BY <1>1, WorksNamed DEF Live
  <1>5. drain'.pc # "claimed"
    <2>1. running = 1 BY <1>4, OnlyOne
    <2>2. QED BY <1>3, <2>1 DEF IInv, SlotInv
  <1>6. ASSUME NEW i \in Jobs PROVE Matches(status[i], Done(i))'
    <2>1. CASE status'[i] = status[i] /\ Done(i)' = Done(i)
      BY <1>3, <2>1 DEF VerdictInv, Matches
    <2>2. CASE status'[i] = status[i] /\ Done(i)' # Done(i)
      <3>1. run[s].job = i /\ run[s].pc \in {"probe"} \cup Begun
        BY <1>1, <2>2, WorksFiles DEF Step, Begun
      <3>2. status[i] \in Unended BY <3>1 DEF VerdictInv, Working, Begun
      <3>3. QED BY <2>2, <3>2 DEF Matches, Unended
    <2>3. CASE status'[i] # status[i]
      <3>1. run[s].job = i BY <1>1, <1>4, <2>3, WorksStatus
      <3>2. \/ run[s].pc = "verdict" /\ Row(run[s].job) /\ status'[i] = run[s].verdict
            \/ run[s].pc = "crashed" /\ Row(run[s].job) /\ status'[i] = "FAILED"
        BY <1>1, <1>4, <2>3, WorksStatus DEF Step
      <3>3. Done(i)' = Done(i) BY <1>1, <3>2, WorksFiles DEF Step, Begun
      <3>4. CASE run[s].pc = "verdict"
        <4>1. Matches(run[s].verdict, Done(i)) BY <3>1, <3>2, <3>4 DEF VerdictInv
        <4>2. QED BY <1>3, <3>2, <3>3, <3>4, <4>1 DEF Matches
      <3>5. CASE run[s].pc = "crashed"
        <4>1. faults > 0 BY <3>2, <3>5 DEF OwnInv
        <4>2. QED BY <1>3, <3>2, <3>5, <4>1 DEF Matches
      <3>6. QED BY <3>2, <3>4, <3>5
    <2>4. QED BY <2>1, <2>2, <2>3
  <1>7. ASSUME NEW i \in Jobs, run[s].job = i, run'[s].pc \in Working \ {"crashed"}
        PROVE  status'[i] \in Unended
    <2>1. run[s].pc \in Working \ {"crashed"} BY <1>2, <1>7 DEF Move, Step, Working, Begun
    <2>2. status' = status BY <1>1, <1>7, WorksStatus DEF Step, Working
    <2>3. QED BY <1>7, <2>1, <2>2 DEF VerdictInv
  <1>8. ASSUME NEW i \in Jobs, run[s].job = i, run'[s].pc \in {"sweep", "verdict"}, Row(i)'
        PROVE  Matches(run[s].verdict, Done(i))'
    <2>1. status' = status BY <1>1, <1>8, WorksStatus DEF Step
    <2>2. Row(i) BY <1>8, <2>1 DEF Row
    <2>3. run[s].pc \in {"tally", "sweep"} BY <1>2, <1>8 DEF Move, Step, Begun
    <2>4. Done(i)' = Done(i) BY <1>1, <2>3, WorksFiles DEF Step, Begun
    <2>5. CASE run[s].pc = "tally"
      <3>1. run'[s].verdict = VerdictOf(Done(run[s].job), run[s].cancelled)
        BY <1>2, <1>8, <2>5 DEF Move, Step, Begun
      <3>2. run'[s].verdict = VerdictOf(Done(i), run[s].cancelled) BY <1>8, <3>1
      <3>3. QED BY <2>4, <3>2 DEF VerdictOf, Matches
    <2>6. CASE run[s].pc = "sweep"
      <3>1. run'[s].verdict = run[s].verdict BY <1>2, <1>8, <2>6 DEF Move, Step, Keeps, Begun
      <3>2. Matches(run[s].verdict, Done(i)) BY <1>8, <2>2, <2>6 DEF VerdictInv
      <3>3. QED BY <1>3, <2>4, <3>1, <3>2 DEF Matches
    <2>7. QED BY <2>3, <2>5, <2>6
  <1>9. \A t \in Slots \ {s} : run'[t].pc = "idle" BY OthersIdle
  <1>10. ASSUME NEW t \in Slots, NEW i \in Jobs, run'[t].job = i
         PROVE  /\ run'[t].pc \in Working \ {"crashed"} => status'[i] \in Unended
                /\ run'[t].pc \in {"sweep", "verdict"} /\ Row(i)'
                     => Matches(run[t].verdict, Done(i))'
    <2>1. CASE t = s
      <3>1. run[s].job = i BY <1>2, <1>10, <2>1 DEF Alone
      <3>2. QED BY <1>7, <1>8, <2>1, <3>1
    <2>2. CASE t # s BY <1>9, <2>2 DEF Working
    <2>3. QED BY <2>1, <2>2
  <1>11. QED BY <1>5, <1>6, <1>10 DEF VerdictInv

LEMMA NextVerdict ==
    ASSUME IInv, OwnInv, Concurrency = 1, VerdictInv, [Next]_vars
    PROVE  VerdictInv'
  <1>1. TypeOK /\ status \in [Jobs -> JobStatus] BY DEF IInv, TypeOK, RowsOK
  <1>2. ASSUME NEW s \in Slots, Works(s) PROVE VerdictInv' BY <1>2, WorksVerdict
  <1>3. ASSUME NEW s \in Slots, RunEnd(s) \/ DrainStart(s) PROVE VerdictInv'
    <2>1. /\ UNCHANGED <<status, fileStatus, faults>>
          /\ drain' = drain \/ drain'.pc # "claimed"
          /\ \A t \in Slots : t # s => run'[t] = run[t]
          /\ run'[s].pc = "idle" \/ (run'[s].pc = "load" /\ drain.pc = "claimed"
                                      /\ run'[s].job = drain.job)
      BY <1>1, <1>3, EndRows, StartRows
    <2>2. \A i \in Jobs : Done(i)' = Done(i) /\ (Row(i)' <=> Row(i)) BY <2>1 DEF Done, Row
    <2>3. \A i \in Jobs : Matches(status[i], Done(i))' BY <2>1, <2>2 DEF VerdictInv, Matches
    <2>4. \A i \in Jobs : drain'.pc = "claimed" /\ drain'.job = i => status'[i] \in Unended
      BY <2>1 DEF VerdictInv
    <2>5. ASSUME NEW t \in Slots, NEW i \in Jobs, run'[t].job = i
          PROVE  /\ run'[t].pc \in Working \ {"crashed"} => status'[i] \in Unended
                 /\ run'[t].pc \in {"sweep", "verdict"} /\ Row(i)'
                      => Matches(run[t].verdict, Done(i))'
      <3>1. CASE t = s BY <2>1, <2>5, <3>1 DEF VerdictInv, Working
      <3>2. CASE t # s BY <2>1, <2>2, <2>5, <3>2 DEF VerdictInv, Matches
      <3>3. QED BY <3>1, <3>2
    <2>6. QED BY <2>3, <2>4, <2>5 DEF VerdictInv
  <1>4. ASSUME AllAlike, faults \in Nat, faults' \in Nat, faults' >= faults,
               \A i \in Jobs :
                 /\ status'[i] = status[i] \/ status'[i] \in Unended
                 /\ status[i] \in Unended => status'[i] \in Unended
                 /\ Done(i)' = Done(i) \/ status'[i] = "DELETED"
                 /\ Row(i)' => Row(i) \/ status[i] = "NONE",
               \A i \in Jobs : drain'.pc = "claimed" /\ drain'.job = i => status'[i] \in Unended
        PROVE  VerdictInv'
    <2>1. ASSUME NEW i \in Jobs PROVE Matches(status[i], Done(i))'
      <3>1. CASE status'[i] \in Unended BY <3>1 DEF Matches, Unended
      <3>2. CASE status'[i] = status[i] /\ Done(i)' = Done(i)
        BY <1>4, <3>2 DEF VerdictInv, Matches
      <3>3. QED BY <1>4, <3>1, <3>2 DEF Unended
    <2>2. ASSUME NEW t \in Slots, NEW i \in Jobs, run'[t].job = i
          PROVE  /\ run'[t].pc \in Working \ {"crashed"} => status'[i] \in Unended
                 /\ run'[t].pc \in {"sweep", "verdict"} /\ Row(i)'
                      => Matches(run[t].verdict, Done(i))'
      <3>1. run'[t].pc = run[t].pc /\ run[t].job = i /\ run'[t].verdict = run[t].verdict
        BY <1>4, <2>2 DEF AllAlike, Alike, Keeps
      <3>2. run'[t].pc \in Working \ {"crashed"} => status'[i] \in Unended
        BY <1>4, <3>1 DEF VerdictInv
      <3>3. ASSUME run'[t].pc \in {"sweep", "verdict"}, Row(i)'
            PROVE  Matches(run[t].verdict, Done(i))'
        <4>1. status[i] # "NONE" BY <3>1, <3>3 DEF OwnInv, Live
        <4>2. Row(i) /\ Done(i)' = Done(i) BY <1>4, <3>3, <4>1 DEF Row
        <4>3. Matches(run[t].verdict, Done(i)) BY <3>1, <3>3, <4>2 DEF VerdictInv
        <4>4. QED BY <1>4, <3>1, <4>2, <4>3 DEF Matches
      <3>4. QED BY <3>2, <3>3
    <2>3. QED BY <1>4, <2>1, <2>2 DEF VerdictInv
  <1>5. ASSUME NEW r \in Requests, UserAsks(r) \/ Handle(r) \/ RequestFault(r)
        PROVE  VerdictInv'
    <2>1. AllAlike /\ faults \in Nat /\ faults' \in Nat /\ faults' >= faults
      BY <1>1, <1>5, RequestRows
    <2>2. \A i \in Jobs :
            /\ status'[i] = status[i] \/ status'[i] \in Unended
            /\ status[i] \in Unended => status'[i] \in Unended
            /\ Done(i)' = Done(i) \/ status'[i] = "DELETED"
      BY <1>1, <1>5, RequestRows DEF Unended
    <2>3. \A i \in Jobs : Row(i)' => Row(i) \/ status[i] = "NONE"
      BY <1>1, <1>5, RequestRows DEF Row
    <2>4. \A i \in Jobs : drain'.pc = "claimed" /\ drain'.job = i => status'[i] \in Unended
      BY <1>5, <2>2, RequestClaims DEF VerdictInv
    <2>5. QED BY <1>4, <2>1, <2>2, <2>3, <2>4
  <1>6. CASE Quiet
    <2>1. AllAlike /\ faults \in Nat /\ faults' \in Nat /\ faults' >= faults
      BY <1>1, <1>6, QuietRows
    <2>2. \A i \in Jobs :
            /\ status'[i] = status[i] \/ status'[i] \in Unended
            /\ status[i] \in Unended => status'[i] \in Unended
            /\ Done(i)' = Done(i) \/ status'[i] = "DELETED"
      BY <1>1, <1>6, QuietRows DEF Unended
    <2>3. \A i \in Jobs : Row(i)' => Row(i) \/ status[i] = "NONE"
      BY <1>1, <1>6, QuietRows DEF Row
    <2>4. \A i \in Jobs : drain'.pc = "claimed" /\ drain'.job = i => status'[i] \in Unended
      BY <1>1, <1>6, <2>2, QuietClaims DEF VerdictInv, Unended
    <2>5. QED BY <1>4, <2>1, <2>2, <2>3, <2>4
  <1>7. CASE ProcessEnds
    <2>1. /\ \A t \in Slots : run'[t].pc = "idle"
          /\ drain'.pc = "idle" /\ UNCHANGED <<status, fileStatus, faults>>
      BY <1>1, <1>7, EndsRows
    <2>2. \A i \in Jobs : Done(i)' = Done(i) BY <2>1 DEF Done
    <2>3. \A i \in Jobs : Matches(status[i], Done(i))' BY <2>1, <2>2 DEF VerdictInv, Matches
    <2>4. QED BY <2>1, <2>3 DEF VerdictInv, Working
  <1>8. QED BY <1>2, <1>3, <1>5, <1>6, <1>7, Kinds

\* With one job at a time the verdict in the row of a job agrees with the rows
\* of its files, although cancel, retry and delete write to the same rows while
\* a run works its way to it, for every number of jobs, files and requests.
THEOREM VerdictsMatch == ASSUME Concurrency = 1 PROVE Spec => []VerdictMatchesFiles
  <1>1. Init => VerdictInv
    <2> SUFFICES ASSUME Init PROVE VerdictInv OBVIOUS
    <2>1. \A s \in Slots : run[s].pc = "idle" BY FreshTypes DEF Init
    <2>2. drain.pc = "idle" /\ \A j \in Jobs : status[j] = "NONE" BY FreshTypes DEF Init
    <2>3. QED BY <2>1, <2>2 DEF VerdictInv, Matches, Working
  <1>2. IInv /\ OwnInv /\ VerdictInv /\ [Next]_vars => VerdictInv' BY NextVerdict
  <1>3. VerdictInv => VerdictMatchesFiles BY DEF VerdictInv, VerdictMatchesFiles, Matches
  <1>4. QED BY <1>1, <1>2, <1>3, Invariant, OwnedAlways, PTL DEF Spec

-----------------------------------------------------------------------------
(* With one job at a time: how often a file is tried.  A run counts on its *)
(* own, from the rows it read when it began; the next run of the job goes  *)
(* on from the rows, so a job may be left to it only with attempts to      *)
(* spare, except by a restart or by the second of two failing calls.       *)

Budget == MaxAttempts + restarts + (faults \div 2)
\* ... before the last failing call.
Earlier == MaxAttempts + restarts + ((faults - 1) \div 2)

Fresh(j) == \A f \in Files \ Done(j) : attempts[j][f] < Budget

\* What a run has counted: within the budget, and no less than the rows say,
\* but for the transfer it is in.
Counted(s, j) ==
    \A f \in run[s].todo :
        /\ run[s].att[f] < Budget
        /\ attempts[j][f] <= run[s].att[f] + 1
        /\ \/ run[s].pc \in Begun /\ f = run[s].file
           \/ attempts[j][f] <= run[s].att[f]

RowsBudget ==
    /\ \A j \in Jobs, f \in Files : attempts[j][f] <= Budget
    /\ phase = "jobs" => \A j \in Jobs, f \in Files : attempts[j][f] < Budget
QueuedBudget ==
    \A j \in Jobs :
        /\ status[j] \in {"NONE", "QUEUED"}
        /\ \A s \in Slots : run[s].pc \in Working => run[s].job # j
        => Fresh(j)
ClaimedBudget == \A j \in Jobs : drain.pc = "claimed" /\ drain.job = j /\ Row(j) => Fresh(j)
RunsBudget ==
    \A s \in Slots, j \in Jobs : run[s].job = j =>
        /\ run[s].pc = "load" /\ Row(j) => Fresh(j)
        /\ run[s].pc \in Looping => Counted(s, j)
        /\ run[s].pc = "crashed" /\ Row(j) => \A f \in Files : attempts[j][f] <= Earlier

BudgetInv == RowsBudget /\ QueuedBudget /\ ClaimedBudget /\ RunsBudget

LEMMA Halves ==
    ASSUME NEW m \in Nat, NEW n \in Nat, m <= n
    PROVE  /\ m \div 2 \in Nat /\ n \div 2 \in Nat /\ m \div 2 <= n \div 2
           /\ m > 0 => /\ (m - 1) \div 2 \in Nat /\ (n - 1) \div 2 \in Nat
                       /\ (m - 1) \div 2 <= (n - 1) \div 2 /\ (m - 1) \div 2 <= m \div 2
                       /\ m < n => (m - 1) \div 2 < n \div 2
           /\ m < n => (n - 1) \div 2 \in Nat /\ m \div 2 <= (n - 1) \div 2
  OBVIOUS

LEMMA Sums ==
    ASSUME NEW m \in Nat, NEW x \in Nat, NEW y \in Nat, NEW u \in Nat, NEW v \in Nat, x <= y, u <= v
    PROVE  /\ m + x + u \in Nat /\ m + y + v \in Nat /\ m + x + u <= m + y + v /\ m <= m + x + u
           /\ x < y \/ u < v => m + x + u < m + y + v
  OBVIOUS

\* Failures and restarts only add to the budget.
LEMMA BudgetGrows ==
    ASSUME TypeOK, restarts' \in Nat, restarts' >= restarts, faults' \in Nat, faults' >= faults
    PROVE  /\ Budget \in Nat /\ Budget' \in Nat /\ Budget <= Budget' /\ MaxAttempts <= Budget
           /\ restarts' > restarts => Budget < Budget'
           /\ faults > 0 => /\ Earlier \in Int /\ Earlier' \in Int
                            /\ Earlier <= Earlier' /\ Earlier <= Budget
                            /\ faults' > faults => Earlier < Budget'
           /\ faults' > faults => Budget <= Earlier'
  <1>1. restarts \in Nat /\ faults \in Nat /\ MaxAttempts \in Nat
    BY AttemptsAssumption DEF TypeOK
  <1>2. /\ faults \div 2 \in Nat /\ faults' \div 2 \in Nat /\ faults \div 2 <= faults' \div 2
        /\ faults > 0 =>
             /\ (faults - 1) \div 2 \in Nat /\ (faults' - 1) \div 2 \in Nat
             /\ (faults - 1) \div 2 <= (faults' - 1) \div 2 /\ (faults - 1) \div 2 <= faults \div 2
             /\ faults' > faults => (faults - 1) \div 2 < faults' \div 2
        /\ faults' > faults => (faults' - 1) \div 2 \in Nat /\ faults \div 2 <= (faults' - 1) \div 2
    BY <1>1, Halves
  <1> DEFINE h == faults \div 2
             k == faults' \div 2
             g == (faults - 1) \div 2
             l == (faults' - 1) \div 2
  <1>3. /\ Budget = MaxAttempts + restarts + h /\ Budget' = MaxAttempts + restarts' + k
        /\ Earlier = MaxAttempts + restarts + g /\ Earlier' = MaxAttempts + restarts' + l
    BY DEF Budget, Earlier
  <1>4. /\ h \in Nat /\ k \in Nat /\ h <= k
        /\ faults > 0 => g \in Nat /\ l \in Nat /\ g <= l /\ g <= h /\ (faults' > faults => g < k)
        /\ faults' > faults => l \in Nat /\ h <= l
    BY <1>2
  <1> HIDE DEF h, k, g, l
  <1>5. /\ Budget \in Nat /\ Budget' \in Nat /\ Budget <= Budget' /\ MaxAttempts <= Budget
        /\ restarts' > restarts => Budget < Budget'
    BY <1>1, <1>3, <1>4, Sums
  <1>6. ASSUME faults > 0
        PROVE  /\ Earlier \in Int /\ Earlier' \in Int /\ Earlier <= Earlier' /\ Earlier <= Budget
               /\ faults' > faults => Earlier < Budget'
    <2>1. g \in Nat /\ l \in Nat /\ g <= l /\ g <= h /\ (faults' > faults => g < k) BY <1>4, <1>6
    <2>2. Earlier \in Nat /\ Earlier' \in Nat /\ Earlier <= Earlier' BY <1>1, <1>3, <2>1, Sums
    <2>3. Earlier <= Budget BY <1>1, <1>3, <1>4, <2>1, Sums
    <2>4. ASSUME faults' > faults PROVE Earlier < Budget'
      <3>1. g < k /\ g <= k /\ restarts <= restarts' BY <1>1, <1>4, <2>1, <2>4
      <3>2. QED BY <1>1, <1>3, <1>4, <2>1, <3>1, Sums
    <2>5. QED BY <2>2, <2>3, <2>4
  <1>7. ASSUME faults' > faults PROVE Budget <= Earlier'
    <2>1. l \in Nat /\ h <= l BY <1>4, <1>7
    <2>2. QED BY <1>1, <1>3, <1>4, <2>1, Sums
  <1>8. QED BY <1>5, <1>6, <1>7

\* A run that gives up leaves its row FAILED, unless the row is gone or the
\* failure of its own update is counted.
LEMMA CrashedLeaves ==
    ASSUME TypeOK, NEW s \in Slots, Works(s), run[s].pc = "crashed", NEW i \in Jobs, run[s].job = i
    PROVE  run'[s].pc = "leave" /\ (status'[i] = "FAILED" \/ ~Row(i) \/ faults' > faults)
  <1>1. status \in [Jobs -> JobStatus] /\ faults \in Nat BY DEF TypeOK, RowsOK
  <1>2. RunFailed(s) \/ FailedFault(s)
    BY DEF Works, RunLoad, RunCheck, RunReject, RunBegin, FetchSkip, FetchDump, FetchEnd, FetchRename,
       FetchThrow, RecordFault, BackoffOver, RunRecordDone, RunTotals, RunTally, RunSweep,
       RunVerdict, RunPost, RunRowGone, RunFault, At
  <1>3. run'[s].pc = "leave" BY <1>2, GotoKeeps DEF RunFailed, FailedFault
  <1>4. QED BY <1>1, <1>2, <1>3 DEF RunFailed, FailedFault

\* A job that may be left to another run stays one, as failures and restarts
\* only add to the budget.
LEMMA FreshStays ==
    ASSUME TypeOK, restarts' \in Nat, restarts' >= restarts, faults' \in Nat, faults' >= faults,
           NEW i \in Jobs, Fresh(i), Done(i) \subseteq Done(i)',
           \A f \in Files : attempts'[i][f] \in {attempts[i][f], 0}
    PROVE  Fresh(i)'
  <1>1. SUFFICES ASSUME NEW f \in Files, f \notin Done(i)' PROVE attempts'[i][f] < Budget'
    BY DEF Fresh
  <1>2. attempts[i][f] < Budget /\ attempts[i][f] \in Nat
    BY <1>1 DEF Fresh, TypeOK, RowsOK
  <1>3. Budget \in Nat /\ Budget' \in Nat /\ Budget <= Budget' BY BudgetGrows
  <1>4. QED BY <1>2, <1>3

\* Every job may, once the budget is more than anything spent.
LEMMA AllFresh ==
    ASSUME NEW i \in Jobs, \A f \in Files : attempts'[i][f] < Budget'
    PROVE  Fresh(i)'
  BY DEF Fresh

\* What a run counts as it goes on.
LEMMA WorksCounted ==
    ASSUME TypeOK, OwnInv, StickInv, BudgetInv, NEW s \in Slots, Works(s),
           NEW i \in Jobs, run[s].job = i, run'[s].pc \in Looping
    PROVE  Counted(s, i)'
  <1>1. SUFFICES ASSUME NEW f \in run'[s].todo
                 PROVE  /\ run'[s].att[f] < Budget'
                        /\ attempts'[i][f] <= run'[s].att[f] + 1
                        /\ \/ run'[s].pc \in Begun /\ f = run'[s].file
                           \/ attempts'[i][f] <= run'[s].att[f]
    BY DEF Counted
  <1>2. Move(s) BY WorksMoves
  <1>3. /\ Budget \in Nat /\ Budget' \in Nat /\ Budget <= Budget' /\ MaxAttempts <= Budget
        /\ MaxAttempts \in Nat
    BY WorksUsed, BudgetGrows, AttemptsAssumption
  <1>4. /\ run[s].todo \subseteq Files /\ run[s].att \in [Files -> Nat]
        /\ attempts \in [Jobs -> [Files -> Nat]]
    BY DEF TypeOK, RowsOK, RunsOK, RunRecord
  <1>5. /\ run[s].pc \in Looping => Counted(s, i)
        /\ run[s].pc = "load" /\ Row(i) => Fresh(i)
        /\ run[s].pc \in HasFile => run[s].file \in run[s].todo
    BY <1>1 DEF BudgetInv, RunsBudget, StickInv
  <1>6. CASE Step(s, {"load"}, "next")
    <2>1. Row(run[s].job) /\ run'[s].todo = Files \ Done(run[s].job)
          /\ run'[s].att = attempts[run[s].job]
      BY <1>2, <1>6 DEF Move, Step, Begun, Working
    <2>2. Row(i) /\ run'[s].todo = Files \ Done(i) /\ run'[s].att = attempts[i] BY <2>1
    <2>3. attempts[i][f] < Budget /\ f \in Files BY <1>1, <1>5, <1>6, <2>2 DEF Step, Fresh
    <2>4. attempts' = attempts BY <1>6, WorksAttempts DEF Step
    <2>5. QED BY <1>3, <1>4, <2>2, <2>3, <2>4
  <1>7. CASE run[s].pc \in Looping
    <2>1. f \in run[s].todo =>
            /\ run[s].att[f] < Budget /\ attempts[i][f] <= run[s].att[f] + 1
            /\ \/ run[s].pc \in Begun /\ f = run[s].file
               \/ attempts[i][f] <= run[s].att[f]
      BY <1>5, <1>7 DEF Counted
    <2>2. CASE Step(s, {"probe"}, "fetch")
      <3>1. Keeps(s) /\ attempts' = [attempts EXCEPT ![i][run[s].file] = @ + 1]
        BY <2>2, WorksAttempts
      <3>2. f \in run[s].todo /\ f \in Files /\ run'[s].att = run[s].att /\ run'[s].file = run[s].file
        BY <1>1, <1>4, <3>1 DEF Keeps
      <3>3. run[s].pc \notin Begun /\ run'[s].pc \in Begun BY <2>2 DEF Step, Begun
      <3>4. attempts'[i][f] = IF f = run[s].file THEN attempts[i][f] + 1 ELSE attempts[i][f]
        BY <1>4, <3>1, <3>2
      <3>5. attempts[i][f] \in Nat /\ run[s].att[f] \in Nat BY <1>4, <3>2
      <3>6. QED BY <1>3, <2>1, <3>2, <3>3, <3>4, <3>5
    <2>3. CASE Step(s, Begun, "backoff")
      <3>1. /\ MayRetryFile(run[s].att[run[s].file]) /\ run'[s].todo = run[s].todo
            /\ run'[s].att = [run[s].att EXCEPT ![run[s].file] = @ + 1]
        BY <1>2, <2>3 DEF Move, Step, Begun, Working
      <3>2. attempts' = attempts BY <2>3, WorksAttempts DEF Step, Begun
      <3>3. f \in run[s].todo /\ f \in Files BY <1>1, <1>4, <3>1
      <3>4. attempts[i][f] \in Nat /\ run[s].att[f] \in Nat BY <1>4, <3>3
      <3>5. CASE f = run[s].file
        <4>1. run'[s].att[f] = run[s].att[f] + 1 /\ run[s].att[f] + 1 < MaxAttempts
          BY <1>4, <3>1, <3>3, <3>5 DEF MayRetryFile
        <4>2. QED BY <1>3, <2>1, <3>2, <3>3, <3>4, <4>1
      <3>6. CASE f # run[s].file
        <4>1. run'[s].att[f] = run[s].att[f] BY <1>4, <3>1, <3>3, <3>6
        <4>2. QED BY <1>3, <2>1, <3>2, <3>3, <3>4, <3>6, <4>1
      <3>7. QED BY <3>5, <3>6
    <2>4. CASE ~Step(s, {"probe"}, "fetch") /\ ~Step(s, Begun, "backoff")
      <3>1. attempts' = attempts BY <2>4, WorksAttempts
      <3>2. /\ run'[s].att = run[s].att /\ f \in run[s].todo
            /\ \/ run[s].pc \notin Begun
               \/ run'[s].pc \in Begun /\ run'[s].file = run[s].file
               \/ f # run[s].file
        BY <1>1, <1>2, <1>7, <2>4 DEF Move, Step, Keeps, Begun, Working, Looping, HasFile
      <3>3. attempts[i][f] \in Nat /\ run[s].att[f] \in Nat BY <1>4, <3>2
      <3>4. QED BY <1>3, <2>1, <3>1, <3>2, <3>3
    <2>5. QED BY <2>2, <2>3, <2>4
  <1>8. run[s].pc \in Looping \/ Step(s, {"load"}, "next")
    BY <1>2 DEF Move, Step, Begun, Working, Looping, HasFile
  <1>9. QED BY <1>6, <1>7, <1>8

LEMMA WorksBudget ==
    ASSUME IInv, OwnInv, Concurrency = 1, StickInv, BudgetInv, NEW s \in Slots, Works(s)
    PROVE  BudgetInv'
  <1>1. TypeOK /\ status \in [Jobs -> JobStatus] /\ attempts \in [Jobs -> [Files -> Nat]]
    BY DEF IInv, TypeOK, RowsOK
  <1>2. Alone(s) /\ Move(s) BY <1>1, WorksMoves
  <1>3. /\ restarts' = restarts /\ restarts \in Nat
        /\ faults \in Nat /\ faults' \in Nat /\ faults' >= faults
        /\ drain' = drain /\ phase' = phase
    BY <1>1, WorksUsed
  <1>4. run[s].job \in Jobs /\ Live(s) /\ status[run[s].job] # "NONE"
    BY <1>1, WorksNamed DEF Live, OwnInv
  <1>5. /\ Budget \in Nat /\ Budget' \in Nat /\ Budget <= Budget' /\ MaxAttempts <= Budget
        /\ faults > 0 => /\ Earlier \in Int /\ Earlier' \in Int /\ Earlier <= Earlier'
                         /\ faults' > faults => Earlier < Budget'
        /\ faults' > faults => Budget <= Earlier'
    BY <1>1, <1>3, BudgetGrows
  <1>6. RowsBudget'
    <2>1. phase' # "jobs" BY <1>3, <1>4 DEF OwnInv, Live
    <2>2. ASSUME NEW i \in Jobs, NEW f \in Files PROVE attempts'[i][f] <= Budget'
      <3>1. attempts[i][f] <= Budget /\ attempts[i][f] \in Nat BY <1>1 DEF BudgetInv, RowsBudget
      <3>2. CASE attempts' = attempts BY <1>5, <3>1, <3>2
      <3>3. CASE /\ Step(s, {"probe"}, "fetch")
                 /\ attempts' = [attempts EXCEPT ![run[s].job][run[s].file] = @ + 1]
        <4>1. CASE i = run[s].job /\ f = run[s].file
          <5>1. attempts'[i][f] = attempts[i][f] + 1 BY <1>1, <3>3, <4>1
          <5>2. run[s].pc \in Looping /\ run[s].pc \in HasFile /\ run[s].pc \notin Begun
            BY <3>3 DEF Step, Looping, HasFile, Begun
          <5>3. f \in run[s].todo BY <4>1, <5>2 DEF StickInv
          <5>4. Counted(s, i) BY <4>1, <5>2 DEF BudgetInv, RunsBudget
          <5>5. run[s].att[f] < Budget /\ attempts[i][f] <= run[s].att[f]
            BY <5>2, <5>3, <5>4 DEF Counted
          <5>6. run[s].att[f] \in Nat BY <1>1 DEF TypeOK, RunsOK, RunRecord
          <5>7. QED BY <1>5, <3>1, <5>1, <5>5, <5>6
        <4>2. CASE ~(i = run[s].job /\ f = run[s].file)
          <5>1. attempts'[i][f] = attempts[i][f] BY <1>1, <3>3, <4>2
          <5>2. QED BY <1>5, <3>1, <5>1
        <4>3. QED BY <4>1, <4>2
      <3>4. QED BY <1>1, <3>2, <3>3, WorksAttempts
    <2>3. QED BY <2>1, <2>2 DEF RowsBudget
  <1>7. QueuedBudget'
    <2>1. SUFFICES ASSUME NEW i \in Jobs, status'[i] \in {"NONE", "QUEUED"},
                          \A t \in Slots : run'[t].pc \in Working => run'[t].job # i
                   PROVE  Fresh(i)'
      BY DEF QueuedBudget
    <2>2. ASSUME status'[i] = status[i], run[s].job = i => run[s].pc \notin Working
          PROVE  Fresh(i)'
      <3>1. \A t \in Slots : run[t].pc \in Working => run[t].job # i
        BY <1>2, <2>1, <2>2 DEF Alone
      <3>2. Fresh(i) BY <2>1, <2>2, <3>1 DEF BudgetInv, QueuedBudget
      <3>3. Done(i)' = Done(i)
        BY <1>1, <2>2, WorksFiles DEF Working, Begun, Step
      <3>4. attempts'[i] = attempts[i]
        BY <1>1, <1>4, <2>2, WorksAttempts DEF Working, Step
      <3>5. QED BY <1>1, <1>3, <3>2, <3>3, <3>4, FreshStays
    <2>3. CASE run[s].job # i
      <3>1. status'[i] = status[i] BY <1>1, <1>4, <2>3, WorksStatus
      <3>2. QED BY <2>2, <2>3, <3>1
    <2>4. CASE run[s].job = i
      <3>1. run'[s].pc \notin Working BY <1>2, <2>1, <2>4 DEF Alone
      <3>2. CASE run[s].pc = "crashed"
        <4>1. status'[i] # "FAILED" BY <2>1
        <4>2. status'[i] = status[i] BY <1>1, <2>4, <4>1, <3>2, WorksStatus DEF Step
        <4>3. Row(i) BY <1>4, <2>1, <2>4, <4>2 DEF Row
        <4>4. faults' > faults /\ faults > 0
          BY <1>1, <2>4, <3>2, <4>1, <4>3, CrashedLeaves DEF OwnInv
        <4>5. \A f \in Files : attempts[i][f] <= Earlier
          BY <2>4, <3>2, <4>3 DEF BudgetInv, RunsBudget
        <4>6. attempts' = attempts BY <1>1, <3>2, WorksAttempts DEF Step
        <4>7. \A f \in Files : attempts[i][f] \in Nat BY <1>1
        <4>8. QED BY <1>5, <4>4, <4>5, <4>6, <4>7, AllFresh
      <3>3. CASE run[s].pc = "post"
        <4>1. status' = status BY <1>1, <3>3, WorksStatus DEF Step
        <4>2. QED BY <2>2, <3>3, <4>1 DEF Working
      <3>4. CASE run[s].pc = "verdict"
        <4>1. run'[s].pc = "post" BY <1>2, <3>1, <3>4 DEF Move, Step, Working, Begun
        <4>2. run[s].verdict \in Terminal BY <3>4 DEF OwnInv
        <4>3. ~(RunRowGone(s) \/ RunFault(s)) BY <4>1, GotoKeeps, <1>1 DEF RunRowGone, RunFault
        <4>4. RunVerdict(s)
          BY <3>4, <4>3
             DEF Works, RunLoad, RunCheck, RunReject, RunBegin, FetchSkip, FetchDump, FetchEnd, FetchRename,
                 FetchThrow, RecordFault, BackoffOver, RunRecordDone, RunTotals, RunTally,
                 RunSweep, RunPost, RunFailed, FailedFault, At
        <4>5. status'[i] = run[s].verdict BY <1>1, <1>4, <2>4, <4>4 DEF RunVerdict
        <4>6. QED BY <2>1, <4>2, <4>5 DEF Terminal
      <3>5. CASE run[s].pc \notin {"crashed", "post", "verdict"}
        <4>1. status' = status BY <1>1, <3>5, WorksStatus DEF Step
        <4>2. ~Row(run[s].job) BY <1>2, <3>1, <3>5 DEF Move, Step, Working, Begun
        <4>3. QED BY <1>4, <2>1, <2>4, <4>1, <4>2 DEF Row
      <3>6. QED BY <3>2, <3>3, <3>4, <3>5
    <2>5. QED BY <2>3, <2>4
  <1>8. ClaimedBudget'
    <2>1. running = 1 BY <1>4, OnlyOne
    <2>2. QED BY <1>3, <2>1 DEF IInv, SlotInv, ClaimedBudget
  <1>9. RunsBudget'
    <2>1. ASSUME NEW i \in Jobs, run[s].job = i, run'[s].pc = "crashed", Row(i)', NEW f \in Files
          PROVE  attempts'[i][f] <= Earlier'
      <3>1. attempts' = attempts /\ attempts[i][f] \in Nat /\ attempts[i][f] <= Budget
        BY <1>1, <2>1, WorksAttempts DEF Step, BudgetInv, RowsBudget
      <3>2. status' = status BY <1>1, <2>1, WorksStatus DEF Step
      <3>3. Row(run[s].job) BY <2>1, <3>2 DEF Row
      <3>4. faults' > faults BY <1>2, <2>1, <3>3 DEF Move, Step, Begun
      <3>5. Earlier' \in Int
        <4>1. faults <= faults' /\ faults < faults' BY <1>3, <3>4
        <4>2. (faults' - 1) \div 2 \in Nat BY <1>3, <4>1, Halves
        <4>3. QED BY <1>3, <4>2, AttemptsAssumption DEF Earlier
      <3>6. QED BY <1>5, <3>1, <3>4, <3>5
    <2>2. run'[s].pc # "load" BY <1>2 DEF Move, Step, Begun
    <2>3. \A t \in Slots \ {s} : run'[t].pc = "idle" BY OthersIdle
    <2>4. ASSUME NEW t \in Slots, NEW i \in Jobs, run'[t].job = i
          PROVE  /\ run'[t].pc = "load" /\ Row(i)' => Fresh(i)'
                 /\ run'[t].pc \in Looping => Counted(t, i)'
                 /\ run'[t].pc = "crashed" /\ Row(i)' => \A f \in Files : attempts'[i][f] <= Earlier'
      <3>1. CASE t = s
        <4>1. run[s].job = i BY <1>2, <2>4, <3>1 DEF Alone
        <4>2. run'[s].pc \in Looping => Counted(s, i)' BY <1>1, <4>1, WorksCounted
        <4>3. run'[t].pc \in Looping => Counted(t, i)' BY <3>1, <4>2 DEF Counted
        <4>4. QED BY <2>1, <2>2, <3>1, <4>1, <4>3
      <3>2. CASE t # s BY <2>3, <3>2 DEF Looping, HasFile
      <3>3. QED BY <3>1, <3>2
    <2>5. QED BY <2>4 DEF RunsBudget
  <1>10. QED BY <1>6, <1>7, <1>8, <1>9 DEF BudgetInv

\* A step that leaves the runs where they are, and the rows of the files but
\* for counts set back, leaves the counting of the runs as it was.
LEMMA AlikeBudget ==
    ASSUME TypeOK, OwnInv, BudgetInv, AllAlike,
           restarts' \in Nat, restarts' >= restarts, faults' \in Nat, faults' >= faults,
           \A i \in Jobs : Row(i)' => status[i] = "NONE" \/ (Row(i) /\ Done(i)' = Done(i)),
           \A i \in Jobs : \A f \in Files : attempts'[i][f] \in {attempts[i][f], 0}
    PROVE  RunsBudget'
  <1>1. attempts \in [Jobs -> [Files -> Nat]] /\ run \in [Slots -> RunRecord]
    BY DEF TypeOK, RowsOK, RunsOK
  <1>2. /\ Budget \in Nat /\ Budget' \in Nat /\ Budget <= Budget'
        /\ faults > 0 => Earlier \in Int /\ Earlier' \in Int /\ Earlier <= Earlier'
    BY BudgetGrows
  <1>3. SUFFICES ASSUME NEW t \in Slots, NEW i \in Jobs, run'[t].job = i
                 PROVE  /\ run'[t].pc = "load" /\ Row(i)' => Fresh(i)'
                        /\ run'[t].pc \in Looping => Counted(t, i)'
                        /\ run'[t].pc = "crashed" /\ Row(i)' =>
                             \A f \in Files : attempts'[i][f] <= Earlier'
    BY DEF RunsBudget
  <1>4. run'[t].pc = run[t].pc /\ run[t].job = i /\ Keeps(t)
    BY <1>3 DEF AllAlike, Alike
  <1>5. ASSUME run'[t].pc # "idle", Row(i)' PROVE Row(i) /\ Done(i)' = Done(i)
    <2>1. status[i] # "NONE" BY <1>4, <1>5 DEF OwnInv, Live
    <2>2. QED BY <1>5, <2>1
  <1>6. ASSUME run'[t].pc = "load", Row(i)' PROVE Fresh(i)'
    <2>1. Row(i) /\ Done(i)' = Done(i) BY <1>5, <1>6
    <2>2. Fresh(i) BY <1>4, <1>6, <2>1 DEF BudgetInv, RunsBudget
    <2>3. QED BY <2>1, <2>2, FreshStays
  <1>7. ASSUME run'[t].pc \in Looping PROVE Counted(t, i)'
    <2>1. Counted(t, i) BY <1>4, <1>7 DEF BudgetInv, RunsBudget
    <2>2. ASSUME NEW f \in run'[t].todo
          PROVE  /\ run'[t].att[f] < Budget'
                 /\ attempts'[i][f] <= run'[t].att[f] + 1
                 /\ \/ run'[t].pc \in Begun /\ f = run'[t].file
                    \/ attempts'[i][f] <= run'[t].att[f]
      <3>1. f \in run[t].todo /\ run'[t].att[f] = run[t].att[f] /\ run'[t].file = run[t].file
        BY <1>4, <2>2 DEF Keeps
      <3>2. f \in Files /\ run[t].att[f] \in Nat /\ attempts[i][f] \in Nat
        BY <1>1, <3>1 DEF RunRecord
      <3>3. attempts'[i][f] \in Nat /\ attempts'[i][f] <= attempts[i][f] BY <3>2
      <3>4. /\ run[t].att[f] < Budget
            /\ attempts[i][f] <= run[t].att[f] + 1
            /\ \/ run[t].pc \in Begun /\ f = run[t].file
               \/ attempts[i][f] <= run[t].att[f]
        BY <2>1, <3>1 DEF Counted
      <3>5. run'[t].att[f] < Budget' BY <1>2, <3>1, <3>2, <3>4
      <3>6. attempts'[i][f] <= run'[t].att[f] + 1 BY <3>1, <3>2, <3>3, <3>4
      <3>7. \/ run'[t].pc \in Begun /\ f = run'[t].file
            \/ attempts'[i][f] <= run'[t].att[f]
        BY <1>4, <3>1, <3>2, <3>3, <3>4
      <3>8. QED BY <3>5, <3>6, <3>7
    <2>3. QED BY <2>2 DEF Counted
  <1>8. ASSUME run'[t].pc = "crashed", Row(i)', NEW f \in Files PROVE attempts'[i][f] <= Earlier'
    <2>1. Row(i) BY <1>5, <1>8
    <2>2. faults > 0 /\ attempts[i][f] <= Earlier
      BY <1>4, <1>8, <2>1 DEF OwnInv, BudgetInv, RunsBudget
    <2>3. attempts[i][f] \in Nat /\ attempts'[i][f] \in {attempts[i][f], 0} BY <1>1
    <2>4. QED BY <1>2, <2>2, <2>3
  <1>9. QED BY <1>6, <1>7, <1>8

LEMMA NextBudget ==
    ASSUME IInv, OwnInv, Concurrency = 1, StickInv, BudgetInv, [Next]_vars
    PROVE  BudgetInv'
  <1>1. /\ TypeOK /\ status \in [Jobs -> JobStatus] /\ attempts \in [Jobs -> [Files -> Nat]]
        /\ restarts \in Nat /\ faults \in Nat
        /\ drain.pc \in {"found", "claimed"} => drain.job \in Jobs
    BY DEF IInv, TypeOK, RowsOK, ProcessOK
  <1>2. ASSUME NEW s \in Slots, Works(s) PROVE BudgetInv' BY <1>2, WorksBudget
  <1>3. ASSUME NEW s \in Slots, RunEnd(s) \/ DrainStart(s) PROVE BudgetInv'
    <2>1. /\ UNCHANGED <<status, fileStatus, attempts, phase, restarts, faults>>
          /\ drain' = drain \/ drain'.pc # "claimed"
          /\ \A t \in Slots : t # s => run'[t] = run[t]
          /\ run[s].pc \in {"idle", "leave"}
          /\ run'[s].pc = "idle" \/ (run'[s].pc = "load" /\ drain.pc = "claimed"
                                      /\ run'[s].job = drain.job)
      BY <1>1, <1>3, EndRows, StartRows
    <2>2. Budget' = Budget /\ Earlier' = Earlier BY <2>1 DEF Budget, Earlier
    <2>3. \A i \in Jobs : /\ Row(i)' <=> Row(i)
                          /\ Fresh(i)' <=> Fresh(i)
      BY <2>1, <2>2 DEF Row, Fresh, Done
    <2>4. RowsBudget' BY <2>1, <2>2 DEF BudgetInv, RowsBudget
    <2>5. QueuedBudget'
      <3>1. ASSUME NEW i \in Jobs, status'[i] \in {"NONE", "QUEUED"},
                   \A t \in Slots : run'[t].pc \in Working => run'[t].job # i
            PROVE  Fresh(i)'
        <4>1. \A t \in Slots : run[t].pc \in Working => run[t].job # i
          BY <2>1, <3>1 DEF Working
        <4>2. QED BY <2>1, <2>3, <3>1, <4>1 DEF BudgetInv, QueuedBudget
      <3>2. QED BY <3>1 DEF QueuedBudget
    <2>6. ClaimedBudget' BY <2>1, <2>3 DEF BudgetInv, ClaimedBudget
    <2>7. ASSUME NEW t \in Slots, NEW i \in Jobs, run'[t].job = i
          PROVE  /\ run'[t].pc = "load" /\ Row(i)' => Fresh(i)'
                 /\ run'[t].pc \in Looping => Counted(t, i)'
                 /\ run'[t].pc = "crashed" /\ Row(i)' => \A f \in Files : attempts'[i][f] <= Earlier'
      <3>1. CASE t = s
        BY <2>1, <2>3, <2>7, <3>1 DEF BudgetInv, ClaimedBudget, Looping, HasFile
      <3>2. CASE t # s
        <4>1. run'[t] = run[t] BY <2>1, <3>2
        <4>2. Counted(t, i)' <=> Counted(t, i) BY <2>1, <2>2, <4>1 DEF Counted
        <4>3. QED BY <2>1, <2>2, <2>3, <2>7, <4>1, <4>2 DEF BudgetInv, RunsBudget
      <3>3. QED BY <3>1, <3>2
    <2>8. RunsBudget' BY <2>7 DEF RunsBudget
    <2>9. QED BY <2>4, <2>5, <2>6, <2>8 DEF BudgetInv
  <1>4. ASSUME NEW r \in Requests, UserAsks(r) \/ Handle(r) \/ RequestFault(r) PROVE BudgetInv'
    <2>1. /\ AllAlike /\ restarts' = restarts /\ phase' = phase
          /\ faults' \in Nat /\ faults' >= faults
      BY <1>1, <1>4, RequestRows
    <2>2. \A i \in Jobs, f \in Files : attempts'[i][f] \in {attempts[i][f], 0}
      BY <1>1, <1>4, RequestRows
    <2>3. \A i \in Jobs :
            /\ Done(i)' = Done(i) \/ status'[i] = "DELETED"
            /\ \/ status'[i] = status[i]
               \/ status[i] = "NONE" /\ status'[i] = "QUEUED"
               \/ status'[i] \in {"CANCELLED", "DELETED"}
               \/ status'[i] = "QUEUED" /\ \A f \in Files \ Done(i) : attempts'[i][f] = 0
      BY <1>1, <1>4, RequestRows
    <2>4. \A i \in Jobs : Row(i)' => status[i] = "NONE" \/ (Row(i) /\ Done(i)' = Done(i))
      BY <1>1, <1>4, RequestRows DEF Row
    <2>5. Budget \in Nat /\ Budget' \in Nat /\ Budget <= Budget' /\ 0 < Budget'
      BY <1>1, <2>1, BudgetGrows, AttemptsAssumption
    <2>6. RowsBudget'
      <3>1. ASSUME NEW i \in Jobs, NEW f \in Files
            PROVE  /\ attempts'[i][f] <= Budget'
                   /\ phase' = "jobs" => attempts'[i][f] < Budget'
        <4>1. attempts[i][f] \in Nat /\ attempts[i][f] <= Budget
              /\ (phase = "jobs" => attempts[i][f] < Budget)
          BY <1>1 DEF BudgetInv, RowsBudget
        <4>2. CASE attempts'[i][f] = 0 BY <2>5, <4>2
        <4>3. CASE attempts'[i][f] = attempts[i][f] BY <2>1, <2>5, <4>1, <4>3
        <4>4. QED BY <2>2, <4>2, <4>3
      <3>2. QED BY <3>1 DEF RowsBudget
    <2>7. QueuedBudget'
      <3>1. ASSUME NEW i \in Jobs, status'[i] \in {"NONE", "QUEUED"},
                   \A t \in Slots : run'[t].pc \in Working => run'[t].job # i
            PROVE  Fresh(i)'
        <4>1. \A t \in Slots : run[t].pc \in Working => run[t].job # i
          BY <2>1, <3>1 DEF AllAlike, Alike
        <4>2. Done(i)' = Done(i) BY <2>3, <3>1
        <4>3. CASE status[i] \in {"NONE", "QUEUED"}
          <5>1. Fresh(i) BY <4>1, <4>3 DEF BudgetInv, QueuedBudget
          <5>2. QED BY <1>1, <2>1, <2>2, <4>2, <5>1, FreshStays
        <4>4. CASE \A f \in Files \ Done(i) : attempts'[i][f] = 0
          BY <2>5, <4>2, <4>4 DEF Fresh
        <4>5. QED BY <2>3, <3>1, <4>3, <4>4
      <3>2. QED BY <3>1 DEF QueuedBudget
    <2>8. ClaimedBudget'
      <3>1. ASSUME NEW i \in Jobs, drain'.pc = "claimed", drain'.job = i, Row(i)' PROVE Fresh(i)'
        <4>1. drain' = drain BY <1>4, <3>1, RequestClaims
        <4>2. status[i] # "NONE" BY <3>1, <4>1 DEF OwnInv
        <4>3. Row(i) /\ Done(i)' = Done(i) BY <2>4, <3>1, <4>2
        <4>4. Fresh(i) BY <3>1, <4>1, <4>3 DEF BudgetInv, ClaimedBudget
        <4>5. QED BY <1>1, <2>1, <2>2, <4>3, <4>4, FreshStays
      <3>2. QED BY <3>1 DEF ClaimedBudget
    <2>9. RunsBudget' BY <1>1, <2>1, <2>2, <2>4, AlikeBudget
    <2>10. QED BY <2>6, <2>7, <2>8, <2>9 DEF BudgetInv
  <1>5. CASE Quiet
    <2>1. /\ AllAlike /\ restarts' = restarts /\ attempts' = attempts
          /\ faults' \in Nat /\ faults' >= faults
          /\ \A i \in Jobs : Done(i)' = Done(i)
      BY <1>1, <1>5, QuietRows
    <2>2. \A i \in Jobs : \/ status'[i] = status[i]
                          \/ status[i] = "QUEUED" /\ status'[i] = "RUNNING"
                          \/ status[i] = "RUNNING" /\ status'[i] = "QUEUED" /\ phase = "jobs"
      BY <1>1, <1>5, QuietRows
    <2>3. phase' = "jobs" => phase = "jobs"
      BY <1>5 DEF Quiet, DrainFind, DrainMissed, DrainClaim, DrainLost, DrainFault, Immediate,
         Boot, BootJobs, BootFiles, BootUp, Shutdown, vars, life
    <2>4. Budget \in Nat /\ Budget' \in Nat /\ Budget <= Budget' BY <1>1, <2>1, BudgetGrows
    <2>5. \A i \in Jobs : Fresh(i) => Fresh(i)' BY <1>1, <2>1, FreshStays
    <2>6. RowsBudget'
      <3>1. ASSUME NEW i \in Jobs, NEW f \in Files
            PROVE  /\ attempts'[i][f] <= Budget'
                   /\ phase' = "jobs" => attempts'[i][f] < Budget'
        <4>1. attempts[i][f] \in Nat /\ attempts[i][f] <= Budget
              /\ (phase = "jobs" => attempts[i][f] < Budget)
          BY <1>1 DEF BudgetInv, RowsBudget
        <4>2. QED BY <2>1, <2>3, <2>4, <4>1
      <3>2. QED BY <3>1 DEF RowsBudget
    <2>7. QueuedBudget'
      <3>1. ASSUME NEW i \in Jobs, status'[i] \in {"NONE", "QUEUED"},
                   \A t \in Slots : run'[t].pc \in Working => run'[t].job # i
            PROVE  Fresh(i)'
        <4>1. \A t \in Slots : run[t].pc \in Working => run[t].job # i
          BY <2>1, <3>1 DEF AllAlike, Alike
        <4>2. CASE status[i] \in {"NONE", "QUEUED"}
          BY <2>5, <4>1, <4>2 DEF BudgetInv, QueuedBudget
        <4>3. CASE phase = "jobs"
          <5>1. Fresh(i) BY <4>3 DEF BudgetInv, RowsBudget, Fresh
          <5>2. QED BY <2>5, <5>1
        <4>4. QED BY <2>2, <3>1, <4>2, <4>3
      <3>2. QED BY <3>1 DEF QueuedBudget
    <2>8. ClaimedBudget'
      <3>1. ASSUME NEW i \in Jobs, drain'.pc = "claimed", drain'.job = i, Row(i)' PROVE Fresh(i)'
        <4>1. CASE drain' = drain
          <5>1. Row(i) BY <2>2, <3>1 DEF Row
          <5>2. Fresh(i) BY <3>1, <4>1, <5>1 DEF BudgetInv, ClaimedBudget
          <5>3. QED BY <2>5, <5>2
        <4>2. CASE drain.pc = "found" /\ drain'.job = drain.job /\ status[drain.job] = "QUEUED"
          <5>1. \A t \in Slots : run[t].pc \notin Working BY <4>2, NobodyRuns DEF Working
          <5>2. Fresh(i) BY <3>1, <4>2, <5>1 DEF BudgetInv, QueuedBudget
          <5>3. QED BY <2>5, <5>2
        <4>3. QED BY <1>1, <1>5, <3>1, <4>1, <4>2, QuietClaims
      <3>2. QED BY <3>1 DEF ClaimedBudget
    <2>9. \A i \in Jobs : Row(i)' => status[i] = "NONE" \/ (Row(i) /\ Done(i)' = Done(i))
      BY <2>1, <2>2 DEF Row
    <2>10. RunsBudget' BY <1>1, <2>1, <2>9, AlikeBudget
    <2>11. QED BY <2>6, <2>7, <2>8, <2>10 DEF BudgetInv
  <1>6. CASE ProcessEnds
    <2>1. /\ \A t \in Slots : run'[t].pc = "idle"
          /\ drain'.pc = "idle" /\ restarts' = restarts + 1 /\ UNCHANGED <<attempts, faults>>
      BY <1>1, <1>6, EndsRows
    <2>2. restarts' \in Nat /\ restarts' >= restarts /\ restarts' > restarts
      BY <1>1, <2>1
    <2>3. Budget \in Nat /\ Budget' \in Nat /\ Budget < Budget' BY <1>1, <2>1, <2>2, BudgetGrows
    <2>4. \A i \in Jobs, f \in Files : attempts'[i][f] \in Nat /\ attempts'[i][f] < Budget'
      <3>1. ASSUME NEW i \in Jobs, NEW f \in Files
            PROVE  attempts'[i][f] \in Nat /\ attempts'[i][f] < Budget'
        <4>1. attempts[i][f] \in Nat /\ attempts[i][f] <= Budget
          BY <1>1 DEF BudgetInv, RowsBudget
        <4>2. QED BY <2>1, <2>3, <4>1
      <3>2. QED BY <3>1
    <2>5. \A i \in Jobs : Fresh(i)' BY <2>4, AllFresh
    <2>6. RowsBudget' BY <2>3, <2>4 DEF RowsBudget
    <2>7. QED BY <2>1, <2>5, <2>6
      DEF BudgetInv, QueuedBudget, ClaimedBudget, RunsBudget, Looping, HasFile
  <1>7. QED BY <1>2, <1>3, <1>4, <1>5, <1>6, Kinds

\* With one job at a time a file is never tried more often than configured,
\* plus once for every restart and for every two database calls that failed.
THEOREM AttemptsWithinBudget == ASSUME Concurrency = 1 PROVE Spec => []AttemptBudget
  <1>1. Init => BudgetInv
    <2> SUFFICES ASSUME Init PROVE BudgetInv OBVIOUS
    <2>1. restarts = 0 /\ faults = 0 /\ 0 \div 2 = 0 BY DEF Init
    <2>2. Budget = MaxAttempts + 0 + 0 BY <2>1 DEF Budget
    <2>3. 0 < Budget /\ Budget \in Nat BY <2>2, AttemptsAssumption
    <2>4. \A j \in Jobs, f \in Files : attempts[j][f] = 0 BY DEF Init
    <2>5. /\ \A s \in Slots : run[s].pc = "idle"
          /\ drain.pc = "idle"
      BY FreshTypes DEF Init
    <2>6. RowsBudget BY <2>3, <2>4 DEF RowsBudget
    <2>7. \A j \in Jobs : Fresh(j) BY <2>3, <2>4 DEF Fresh
    <2>8. QED BY <2>5, <2>6, <2>7
      DEF BudgetInv, QueuedBudget, ClaimedBudget, RunsBudget, Looping, HasFile
  <1>2. IInv /\ OwnInv /\ StickInv /\ BudgetInv /\ [Next]_vars => BudgetInv' BY NextBudget
  <1>3. BudgetInv => AttemptBudget BY DEF BudgetInv, RowsBudget, AttemptBudget, Budget
  <1>4. QED BY <1>1, <1>2, <1>3, Invariant, OwnedAlways, SticksAlways, PTL DEF Spec
=============================================================================
