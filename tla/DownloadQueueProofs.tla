------------------------- MODULE DownloadQueueProofs -------------------------
(***************************************************************************)
(* What is proved of DownloadQueue for every value of its constants.       *)
(***************************************************************************)
EXTENDS DownloadQueue, FiniteSetTheorems, TLAPS

-----------------------------------------------------------------------------
(* The inductive invariant: types, and the count of runs.  A drain that is *)
(* looking for a job or has one in hand found a slot free, and nobody else *)
(* can take it meanwhile.                                                  *)

SlotInv ==
    /\ running = Cardinality(LiveSlots)
    /\ running <= Concurrency
    /\ drain.pc \in {"seek", "found", "claimed"} => running < Concurrency

IInv == TypeOK /\ SlotInv

-----------------------------------------------------------------------------
(* Changing one run, one request.                                          *)

\* Which pcs are those of a run at work, and which of them carry a file.
LEMMA Pcs ==
    /\ \A pc \in Working : pc \in RunPc /\ pc # "idle"
    /\ \A pc \in {"load", "next", "tally", "sweep", "verdict", "crashed", "post", "leave"} :
         pc \in RunPc /\ pc # "idle" /\ pc \notin HasFile
    /\ HasFile \subseteq Working
  BY DEF RunPc, Working, HasFile

\* Putting a well-formed record that is still live in the place of a live one.
LEMMA RunSet ==
    ASSUME RunsOK, NEW s \in Slots, Live(s), NEW g, RunOK(g), g.pc # "idle",
           run' = [run EXCEPT ![s] = g]
    PROVE  RunsOK' /\ LiveSlots' = LiveSlots
  <1>1. RunsOK' BY DEF RunsOK, RunOK
  <1>2. \A t \in Slots : run'[t].pc # "idle" <=> run[t].pc # "idle" BY DEF RunsOK, Live
  <1>3. QED BY <1>1, <1>2 DEF LiveSlots, Live

\* A record whose pc alone moves, to one that carries no more than before.
LEMMA GotoOK ==
    ASSUME NEW g, RunOK(g), NEW pc \in RunPc, g.pc # "idle", pc \in HasFile => g.pc \in HasFile
    PROVE  RunOK([g EXCEPT !.pc = pc])
  BY DEF RunOK, RunRecord

\* The action of that name.
LEMMA GotoStep ==
    ASSUME TypeOK, NEW s \in Slots, Live(s), NEW pc \in RunPc \ {"idle"},
           pc \in HasFile => run[s].pc \in HasFile, Goto(s, pc)
    PROVE  RunsOK' /\ LiveSlots' = LiveSlots
  <1>1. RunsOK /\ RunOK(run[s]) BY DEF TypeOK, RunsOK
  <1> DEFINE g == [run[s] EXCEPT !.pc = pc]
  <1>2. RunOK(g) BY <1>1, GotoOK DEF Live
  <1>3. g.pc # "idle" BY <1>1 DEF RunOK, RunRecord
  <1>4. run' = [run EXCEPT ![s] = g] BY DEF Goto
  <1> HIDE DEF g
  <1>5. QED BY <1>1, <1>2, <1>3, <1>4, RunSet

\* Leaving a file for the next one.
LEMMA NextFileStep ==
    ASSUME TypeOK, NEW s \in Slots, Live(s), NextFile(s)
    PROVE  RunsOK' /\ LiveSlots' = LiveSlots
  <1>1. RunsOK /\ RunOK(run[s]) BY DEF TypeOK, RunsOK
  <1> DEFINE g == [run[s] EXCEPT !.pc = "next", !.file = NoFile, !.todo = @ \ {run[s].file}]
  <1>2. RunOK(g) /\ g.pc # "idle" BY <1>1, Pcs DEF RunOK, RunRecord, Live
  <1>4. run' = [run EXCEPT ![s] = g] BY DEF NextFile
  <1> HIDE DEF g
  <1>5. QED BY <1>1, <1>2, <1>4, RunSet

\* Stopping the transfers leaves the runs where they are.
LEMMA AbortedStep ==
    ASSUME TypeOK, NEW S, run' = Aborted(S)
    PROVE  RunsOK' /\ LiveSlots' = LiveSlots
  <1>1. \A s \in Slots : RunOK(run[s]) BY DEF TypeOK, RunsOK
  <1>2. \A s \in Slots : RunOK([run[s] EXCEPT !.aborted = TRUE])
    BY <1>1 DEF RunOK, RunRecord
  <1>3. \A s \in Slots : RunOK(run'[s]) BY <1>1, <1>2 DEF Aborted
  <1>4. run' \in [Slots -> RunRecord] BY <1>1, <1>2 DEF Aborted, RunOK
  <1>5. \A s \in Slots : run'[s].pc = run[s].pc BY <1>1 DEF Aborted, RunOK, RunRecord
  <1>6. QED BY <1>3, <1>4, <1>5 DEF RunsOK, LiveSlots, Live

\* Putting a well-formed request in the place of another.
LEMMA ReqSet ==
    ASSUME TypeOK, NEW r \in Requests, NEW q, ReqOK(q), req' = [req EXCEPT ![r] = q]
    PROVE  RequestsOK'
  BY DEF TypeOK, RequestsOK, ReqOK

LEMMA ReplyStep ==
    ASSUME TypeOK, NEW r \in Requests, Reply(r)
    PROVE  RequestsOK'
  <1>1. ReqOK(NoReq) BY DEF ReqOK, ReqRecord, ReqPc, NoReq
  <1>2. QED BY <1>1, ReqSet DEF Reply

LEMMA AnswerStep ==
    ASSUME TypeOK, NEW r \in Requests, req[r].pc # "idle", NEW pc \in ReqPc, Answer(r, pc)
    PROVE  RequestsOK'
  <1> DEFINE q == [req[r] EXCEPT !.pc = pc]
  <1>1. ReqOK(q) BY DEF TypeOK, RequestsOK, ReqOK, ReqRecord
  <1>2. req' = [req EXCEPT ![r] = q] BY DEF Answer
  <1> HIDE DEF q
  <1>3. QED BY <1>1, <1>2, ReqSet

LEMMA OpenStep ==
    ASSUME TypeOK, NEW r \in Requests, NEW j \in Jobs, NEW pc \in ReqPc, Open(r, pc, j)
    PROVE  RequestsOK'
  <1> DEFINE q == [NoReq EXCEPT !.pc = pc, !.job = j]
  <1>1. ReqOK(q) BY DEF ReqOK, ReqRecord, NoReq
  <1>2. req' = [req EXCEPT ![r] = q] BY DEF Open
  <1> HIDE DEF q
  <1>3. QED BY <1>1, <1>2, ReqSet

\* A wake-up leaves a well-formed drain, which holds a free slot if it seeks.
LEMMA WakeStep ==
    ASSUME IInv, Wake
    PROVE  /\ drain' \in [pc : DrainPc, job : Jobs \cup {NoJob}]
           /\ drain'.pc \in {"found", "claimed"} => drain'.job \in Jobs
           /\ drain'.pc \in {"seek", "found", "claimed"} => running < Concurrency
  <1>1. CASE stopped \/ drain.pc # "idle"
    BY <1>1 DEF IInv, TypeOK, ProcessOK, SlotInv, Wake
  <1>2. CASE ~(stopped \/ drain.pc # "idle")
    BY <1>2 DEF Wake, Loop, AtRest, HasSlot, DrainPc, NoJob
  <1>3. QED BY <1>1, <1>2

-----------------------------------------------------------------------------
(* Preservation: what a run does, short of its end.                        *)

\* Everything but the end of a run.
Works(s) ==
    \/ RunLoad(s) \/ RunCheck(s) \/ RunReject(s) \/ RunBegin(s) \/ FetchSkip(s)
    \/ FetchDump(s) \/ FetchEnd(s) \/ FetchRename(s) \/ FetchThrow(s) \/ RecordFault(s) \/ BackoffOver(s)
    \/ RunRecordDone(s) \/ RunTotals(s) \/ RunTally(s) \/ RunSweep(s) \/ RunVerdict(s)
    \/ RunPost(s) \/ RunRowGone(s) \/ RunFault(s) \/ RunFailed(s) \/ FailedFault(s)

\* A live run names a job, and one at work on a file names it.
LEMMA Named ==
    ASSUME TypeOK, NEW s \in Slots
    PROVE  /\ RunOK(run[s])
           /\ run[s].pc # "idle" => run[s].job \in Jobs
           /\ run[s].pc \in HasFile => run[s].file \in Files
  BY DEF TypeOK, RunsOK, RunOK

\* The catch of processFile.
LEMMA CaughtTypes ==
    ASSUME TypeOK, NEW s \in Slots, run[s].pc \in {"fetch", "dump", "landing", "record", "recorded"},
           Caught(s)
    PROVE  RowsOK' /\ RunsOK' /\ LiveSlots' = LiveSlots
  <1> DEFINE j == run[s].job
             f == run[s].file
             n == run[s].att[f]
  <1>1. RunOK(run[s]) /\ j \in Jobs /\ f \in Files /\ Live(s) BY Named DEF HasFile, Live
  <1>2. CASE ~Row(j) /\ Goto(s, "crashed") /\ UNCHANGED fileStatus
    BY <1>1, <1>2, GotoStep, Pcs DEF Caught, TypeOK, RowsOK
  <1>3. CASE /\ SetFile(j, f, "CANCELLED")
             /\ run' = [run EXCEPT ![s].pc = "tally", ![s].cancelled = TRUE]
    <2> DEFINE g == [run[s] EXCEPT !.pc = "tally", !.cancelled = TRUE]
    <2>1. RunOK(g) /\ g.pc # "idle" BY <1>1, Pcs DEF RunOK, RunRecord, Live
    <2>2. run' = [run EXCEPT ![s] = g] BY <1>3
    <2>3. RowsOK' BY <1>1, <1>3 DEF Caught, TypeOK, RowsOK, SetFile, FileStatus
    <2> HIDE DEF g
    <2>4. QED BY <1>1, <2>1, <2>2, <2>3, RunSet DEF TypeOK
  <1>4. CASE /\ SetFile(j, f, "PENDING")
             /\ run' = [run EXCEPT ![s].pc = "backoff", ![s].att[f] = n + 1]
    <2> DEFINE g == [run[s] EXCEPT !.pc = "backoff", !.att[f] = n + 1]
    <2>0. "backoff" \in RunPc /\ "backoff" # "idle" BY Pcs DEF HasFile
    <2>1. [run[s].att EXCEPT ![f] = n + 1] \in [Files -> Nat]
      BY <1>1 DEF RunOK, RunRecord
    <2>5. RunOK(g) /\ g.pc # "idle" BY <1>1, <2>0, <2>1 DEF RunOK, RunRecord, Live
    <2>2. run' = [run EXCEPT ![s] = g] BY <1>4
    <2>3. RowsOK' BY <1>1, <1>4 DEF Caught, TypeOK, RowsOK, SetFile, FileStatus
    <2> HIDE DEF g
    <2>4. QED BY <1>1, <2>5, <2>2, <2>3, RunSet DEF TypeOK
  <1>5. CASE SetFile(j, f, "FAILED") /\ NextFile(s)
    <2>1. RowsOK' BY <1>1, <1>5 DEF Caught, TypeOK, RowsOK, SetFile, FileStatus
    <2>2. QED BY <1>1, <1>5, <2>1, NextFileStep
  <1>6. QED BY <1>2, <1>3, <1>4, <1>5 DEF Caught

\* The records that finishJob and the loop over the files build.
LEMMA TallyTypes ==
    ASSUME TypeOK, NEW s \in Slots, RunTally(s)
    PROVE  RunsOK' /\ LiveSlots' = LiveSlots
  <1> DEFINE j == run[s].job
             g == [run[s] EXCEPT !.pc = IF run[s].cancelled THEN "sweep" ELSE "verdict",
                                 !.verdict = VerdictOf(Done(j), run[s].cancelled),
                                 !.landed = Landed(Done(j)),
                                 !.todo = {}, !.file = NoFile, !.att = NoRun.att]
  <1>1. RunOK(run[s]) /\ Live(s) BY Named DEF RunTally, At, Live
  <1>2. VerdictOf(Done(j), run[s].cancelled) \in Terminal BY DEF VerdictOf, Terminal
  <1>3. Landed(Done(j)) \in BOOLEAN /\ NoRun.att \in [Files -> Nat] BY DEF Landed, NoRun
  <1>4. g.pc \in RunPc /\ g.pc \notin HasFile /\ g.pc # "idle" BY <1>1, Pcs DEF RunOK, RunRecord
  <1>5. RunOK(g) BY <1>1, <1>2, <1>3, <1>4 DEF RunOK, RunRecord, Live
  <1>6. run' = [run EXCEPT ![s] = g] BY DEF RunTally
  <1> HIDE DEF g
  <1>7. QED BY <1>1, <1>4, <1>5, <1>6, RunSet DEF TypeOK

LEMMA LoadTypes ==
    ASSUME TypeOK, NEW s \in Slots, RunLoad(s)
    PROVE  RunsOK' /\ LiveSlots' = LiveSlots
  <1> DEFINE j == run[s].job
             g == [run[s] EXCEPT !.pc = "next", !.todo = Files \ Done(j), !.att = attempts[j]]
  <1>1. RunOK(run[s]) /\ Live(s) /\ j \in Jobs BY Named DEF RunLoad, At, Live
  <1>2. CASE run' = [run EXCEPT ![s] = g]
    <2>1. attempts[j] \in [Files -> Nat] BY <1>1 DEF TypeOK, RowsOK
    <2>2. RunOK(g) /\ g.pc # "idle" BY <1>1, <2>1, Pcs DEF RunOK, RunRecord
    <2> HIDE DEF g
    <2>3. QED BY <1>1, <1>2, <2>2, RunSet DEF TypeOK
  <1>3. CASE Goto(s, "leave") BY <1>1, <1>3, GotoStep, Pcs
  <1>4. QED BY <1>2, <1>3 DEF RunLoad

LEMMA CheckTypes ==
    ASSUME TypeOK, NEW s \in Slots, RunCheck(s)
    PROVE  RunsOK' /\ LiveSlots' = LiveSlots
  <1>1. RunOK(run[s]) /\ Live(s) BY Named DEF RunCheck, At, Live
  <1>2. ASSUME NEW f \in run[s].todo, run' = [run EXCEPT ![s].pc = "probe", ![s].file = f]
        PROVE  RunsOK' /\ LiveSlots' = LiveSlots
    <2> DEFINE g == [run[s] EXCEPT !.pc = "probe", !.file = f]
    <2>0. "probe" \in RunPc /\ "probe" # "idle" BY Pcs DEF HasFile
    <2>1. RunOK(g) /\ g.pc # "idle" BY <1>1, <2>0 DEF RunOK, RunRecord, Live
    <2>2. run' = [run EXCEPT ![s] = g] BY <1>2
    <2> HIDE DEF g
    <2>3. QED BY <1>1, <2>1, <2>2, RunSet DEF TypeOK
  <1>3. CASE run' = [run EXCEPT ![s].pc = "tally", ![s].cancelled = TRUE]
    <2> DEFINE g == [run[s] EXCEPT !.pc = "tally", !.cancelled = TRUE]
    <2>1. RunOK(g) /\ g.pc # "idle" BY <1>1, Pcs DEF RunOK, RunRecord, Live
    <2>2. run' = [run EXCEPT ![s] = g] BY <1>3
    <2> HIDE DEF g
    <2>3. QED BY <1>1, <2>1, <2>2, RunSet DEF TypeOK
  <1>4. CASE Goto(s, "tally") BY <1>1, <1>4, GotoStep, Pcs
  <1>5. QED BY <1>2, <1>3, <1>4 DEF RunCheck

\* A run at work changes rows and disk within their types, leaves the number of
\* runs alone, and does not touch the rest of the process.
LEMMA WorksTypes ==
    ASSUME TypeOK, NEW s \in Slots, Works(s)
    PROVE  /\ RowsOK' /\ WorldOK' /\ RunsOK' /\ LiveSlots' = LiveSlots
           /\ UNCHANGED <<running, drain, wakePending, aborts, req, life>>
           /\ restarts' \in Nat /\ faults' \in Nat
  <1> DEFINE j == run[s].job
             f == run[s].file
             Goal == /\ RowsOK' /\ WorldOK' /\ RunsOK' /\ LiveSlots' = LiveSlots
                     /\ UNCHANGED <<running, drain, wakePending, aborts, req, life>>
                     /\ restarts' \in Nat /\ faults' \in Nat
  <1>1. RunOK(run[s]) /\ (Live(s) => j \in Jobs) /\ (run[s].pc \in HasFile => f \in Files)
    BY Named DEF Live
  <1>2. RowsOK /\ WorldOK /\ restarts \in Nat /\ faults \in Nat BY DEF TypeOK
  <1>3. CASE RunLoad(s)
    BY <1>2, <1>3, LoadTypes DEF RunLoad, rows, RowsOK, world, WorldOK, used
  <1>4. CASE RunCheck(s)
    BY <1>2, <1>4, CheckTypes DEF RunCheck, rows, RowsOK, world, WorldOK, used
  <1>5. CASE RunReject(s)
    <2>1. Live(s) /\ j \in Jobs /\ f \in Files BY <1>1, <1>5 DEF RunReject, At, Live, HasFile
    <2>2. RowsOK' BY <1>2, <1>5, <2>1 DEF RunReject, RowsOK, SetFile, FileStatus
    <2>3. QED BY <1>2, <1>5, <2>1, <2>2, NextFileStep DEF RunReject, world, WorldOK, used
  <1>6. CASE RunBegin(s)
    <2>1. Live(s) /\ j \in Jobs /\ f \in Files BY <1>1, <1>6 DEF RunBegin, At, Live, HasFile
    <2>2. RowsOK' BY <1>2, <1>6, <2>1 DEF RunBegin, RowsOK, SetFile, FileStatus
    <2>3. RunsOK' /\ LiveSlots' = LiveSlots
      BY <1>6, <2>1, GotoStep, Pcs DEF RunBegin, At, HasFile
    <2>4. QED BY <1>2, <1>6, <2>2, <2>3 DEF RunBegin, world, WorldOK, used
  <1>7. CASE FetchSkip(s)
    <2>1. RunsOK' /\ LiveSlots' = LiveSlots
      BY <1>7, GotoStep, Pcs DEF FetchSkip, At, HasFile, Live
    <2>2. QED BY <1>2, <1>7, <2>1 DEF FetchSkip, rows, RowsOK, world, WorldOK, used
  <1>8. CASE FetchDump(s) \/ FetchEnd(s)
    <2>1. RunsOK' /\ LiveSlots' = LiveSlots
      BY <1>8, GotoStep, Pcs DEF FetchDump, FetchEnd, At, HasFile, Live
    <2>2. QED BY <1>2, <1>8, <2>1 DEF FetchDump, FetchEnd, rows, RowsOK, world, WorldOK, used
  <1>9. CASE FetchRename(s)
    <2>1. RunsOK' /\ LiveSlots' = LiveSlots
      BY <1>9, GotoStep, Pcs DEF FetchRename, At, HasFile, Live
    <2>2. j \in Jobs /\ f \in Files BY <1>1, <1>9 DEF FetchRename, At, Live, HasFile
    <2>3. WorldOK' BY <1>2, <1>9, <2>2 DEF FetchRename, WorldOK
    <2>4. QED BY <1>2, <1>9, <2>1, <2>3 DEF FetchRename, rows, RowsOK, used
  <1>10. CASE FetchThrow(s)
    <2>1. run[s].pc \in {"fetch", "dump", "landing", "record", "recorded"} /\ Caught(s)
      BY <1>10 DEF FetchThrow
    <2>2. RowsOK' /\ RunsOK' /\ LiveSlots' = LiveSlots BY <2>1, CaughtTypes
    <2>3. QED BY <1>2, <1>10, <2>1, <2>2 DEF FetchThrow, Caught, world, WorldOK, used
  <1>11. CASE RecordFault(s)
    <2>1. run[s].pc \in {"fetch", "dump", "landing", "record", "recorded"} /\ Caught(s)
      BY <1>11 DEF RecordFault
    <2>2. RowsOK' /\ RunsOK' /\ LiveSlots' = LiveSlots BY <2>1, CaughtTypes
    <2>3. QED BY <1>2, <1>11, <2>1, <2>2 DEF RecordFault, Caught, world, WorldOK
  <1>12. CASE BackoffOver(s)
    <2>1. RunsOK' /\ LiveSlots' = LiveSlots
      BY <1>12, GotoStep, Pcs DEF BackoffOver, At, HasFile, Live
    <2>2. QED BY <1>2, <1>12, <2>1 DEF BackoffOver, rows, RowsOK, world, WorldOK, used
  <1>13. CASE RunRecordDone(s)
    <2>1. Live(s) /\ j \in Jobs /\ f \in Files BY <1>1, <1>13 DEF RunRecordDone, At, Live, HasFile
    <2>2. RowsOK' BY <1>2, <1>13, <2>1 DEF RunRecordDone, RowsOK, SetFile, FileStatus
    <2>3. RunsOK' /\ LiveSlots' = LiveSlots
      BY <1>13, <2>1, GotoStep, Pcs DEF RunRecordDone, At, HasFile
    <2>4. QED BY <1>2, <1>13, <2>2, <2>3 DEF RunRecordDone, world, WorldOK, used
  <1>14. CASE RunTotals(s)
    <2>1. RunsOK' /\ LiveSlots' = LiveSlots BY <1>14, NextFileStep DEF RunTotals, At, Live
    <2>2. QED BY <1>2, <1>14, <2>1 DEF RunTotals, rows, RowsOK, world, WorldOK, used
  <1>15. CASE RunTally(s)
    BY <1>2, <1>15, TallyTypes DEF RunTally, rows, RowsOK, world, WorldOK, used
  <1>16. CASE RunSweep(s)
    <2>1. Live(s) /\ j \in Jobs BY <1>1, <1>16 DEF RunSweep, At, Live
    <2>2. Swept(j) \in [Files -> FileStatus] BY <1>2, <2>1 DEF Swept, RowsOK, FileStatus
    <2>3. RowsOK' BY <1>2, <1>16, <2>1, <2>2 DEF RunSweep, RowsOK
    <2>4. RunsOK' /\ LiveSlots' = LiveSlots BY <1>16, <2>1, GotoStep, Pcs DEF RunSweep
    <2>5. QED BY <1>2, <1>16, <2>3, <2>4 DEF RunSweep, world, WorldOK, used
  <1>17. CASE RunVerdict(s)
    <2>1. Live(s) /\ j \in Jobs BY <1>1, <1>17 DEF RunVerdict, At, Live
    <2>2. run[s].verdict \in JobStatus BY <1>1 DEF RunOK, RunRecord, JobStatus
    <2>3. RowsOK' BY <1>2, <1>17, <2>1, <2>2 DEF RunVerdict, RowsOK
    <2>4. RunsOK' /\ LiveSlots' = LiveSlots BY <1>17, <2>1, GotoStep, Pcs DEF RunVerdict
    <2>5. QED BY <1>2, <1>17, <2>3, <2>4 DEF RunVerdict, world, WorldOK, used
  <1>18. CASE RunPost(s)
    <2>1. Live(s) /\ j \in Jobs BY <1>1, <1>18 DEF RunPost, At, Live
    <2>2. WorldOK' BY <1>2, <1>18, <2>1 DEF RunPost, WorldOK
    <2>3. RunsOK' /\ LiveSlots' = LiveSlots BY <1>18, <2>1, GotoStep, Pcs DEF RunPost
    <2>4. QED BY <1>2, <1>18, <2>2, <2>3 DEF RunPost, rows, RowsOK, used
  <1>19. CASE RunRowGone(s)
    <2>1. RunsOK' /\ LiveSlots' = LiveSlots BY <1>19, GotoStep, Pcs DEF RunRowGone, Live
    <2>2. QED BY <1>2, <1>19, <2>1 DEF RunRowGone, rows, RowsOK, world, WorldOK, used
  <1>20. CASE RunFault(s)
    <2>1. RunsOK' /\ LiveSlots' = LiveSlots BY <1>20, GotoStep, Pcs DEF RunFault, Live
    <2>2. QED BY <1>2, <1>20, <2>1 DEF RunFault, rows, RowsOK, world, WorldOK
  <1>21. CASE RunFailed(s)
    <2>1. Live(s) /\ j \in Jobs BY <1>1, <1>21 DEF RunFailed, At, Live
    <2>2. RowsOK' BY <1>2, <1>21, <2>1 DEF RunFailed, RowsOK, JobStatus, Terminal
    <2>3. RunsOK' /\ LiveSlots' = LiveSlots BY <1>21, <2>1, GotoStep, Pcs DEF RunFailed
    <2>4. QED BY <1>2, <1>21, <2>2, <2>3 DEF RunFailed, world, WorldOK, used
  <1>22. CASE FailedFault(s)
    <2>1. RunsOK' /\ LiveSlots' = LiveSlots BY <1>22, GotoStep, Pcs DEF FailedFault, At, Live
    <2>2. QED BY <1>2, <1>22, <2>1 DEF FailedFault, rows, RowsOK, world, WorldOK
  <1>23. QED
    BY <1>3, <1>4, <1>5, <1>6, <1>7, <1>8, <1>9, <1>10, <1>11, <1>12, <1>13, <1>14, <1>15,
       <1>16, <1>17, <1>18, <1>19, <1>20, <1>21, <1>22 DEF Works

-----------------------------------------------------------------------------
(* Preservation: the drain, the end of a run, requests, boot and the end   *)
(* of the process.                                                         *)

\* Rows and disk within their types, and the bounds' counters.
Outside == RowsOK /\ WorldOK /\ restarts \in Nat /\ faults \in Nat

LEMMA LiveCount ==
    /\ IsFiniteSet(LiveSlots)
    /\ Cardinality(LiveSlots) \in Nat
    /\ \A s \in Slots \ LiveSlots : Cardinality(LiveSlots \cup {s}) = Cardinality(LiveSlots) + 1
    /\ \A s \in LiveSlots : /\ Cardinality(LiveSlots \ {s}) = Cardinality(LiveSlots) - 1
                            /\ Cardinality(LiveSlots) > 0
  <1>1. LiveSlots \subseteq Slots BY DEF LiveSlots
  <1>2. IsFiniteSet(LiveSlots) BY <1>1, SlotsAssumption, FS_Subset
  <1>3. Cardinality(LiveSlots) \in Nat BY <1>2, FS_CardinalityType
  <1>4. \A s \in Slots \ LiveSlots : Cardinality(LiveSlots \cup {s}) = Cardinality(LiveSlots) + 1
    BY <1>2, FS_AddElement
  <1>5. ASSUME NEW s \in LiveSlots
        PROVE  /\ Cardinality(LiveSlots \ {s}) = Cardinality(LiveSlots) - 1
               /\ Cardinality(LiveSlots) > 0
    <2>1. Cardinality(LiveSlots \ {s}) = Cardinality(LiveSlots) - 1
      BY <1>2, FS_RemoveElement
    <2>2. IsFiniteSet(LiveSlots \ {s}) /\ Cardinality(LiveSlots \ {s}) \in Nat
      BY <1>2, FS_RemoveElement, FS_CardinalityType
    <2>3. QED BY <1>3, <2>1, <2>2
  <1>6. QED BY <1>2, <1>3, <1>4, <1>5

\* The claimed job's run takes the slot the drain found.
LEMMA StartTypes ==
    ASSUME IInv, NEW s \in Slots, DrainStart(s)
    PROVE  IInv'
  <1> DEFINE g == [NoRun EXCEPT !.pc = "load", !.job = drain.job]
  <1>1. TypeOK /\ SlotInv /\ drain.job \in Jobs /\ ~Live(s)
    BY DEF IInv, TypeOK, ProcessOK, DrainStart
  <1>2. RunOK(g) /\ g.pc # "idle"
    BY <1>1, Pcs DEF RunOK, RunRecord, NoRun, NoJob, NoFile
  <1>3. run' = [run EXCEPT ![s] = g] BY DEF DrainStart
  <1> HIDE DEF g
  <1>4. RunsOK' BY <1>1, <1>2, <1>3 DEF TypeOK, RunsOK, RunOK
  <1>5. LiveSlots' = LiveSlots \cup {s}
    BY <1>1, <1>2, <1>3 DEF TypeOK, RunsOK, LiveSlots, Live
  <1>6. s \in Slots \ LiveSlots BY <1>1 DEF LiveSlots
  <1>7. running' = Cardinality(LiveSlots') BY <1>1, <1>5, <1>6, LiveCount DEF SlotInv, DrainStart
  <1>8. running < Concurrency BY <1>1 DEF SlotInv, DrainStart
  <1>9. drain' \in {[pc |-> "seek", job |-> NoJob], AtRest} /\
        (drain'.pc = "seek" => running' < Concurrency)
    BY DEF DrainStart, Loop, HasSlot, AtRest
  <1>10. ProcessOK'
    BY <1>1, <1>9 DEF DrainStart, TypeOK, ProcessOK, Registered, life, AtRest, DrainPc
  <1>11. SlotInv'
    BY <1>1, <1>7, <1>8, <1>9, ConcurrencyAssumption DEF SlotInv, DrainStart, AtRest, TypeOK, ProcessOK
  <1>12. QED
    BY <1>1, <1>4, <1>10, <1>11
       DEF IInv, TypeOK, DrainStart, rows, RowsOK, world, WorldOK, RequestsOK, used

\* The rest of the drain leaves the runs alone.
LEMMA DrainTypes ==
    ASSUME IInv, \/ DrainFind \/ DrainMissed \/ DrainClaim \/ DrainLost \/ DrainFault
    PROVE  IInv'
  <1>1. TypeOK /\ SlotInv BY DEF IInv
  <1>2. run' = run /\ running' = running /\ req' = req /\ LiveSlots' = LiveSlots
        /\ UNCHANGED <<world, life, aborts, wakePending, restarts>>
    BY DEF DrainFind, DrainMissed, DrainClaim, DrainLost, DrainFault, LiveSlots, Live, used
  <1>3. RowsOK' /\ faults' \in Nat
    <2>1. CASE DrainClaim
      BY <1>1, <2>1 DEF DrainClaim, TypeOK, RowsOK, JobStatus, used
    <2>2. CASE DrainFind \/ DrainMissed \/ DrainLost \/ DrainFault
      BY <1>1, <2>2
         DEF DrainFind, DrainMissed, DrainLost, DrainFault, TypeOK, RowsOK, rows, used
    <2>3. QED BY <2>1, <2>2
  <1>4. /\ drain' \in [pc : DrainPc, job : Jobs \cup {NoJob}]
        /\ drain'.pc \in {"found", "claimed"} => drain'.job \in Jobs
        /\ drain'.pc \in {"seek", "found", "claimed"} => running < Concurrency
    <2>1. CASE DrainFind BY <1>1, <2>1 DEF DrainFind, TypeOK, ProcessOK, SlotInv, DrainPc
    <2>2. CASE DrainClaim BY <1>1, <2>2 DEF DrainClaim, TypeOK, ProcessOK, SlotInv, DrainPc
    <2>3. CASE DrainLost BY <1>1, <2>3 DEF DrainLost, Loop, HasSlot, AtRest, DrainPc
    <2>4. CASE DrainMissed \/ DrainFault BY <2>4 DEF DrainMissed, DrainFault, AtRest, DrainPc
    <2>5. QED BY <2>1, <2>2, <2>3, <2>4
  <1>5. ProcessOK' BY <1>1, <1>2, <1>4 DEF TypeOK, ProcessOK, life
  <1>6. QED
    BY <1>1, <1>2, <1>3, <1>4, <1>5
       DEF IInv, TypeOK, SlotInv, world, WorldOK, RunsOK, RequestsOK

LEMMA ImmediateTypes ==
    ASSUME IInv, Immediate
    PROVE  IInv'
  <1>1. /\ drain' \in [pc : DrainPc, job : Jobs \cup {NoJob}]
        /\ drain'.pc \in {"found", "claimed"} => drain'.job \in Jobs
        /\ drain'.pc \in {"seek", "found", "claimed"} => running < Concurrency
    BY WakeStep DEF Immediate
  <1>2. ProcessOK' BY <1>1 DEF Immediate, IInv, TypeOK, ProcessOK, life
  <1>3. QED
    BY <1>1, <1>2 DEF Immediate, IInv, TypeOK, SlotInv, LiveSlots, Live, rows, RowsOK, world,
       WorldOK, RunsOK, RequestsOK, used

\* A run gives back the slot it had.
LEMMA EndTypes ==
    ASSUME IInv, NEW s \in Slots, RunEnd(s)
    PROVE  IInv'
  <1>1. TypeOK /\ SlotInv /\ Live(s) /\ run[s].job \in Jobs
    BY Named DEF IInv, RunEnd, At, Live
  <1>2. run' = [run EXCEPT ![s] = NoRun] /\ running' = running - 1 BY DEF RunEnd, FreeSlot
  <1>3. RunOK(NoRun) BY DEF RunOK, RunRecord, NoRun, RunPc, HasFile, NoJob, NoFile
  <1>4. RunsOK' BY <1>1, <1>2, <1>3 DEF TypeOK, RunsOK, RunOK
  <1>5. NoRun.pc = "idle" BY DEF NoRun
  <1>6. LiveSlots' = LiveSlots \ {s} /\ s \in LiveSlots
    BY <1>1, <1>2, <1>5 DEF TypeOK, RunsOK, LiveSlots, Live
  <1>7. running' = Cardinality(LiveSlots') /\ running' \in Nat /\ running' < running
    <2>1. running = Cardinality(LiveSlots) /\ running \in Nat
      BY <1>1 DEF SlotInv, TypeOK, ProcessOK
    <2>2. Cardinality(LiveSlots') = running - 1 /\ running > 0 BY <1>6, <2>1, LiveCount
    <2>3. QED BY <1>2, <2>1, <2>2
  <1>8. ProcessOK' BY <1>1, <1>7 DEF RunEnd, Forget, TypeOK, ProcessOK, life
  <1>9. SlotInv'
    BY <1>1, <1>7, ConcurrencyAssumption DEF RunEnd, SlotInv, TypeOK, ProcessOK
  <1>10. QED
    BY <1>1, <1>4, <1>8, <1>9
       DEF IInv, TypeOK, RunEnd, rows, RowsOK, world, WorldOK, RequestsOK, used

\* A request changes rows and disk within their types and aborts runs, but
\* neither starts nor ends one.
LEMMA HandleTypes ==
    ASSUME IInv, NEW r \in Requests, UserAsks(r) \/ Handle(r) \/ RequestFault(r)
    PROVE  IInv'
  <1> DEFINE j == req[r].job
             Quiet == UNCHANGED <<world, worker, life, used>>
  <1>1. TypeOK /\ SlotInv /\ ReqOK(req[r]) BY DEF IInv, TypeOK, RequestsOK
  <1>2. req[r].pc # "idle" => j \in Jobs BY <1>1 DEF ReqOK
  <1>3. ASSUME Quiet, RowsOK', RequestsOK' PROVE IInv'
    BY <1>1, <1>3 DEF IInv, TypeOK, SlotInv, LiveSlots, Live, world, WorldOK, worker,
       ProcessOK, RunsOK, life, used
  <1>4. ASSUME UNCHANGED rows PROVE RowsOK'
    BY <1>1, <1>4 DEF TypeOK, rows, RowsOK
  <1>5. CASE Create(r)
    <2>1. PICK i \in Jobs : Open(r, "created", i) /\ status' = [status EXCEPT ![i] = "QUEUED"]
                            /\ UNCHANGED <<cancelRequested, fileStatus, attempts>> /\ Quiet
      BY <1>5 DEF Create
    <2>2. RowsOK' BY <1>1, <2>1 DEF TypeOK, RowsOK, JobStatus
    <2>3. RequestsOK' BY <1>1, <2>1, OpenStep DEF ReqPc
    <2>4. QED BY <1>3, <2>1, <2>2, <2>3
  <1>6. CASE CancelRead(r)
    <2>1. PICK i \in Jobs, pc \in ReqPc : Open(r, pc, i) BY <1>6 DEF CancelRead, ReqPc
    <2>2. RequestsOK' BY <1>1, <2>1, OpenStep
    <2>3. QED BY <1>3, <1>4, <1>6, <2>2 DEF CancelRead
  <1>7. CASE RetryRead(r)
    <2>1. PICK i \in Jobs, pc \in ReqPc : Open(r, pc, i) BY <1>7 DEF RetryRead, ReqPc
    <2>2. RequestsOK' BY <1>1, <2>1, OpenStep
    <2>3. QED BY <1>3, <1>4, <1>7, <2>2 DEF RetryRead
  <1>8. CASE DeleteRead(r)
    <2>1. PICK i \in Jobs :
            \/ Open(r, "delete", i)
            \/ req' = [req EXCEPT ![r] = [pc |-> "purging", job |-> i, left |-> Files]]
      BY <1>8 DEF DeleteRead
    <2>2. ReqOK([pc |-> "purging", job |-> i, left |-> Files])
      BY DEF ReqOK, ReqRecord, ReqPc
    <2>3. RequestsOK' BY <1>1, <2>1, <2>2, OpenStep, ReqSet DEF ReqPc
    <2>4. QED BY <1>3, <1>4, <1>8, <2>3 DEF DeleteRead
  <1>9. CASE WakeReply(r)
    <2>1. RequestsOK' BY <1>1, <1>9, ReplyStep DEF WakeReply
    <2>2. /\ drain' \in [pc : DrainPc, job : Jobs \cup {NoJob}]
          /\ drain'.pc \in {"found", "claimed"} => drain'.job \in Jobs
          /\ drain'.pc \in {"seek", "found", "claimed"} => running < Concurrency
      BY <1>9, WakeStep DEF WakeReply
    <2>3. ProcessOK' BY <1>1, <1>9, <2>2 DEF WakeReply, TypeOK, ProcessOK, life
    <2>4. QED
      BY <1>1, <1>9, <2>1, <2>2, <2>3 DEF WakeReply, IInv, TypeOK, SlotInv, LiveSlots, Live,
         rows, RowsOK, world, WorldOK, RunsOK, used
  <1>10. CASE ReplyGone(r)
    <2>1. RequestsOK' BY <1>1, <1>10, ReplyStep DEF ReplyGone
    <2>2. QED BY <1>3, <1>4, <1>10, <2>1 DEF ReplyGone
  <1>11. CASE CancelQueued(r)
    <2>1. RequestsOK' BY <1>1, <1>11, AnswerStep DEF CancelQueued, ReqPc
    <2>2. RowsOK' BY <1>1, <1>2, <1>11 DEF CancelQueued, TypeOK, RowsOK, JobStatus, Terminal
    <2>3. QED BY <1>3, <1>11, <2>1, <2>2 DEF CancelQueued
  <1>12. CASE CancelFiles(r)
    <2>1. RequestsOK' BY <1>1, <1>12, AnswerStep DEF CancelFiles, ReqPc
    <2>2. RowsOK' BY <1>1, <1>2, <1>12 DEF CancelFiles, TypeOK, RowsOK, FileStatus
    <2>3. QED BY <1>3, <1>12, <2>1, <2>2 DEF CancelFiles
  <1>13. CASE CancelRunning(r)
    <2>1. RequestsOK' BY <1>1, <1>13, AnswerStep DEF CancelRunning, ReqPc
    <2>2. RowsOK' BY <1>1, <1>2, <1>13 DEF CancelRunning, TypeOK, RowsOK
    <2>3. QED BY <1>3, <1>13, <2>1, <2>2 DEF CancelRunning
  <1>14. CASE CancelAbort(r)
    <2>1. RequestsOK' BY <1>1, <1>14, ReplyStep DEF CancelAbort
    <2>2. RunsOK' /\ LiveSlots' = LiveSlots BY <1>1, <1>14, AbortedStep DEF CancelAbort
    <2>3. QED
      BY <1>1, <1>14, <2>1, <2>2 DEF CancelAbort, IInv, TypeOK, SlotInv, rows, RowsOK, world,
         WorldOK, ProcessOK, life, used
  <1>15. CASE RetryWrite(r)
    <2>1. RequestsOK' BY <1>1, <1>15, AnswerStep DEF RetryWrite, ReqPc
    <2>2. RowsOK' BY <1>1, <1>2, <1>15 DEF RetryWrite, TypeOK, RowsOK, JobStatus, FileStatus
    <2>3. QED BY <1>3, <1>15, <2>1, <2>2 DEF RetryWrite
  <1>16. CASE DeletePurge(r)
    <2>1. PICK f \in req[r].left :
            /\ whole' = [whole EXCEPT ![j] = @ \ {f}]
            /\ req' = [req EXCEPT ![r].left = @ \ {f}]
      BY <1>16 DEF DeletePurge
    <2> DEFINE q == [req[r] EXCEPT !.left = @ \ {f}]
    <2>2. ReqOK(q) BY <1>1, <2>1 DEF ReqOK, ReqRecord
    <2>3. req' = [req EXCEPT ![r] = q] BY <2>1
    <2> HIDE DEF q
    <2>4. RequestsOK' BY <1>1, <2>2, <2>3, ReqSet
    <2>5. WorldOK' BY <1>1, <1>2, <1>16, <2>1 DEF DeletePurge, TypeOK, WorldOK
    <2>6. RowsOK' BY <1>4, <1>16 DEF DeletePurge
    <2>7. QED
      BY <1>1, <1>16, <2>4, <2>5, <2>6 DEF DeletePurge, IInv, TypeOK, SlotInv, LiveSlots, Live,
         worker, ProcessOK, RunsOK, life, used
  <1>17. CASE DeleteRow(r)
    <2>1. RequestsOK' BY <1>1, <1>17, ReplyStep DEF DeleteRow
    <2>2. RowsOK' BY <1>1, <1>2, <1>17 DEF DeleteRow, TypeOK, RowsOK, JobStatus, FileStatus
    <2>3. QED BY <1>3, <1>17, <2>1, <2>2 DEF DeleteRow
  <1>18. CASE RequestFault(r)
    <2>1. RequestsOK' BY <1>1, <1>18, ReplyStep DEF RequestFault
    <2>2. QED
      BY <1>1, <1>18, <2>1 DEF RequestFault, IInv, TypeOK, SlotInv, LiveSlots, Live, rows,
         RowsOK, world, WorldOK, worker, ProcessOK, RunsOK, life
  <1>19. QED
    BY <1>5, <1>6, <1>7, <1>8, <1>9, <1>10, <1>11, <1>12, <1>13, <1>14, <1>15, <1>16, <1>17,
       <1>18 DEF UserAsks, Handle

LEMMA BootTypes ==
    ASSUME IInv, Boot \/ Shutdown
    PROVE  IInv'
  <1>1. TypeOK /\ SlotInv BY DEF IInv
  <1>2. CASE BootJobs
    <2>1. RowsOK' BY <1>1, <1>2 DEF BootJobs, Requeued, TypeOK, RowsOK, JobStatus
    <2>2. QED
      BY <1>1, <1>2, <2>1 DEF BootJobs, IInv, TypeOK, SlotInv, LiveSlots, Live, world, WorldOK,
         worker, ProcessOK, RunsOK, RequestsOK, used
  <1>3. CASE BootFiles
    <2>1. RowsOK' BY <1>1, <1>3 DEF BootFiles, TypeOK, RowsOK, FileStatus
    <2>2. QED
      BY <1>1, <1>3, <2>1 DEF BootFiles, IInv, TypeOK, SlotInv, LiveSlots, Live, world, WorldOK,
         worker, ProcessOK, RunsOK, RequestsOK, used
  <1>4. CASE BootUp
    <2>1. /\ drain' \in [pc : DrainPc, job : Jobs \cup {NoJob}]
          /\ drain'.pc \in {"found", "claimed"} => drain'.job \in Jobs
          /\ drain'.pc \in {"seek", "found", "claimed"} => running < Concurrency
      BY <1>4, WakeStep DEF BootUp
    <2>2. ProcessOK' BY <1>1, <1>4, <2>1 DEF BootUp, TypeOK, ProcessOK
    <2>3. QED
      BY <1>1, <1>4, <2>1, <2>2 DEF BootUp, IInv, TypeOK, SlotInv, LiveSlots, Live, rows, RowsOK,
         world, WorldOK, RunsOK, RequestsOK, used
  <1>5. CASE Shutdown
    <2>1. RunsOK' /\ LiveSlots' = LiveSlots BY <1>1, <1>5, AbortedStep DEF Shutdown
    <2>2. QED
      BY <1>1, <1>5, <2>1 DEF Shutdown, IInv, TypeOK, SlotInv, rows, RowsOK, world, WorldOK,
         ProcessOK, RequestsOK, used
  <1>6. QED BY <1>2, <1>3, <1>4, <1>5 DEF Boot

\* The memory a process starts with.
LEMMA FreshTypes ==
    /\ RunOK(NoRun) /\ NoRun.pc = "idle" /\ ReqOK(NoReq)
    /\ AtRest \in [pc : DrainPc, job : Jobs \cup {NoJob}] /\ AtRest.pc = "idle"
  BY DEF RunOK, RunRecord, NoRun, RunPc, HasFile, NoJob, NoFile, ReqOK, ReqRecord, NoReq, ReqPc,
     AtRest, DrainPc

LEMMA EndsTypes ==
    ASSUME IInv, ProcessEnds
    PROVE  IInv'
  <1>1. TypeOK BY DEF IInv
  <1>2. RunsOK' /\ LiveSlots' = {}
    BY FreshTypes DEF ProcessEnds, RunsOK, RunOK, LiveSlots, Live
  <1>3. RequestsOK' BY FreshTypes DEF ProcessEnds, RequestsOK, ReqOK
  <1>4. ProcessOK' BY FreshTypes DEF ProcessEnds, ProcessOK
  <1>5. SlotInv'
    BY <1>2, FreshTypes, FS_EmptySet, ConcurrencyAssumption DEF ProcessEnds, SlotInv
  <1>6. QED
    BY <1>1, <1>2, <1>3, <1>4, <1>5 DEF ProcessEnds, IInv, TypeOK, rows, RowsOK, world, WorldOK

-----------------------------------------------------------------------------
LEMMA InitTypes == Init => IInv
  <1> SUFFICES ASSUME Init PROVE IInv OBVIOUS
  <1>1. RunsOK /\ LiveSlots = {} BY FreshTypes DEF Init, RunsOK, RunOK, LiveSlots, Live
  <1>2. RequestsOK BY FreshTypes DEF Init, RequestsOK, ReqOK
  <1>3. ProcessOK BY FreshTypes DEF Init, ProcessOK
  <1>4. RowsOK /\ WorldOK BY DEF Init, RowsOK, WorldOK, JobStatus, FileStatus
  <1>5. SlotInv BY <1>1, FreshTypes, FS_EmptySet, ConcurrencyAssumption DEF Init, SlotInv
  <1>6. QED BY <1>1, <1>2, <1>3, <1>4, <1>5 DEF Init, IInv, TypeOK

LEMMA NextTypes == IInv /\ [Next]_vars => IInv'
  <1> SUFFICES ASSUME IInv, [Next]_vars PROVE IInv' OBVIOUS
  <1>1. ASSUME NEW s \in Slots, Works(s) PROVE IInv'
    BY <1>1, WorksTypes DEF IInv, TypeOK, SlotInv, ProcessOK, RequestsOK, life
  <1>2. ASSUME NEW s \in Slots, Advance(s) \/ Transfer(s) \/ RecordFault(s) \/ RunFault(s)
                                \/ FailedFault(s)
        PROVE IInv'
    BY <1>1, <1>2, EndTypes DEF Advance, Transfer, Works
  <1>3. CASE Drain \/ DrainFault \/ Immediate
    BY <1>3, DrainTypes, StartTypes, ImmediateTypes DEF Drain
  <1>4. ASSUME NEW r \in Requests, UserAsks(r) \/ Handle(r) \/ RequestFault(r) PROVE IInv'
    BY <1>4, HandleTypes
  <1>5. CASE Boot \/ Shutdown \/ Exit \/ Crash
    BY <1>5, BootTypes, EndsTypes DEF Exit, Crash
  <1>6. CASE UNCHANGED vars
    BY <1>6 DEF IInv, TypeOK, SlotInv, LiveSlots, Live, vars, rows, RowsOK, world, WorldOK,
       worker, ProcessOK, RunsOK, RequestsOK, life, used
  <1>7. QED BY <1>2, <1>3, <1>4, <1>5, <1>6 DEF Next

\* The inductive invariant holds always: the types, and the count of the runs
\* that drain and runJob keep in "running".
THEOREM Invariant == Spec => []IInv
  BY InitTypes, NextTypes, PTL DEF Spec

\* Every variable keeps its type: in particular the counter of running jobs
\* never goes below zero, and whatever is at work names its job and its file.
THEOREM TypeCorrect == Spec => []TypeOK
  <1>1. IInv => TypeOK BY DEF IInv
  <1>2. QED BY <1>1, Invariant, PTL

\* The counter is the number of runs, and at most Concurrency of them are live,
\* for every number of jobs, requests, restarts and failing calls.
THEOREM SlotsAreBounded == Spec => []SlotsBounded
  <1>1. IInv => SlotsBounded BY DEF IInv, SlotInv, SlotsBounded
  <1>2. QED BY <1>1, Invariant, PTL

-----------------------------------------------------------------------------
(* Who holds a RUNNING row.  That a run which ended its job by an error has *)
(* met a failing call, or a row that was deleted, is what makes one failure *)
(* harmless: only a second one, in the catch itself, loses the row.         *)

NoneRunning == \A j \in Jobs : status[j] # "RUNNING"

OwnInv ==
    /\ phase # "up" => /\ drain.pc = "idle" /\ ~wakePending
                       /\ \A s \in Slots : run[s].pc = "idle"
                       /\ \A r \in Requests : req[r].pc = "idle"
    /\ phase = "files" => NoneRunning
    /\ drain.pc \in {"found", "claimed"} => status[drain.job] # "NONE"
    /\ \A s \in Slots :
         /\ Live(s) => status[run[s].job] # "NONE"
         /\ run[s].pc \in {"sweep", "verdict"} => run[s].verdict \in Terminal
         /\ run[s].pc = "crashed" /\ Row(run[s].job) => faults > 0
    /\ RunningIsOwned

\* How a run moves itself and its row: the five ways, and nothing else.
Onward(s) ==
    /\ run'[s].pc \in Working /\ status' = status
    /\ run'[s].pc = "crashed" => ~Row(run[s].job) \/ faults' > 0
    /\ run'[s].pc \in {"sweep", "verdict"} => run'[s].verdict \in Terminal
Nowhere(s) == run[s].pc = "load" /\ ~Row(run[s].job) /\ run'[s].pc = "leave" /\ status' = status
Ended(s) ==
    /\ run[s].pc = "verdict" /\ run'[s].pc = "post"
    /\ status' = [status EXCEPT ![run[s].job] = run[s].verdict]
    /\ Row(run[s].job)
Over(s) == run[s].pc = "post" /\ run'[s].pc = "leave" /\ status' = status
GaveUp(s) ==
    /\ run[s].pc = "crashed" /\ run'[s].pc = "leave"
    /\ \/ Row(run[s].job) /\ status' = [status EXCEPT ![run[s].job] = "FAILED"]
       \/ ~Row(run[s].job) /\ status' = status
       \/ faults' = faults + 1 /\ status' = status

\* The run that moves keeps its job, and the others are as they were.
Alone(s) == \A t \in Slots : run'[t].job = run[t].job /\ (t # s => run'[t] = run[t])

LEMMA GotoRun ==
    ASSUME TypeOK, NEW s \in Slots, NEW pc, Goto(s, pc)
    PROVE  Alone(s) /\ run'[s].pc = pc /\ run'[s].verdict = run[s].verdict
  BY DEF Goto, TypeOK, RunsOK, RunRecord, Alone

LEMMA NextFileRun ==
    ASSUME TypeOK, NEW s \in Slots, NextFile(s)
    PROVE  Alone(s) /\ run'[s].pc = "next"
  BY DEF NextFile, TypeOK, RunsOK, RunRecord, Alone

\* Going on to another pc of a run that has yet to end its job.
LEMMA OnwardStep ==
    ASSUME TypeOK, NEW s \in Slots, NEW pc \in Working, Goto(s, pc), status' = status,
           pc = "crashed" => ~Row(run[s].job) \/ faults' > 0,
           pc \in {"sweep", "verdict"} => run[s].verdict \in Terminal
    PROVE  Alone(s) /\ Onward(s)
  BY GotoRun DEF Onward

LEMMA WorksRun ==
    ASSUME TypeOK, NEW s \in Slots, Works(s),
           run[s].pc \in {"sweep", "verdict"} => run[s].verdict \in Terminal
    PROVE  /\ Alone(s)
           /\ run[s].pc # "idle"
           /\ faults' >= faults
           /\ Onward(s) \/ Nowhere(s) \/ Ended(s) \/ Over(s) \/ GaveUp(s)
  <1> DEFINE j == run[s].job
             Goal == /\ Alone(s)
                     /\ run[s].pc # "idle"
                     /\ faults' >= faults
                     /\ Onward(s) \/ Nowhere(s) \/ Ended(s) \/ Over(s) \/ GaveUp(s)
  <1>1. run \in [Slots -> RunRecord] /\ faults \in Nat BY DEF TypeOK, RunsOK
  <1>2. CASE FetchSkip(s)
    <2>1. Goto(s, "record") /\ run[s].pc # "idle" /\ status' = status /\ faults' = faults
      BY <1>2 DEF FetchSkip, At, rows, used
    <2>2. Alone(s) /\ Onward(s) BY <1>2, <2>1, OnwardStep DEF Working
    <2>3. QED BY <1>1, <2>1, <2>2
  <1>3. CASE FetchDump(s) \/ FetchEnd(s)
    <2>1. PICK pc \in {"dump", "landing"} :
            Goto(s, pc) /\ run[s].pc # "idle" /\ status' = status /\ faults' = faults
      BY <1>3 DEF FetchDump, FetchEnd, At, rows, used
    <2>2. Alone(s) /\ Onward(s) BY <1>3, <2>1, OnwardStep DEF Working
    <2>3. QED BY <1>1, <2>1, <2>2
  <1>4. CASE FetchRename(s)
    <2>1. Goto(s, "record") /\ run[s].pc # "idle" /\ status' = status /\ faults' = faults
      BY <1>4 DEF FetchRename, At, rows, used
    <2>2. Alone(s) /\ Onward(s) BY <1>4, <2>1, OnwardStep DEF Working
    <2>3. QED BY <1>1, <2>1, <2>2
  <1>5. CASE BackoffOver(s)
    <2>1. Goto(s, "probe") /\ run[s].pc # "idle" /\ status' = status /\ faults' = faults
      BY <1>5 DEF BackoffOver, At, rows, used
    <2>2. Alone(s) /\ Onward(s) BY <1>5, <2>1, OnwardStep DEF Working
    <2>3. QED BY <1>1, <2>1, <2>2
  <1>6. CASE RunBegin(s)
    <2>1. Goto(s, "fetch") /\ run[s].pc # "idle" /\ status' = status /\ faults' = faults
      BY <1>6 DEF RunBegin, At, used
    <2>2. Alone(s) /\ Onward(s) BY <1>6, <2>1, OnwardStep DEF Working
    <2>3. QED BY <1>1, <2>1, <2>2
  <1>7. CASE RunRecordDone(s)
    <2>1. Goto(s, "recorded") /\ run[s].pc # "idle" /\ status' = status /\ faults' = faults
      BY <1>7 DEF RunRecordDone, At, used
    <2>2. Alone(s) /\ Onward(s) BY <1>7, <2>1, OnwardStep DEF Working
    <2>3. QED BY <1>1, <2>1, <2>2
  <1>8. CASE RunSweep(s)
    <2>1. Goto(s, "verdict") /\ run[s].pc # "idle" /\ status' = status /\ faults' = faults
      BY <1>8 DEF RunSweep, At, used
    <2>2. Alone(s) /\ Onward(s) BY <1>8, <2>1, OnwardStep DEF Working, RunSweep, At
    <2>3. QED BY <1>1, <2>1, <2>2
  <1>9. CASE RunRowGone(s)
    <2>1. /\ Goto(s, "crashed") /\ run[s].pc # "idle" /\ status' = status /\ faults' = faults
          /\ ~Row(j)
      BY <1>9 DEF RunRowGone, rows, used
    <2>2. Alone(s) /\ Onward(s) BY <2>1, OnwardStep DEF Working
    <2>3. QED BY <1>1, <2>1, <2>2
  <1>10. CASE RunFault(s)
    <2>1. /\ Goto(s, "crashed") /\ run[s].pc # "idle" /\ status' = status
          /\ faults' = faults + 1
      BY <1>10 DEF RunFault, rows
    <2>2. faults' > 0 /\ faults' >= faults BY <1>1, <2>1
    <2>3. Alone(s) /\ Onward(s) BY <2>1, <2>2, OnwardStep DEF Working
    <2>4. QED BY <2>1, <2>2, <2>3
  <1>11. CASE RunReject(s) \/ RunTotals(s)
    <2>1. NextFile(s) /\ run[s].pc # "idle" /\ status' = status /\ faults' = faults
      BY <1>11 DEF RunReject, RunTotals, At, rows, used
    <2>2. Alone(s) /\ run'[s].pc = "next" BY <2>1, NextFileRun
    <2>3. Onward(s) BY <2>1, <2>2 DEF Onward, Working
    <2>4. QED BY <1>1, <2>1, <2>2, <2>3
  <1>12. CASE FetchThrow(s) \/ RecordFault(s)
    <2>1. Caught(s) /\ run[s].pc # "idle" /\ status' = status
      BY <1>12 DEF FetchThrow, RecordFault, Caught
    <2>2. faults' = faults \/ faults' = faults + 1 BY <1>12 DEF FetchThrow, RecordFault, used
    <2>3. CASE Goto(s, "crashed") /\ ~Row(j)
      BY <1>1, <2>1, <2>2, <2>3, OnwardStep DEF Working
    <2>4. CASE run' = [run EXCEPT ![s].pc = "tally", ![s].cancelled = TRUE]
      <3>1. Alone(s) /\ run'[s].pc = "tally" BY <1>1, <2>4 DEF Alone, RunRecord
      <3>2. Onward(s) BY <2>1, <3>1 DEF Onward, Working
      <3>3. QED BY <1>1, <2>1, <2>2, <3>1, <3>2
    <2>5. CASE run' = [run EXCEPT ![s].pc = "backoff",
                                  ![s].att[run[s].file] = run[s].att[run[s].file] + 1]
      <3>1. Alone(s) /\ run'[s].pc = "backoff" BY <1>1, <2>5 DEF Alone, RunRecord
      <3>2. Onward(s) BY <2>1, <3>1 DEF Onward, Working
      <3>3. QED BY <1>1, <2>1, <2>2, <3>1, <3>2
    <2>6. CASE NextFile(s)
      <3>1. Alone(s) /\ run'[s].pc = "next" BY <2>6, NextFileRun
      <3>2. Onward(s) BY <2>1, <3>1 DEF Onward, Working
      <3>3. QED BY <1>1, <2>1, <2>2, <3>1, <3>2
    <2>7. QED BY <2>1, <2>3, <2>4, <2>5, <2>6 DEF Caught
  <1>13. CASE RunLoad(s)
    <2>1. run[s].pc = "load" /\ status' = status /\ faults' = faults
      BY <1>13 DEF RunLoad, At, rows, used
    <2>2. CASE Goto(s, "leave") /\ ~Row(j)
      <3>1. Alone(s) /\ run'[s].pc = "leave" BY <2>2, GotoRun
      <3>2. QED BY <1>1, <2>1, <2>2, <3>1 DEF Nowhere
    <2>3. CASE run' = [run EXCEPT ![s].pc = "next", ![s].todo = Files \ Done(j),
                                  ![s].att = attempts[j]]
      <3>1. Alone(s) /\ run'[s].pc = "next" BY <1>1, <2>3 DEF Alone, RunRecord
      <3>2. Onward(s) BY <2>1, <3>1 DEF Onward, Working
      <3>3. QED BY <1>1, <2>1, <3>1, <3>2
    <2>4. QED BY <1>13, <2>2, <2>3 DEF RunLoad
  <1>14. CASE RunCheck(s)
    <2>1. run[s].pc = "next" /\ status' = status /\ faults' = faults
      BY <1>14 DEF RunCheck, At, rows, used
    <2>2. Alone(s) /\ run'[s].pc \in {"probe", "tally"}
      BY <1>1, <1>14 DEF RunCheck, Goto, Alone, RunRecord
    <2>3. Onward(s) BY <2>1, <2>2 DEF Onward, Working
    <2>4. QED BY <1>1, <2>1, <2>2, <2>3
  <1>15. CASE RunTally(s)
    <2>1. run[s].pc = "tally" /\ status' = status /\ faults' = faults
      BY <1>15 DEF RunTally, At, rows, used
    <2>2. /\ Alone(s)
          /\ run'[s].pc \in {"sweep", "verdict"}
          /\ run'[s].verdict = VerdictOf(Done(j), run[s].cancelled)
      BY <1>1, <1>15 DEF RunTally, Alone, RunRecord
    <2>3. run'[s].verdict \in Terminal BY <2>2 DEF VerdictOf, Terminal
    <2>4. Onward(s) BY <2>1, <2>2, <2>3 DEF Onward, Working
    <2>5. QED BY <1>1, <2>1, <2>2, <2>4
  <1>16. CASE RunVerdict(s)
    <2>1. /\ Goto(s, "post") /\ run[s].pc = "verdict" /\ faults' = faults /\ Row(j)
          /\ status' = [status EXCEPT ![j] = run[s].verdict]
      BY <1>16 DEF RunVerdict, At, used
    <2>2. Alone(s) /\ run'[s].pc = "post" BY <2>1, GotoRun
    <2>3. Ended(s) BY <2>1, <2>2 DEF Ended
    <2>4. QED BY <1>1, <2>1, <2>2, <2>3
  <1>17. CASE RunPost(s)
    <2>1. Goto(s, "leave") /\ run[s].pc = "post" /\ faults' = faults /\ status' = status
      BY <1>17 DEF RunPost, At, rows, used
    <2>2. Alone(s) /\ run'[s].pc = "leave" BY <2>1, GotoRun
    <2>3. Over(s) BY <2>1, <2>2 DEF Over
    <2>4. QED BY <1>1, <2>1, <2>2, <2>3
  <1>18. CASE RunFailed(s)
    <2>1. /\ Goto(s, "leave") /\ run[s].pc = "crashed" /\ faults' = faults
          /\ status' = IF Row(j) THEN [status EXCEPT ![j] = "FAILED"] ELSE status
      BY <1>18 DEF RunFailed, At, used
    <2>2. Alone(s) /\ run'[s].pc = "leave" BY <2>1, GotoRun
    <2>3. GaveUp(s) BY <2>1, <2>2 DEF GaveUp
    <2>4. QED BY <1>1, <2>1, <2>2, <2>3
  <1>19. CASE FailedFault(s)
    <2>1. /\ Goto(s, "leave") /\ run[s].pc = "crashed" /\ faults' = faults + 1
          /\ status' = status
      BY <1>19 DEF FailedFault, At, rows
    <2>2. Alone(s) /\ run'[s].pc = "leave" BY <2>1, GotoRun
    <2>3. GaveUp(s) BY <2>1, <2>2 DEF GaveUp
    <2>4. QED BY <1>1, <2>1, <2>2, <2>3
  <1>20. QED
    BY <1>2, <1>3, <1>4, <1>5, <1>6, <1>7, <1>8, <1>9, <1>10, <1>11,
       <1>12, <1>13, <1>14, <1>15, <1>16, <1>17, <1>18, <1>19 DEF Works

LEMMA WorksOwn ==
    ASSUME TypeOK, OwnInv, NEW s \in Slots, Works(s)
    PROVE  OwnInv'
  <1> DEFINE j == run[s].job
  <1>1. /\ UNCHANGED <<drain, wakePending, req, phase>>
        /\ faults \in Nat /\ faults' \in Nat /\ status \in [Jobs -> JobStatus]
    BY WorksTypes DEF TypeOK, RowsOK, life
  <1>2. /\ Alone(s) /\ run[s].pc # "idle" /\ faults' >= faults
        /\ Onward(s) \/ Nowhere(s) \/ Ended(s) \/ Over(s) \/ GaveUp(s)
    BY WorksRun DEF OwnInv
  <1>3. phase = "up" /\ phase' = "up" /\ j \in Jobs /\ status[j] # "NONE"
    BY <1>1, <1>2, Named DEF OwnInv, Live
  <1>4. drain.pc \in {"found", "claimed"} => drain.job \in Jobs BY DEF TypeOK, ProcessOK
  <1>5. \A t \in Slots : Live(t) => run[t].job \in Jobs BY Named DEF Live
  <1>6. CASE Onward(s)
    <2>1. \A i \in Jobs : Owned(i) => Owned(i)' BY <1>1, <1>2, <1>6 DEF Owned, Onward, Alone
    <2>2. RunningIsOwned' BY <1>1, <1>2, <1>3, <1>6, <2>1 DEF OwnInv, RunningIsOwned, Onward
    <2>3. \A t \in Slots :
            /\ Live(t)' => status'[run'[t].job] # "NONE"
            /\ run'[t].pc \in {"sweep", "verdict"} => run'[t].verdict \in Terminal
            /\ run'[t].pc = "crashed" /\ Row(run[t].job)' => faults' > 0
      BY <1>1, <1>2, <1>3, <1>6 DEF OwnInv, Onward, Alone, Live, Row
    <2>4. QED BY <1>1, <1>2, <1>3, <1>6, <2>2, <2>3 DEF OwnInv, Onward, Alone
  <1>7. CASE Nowhere(s) \/ Over(s)
    <2>1. \A i \in Jobs : status[i] = "RUNNING" /\ Owned(i) => Owned(i)'
      BY <1>1, <1>2, <1>7 DEF Owned, Nowhere, Over, Alone, Working, Row
    <2>2. RunningIsOwned'
      BY <1>1, <1>2, <1>3, <1>7, <2>1 DEF OwnInv, RunningIsOwned, Nowhere, Over
    <2>3. \A t \in Slots :
            /\ Live(t)' => status'[run'[t].job] # "NONE"
            /\ run'[t].pc \in {"sweep", "verdict"} => run'[t].verdict \in Terminal
            /\ run'[t].pc = "crashed" /\ Row(run[t].job)' => faults' > 0
      BY <1>1, <1>2, <1>3, <1>7 DEF OwnInv, Nowhere, Over, Alone, Live, Row
    <2>4. QED BY <1>1, <1>2, <1>3, <1>7, <2>2, <2>3 DEF OwnInv, Nowhere, Over, Alone
  <1>8. CASE Ended(s)
    <2>1. run[s].verdict \in Terminal BY <1>8 DEF Ended, OwnInv
    <2>2. /\ status' = [status EXCEPT ![j] = run[s].verdict] /\ Row(j)
          /\ run[s].pc = "verdict" /\ run'[s].pc = "post"
      BY <1>8 DEF Ended
    <2>3. \A i \in Jobs : i # j /\ Owned(i) => Owned(i)' BY <1>1, <1>2 DEF Owned, Alone
    <2>4. status'[j] \in Terminal /\ \A i \in Jobs : i # j => status'[i] = status[i]
      BY <1>1, <1>3, <2>1, <2>2
    <2>5. RunningIsOwned'
      BY <1>1, <1>2, <1>3, <2>3, <2>4 DEF OwnInv, RunningIsOwned, Terminal
    <2>6. \A t \in Slots :
            /\ Live(t)' => status'[run'[t].job] # "NONE"
            /\ run'[t].pc \in {"sweep", "verdict"} => run'[t].verdict \in Terminal
            /\ run'[t].pc = "crashed" /\ Row(run[t].job)' => faults' > 0
      BY <1>1, <1>2, <1>3, <1>5, <2>2, <2>4 DEF OwnInv, Alone, Live, Row, Terminal
    <2>7. drain'.pc \in {"found", "claimed"} => status'[drain'.job] # "NONE"
      BY <1>1, <1>4, <2>4 DEF OwnInv, Terminal
    <2>8. QED BY <1>2, <1>3, <2>5, <2>6, <2>7 DEF OwnInv, Alone
  <1>9. CASE GaveUp(s)
    <2>1. run[s].pc = "crashed" /\ run'[s].pc = "leave" BY <1>9 DEF GaveUp
    <2>2. \A i \in Jobs : i # j /\ Owned(i) => Owned(i)' BY <1>1, <1>2 DEF Owned, Alone
    <2>3. \A i \in Jobs : i # j => status'[i] = status[i] BY <1>1, <1>9 DEF GaveUp
    <2>4. status'[j] \in {"FAILED", status[j]} BY <1>1, <1>3, <1>9 DEF GaveUp
    <2>5. status'[j] = "RUNNING" => faults' >= 2
      <3>1. CASE Row(j) /\ status' = [status EXCEPT ![j] = "FAILED"] BY <1>1, <1>3, <3>1
      <3>2. CASE ~Row(j) /\ status' = status BY <3>2 DEF Row
      <3>3. CASE faults' = faults + 1 /\ status' = status
        BY <1>1, <2>1, <3>3 DEF Row, OwnInv
      <3>4. QED BY <1>9, <3>1, <3>2, <3>3 DEF GaveUp
    <2>6. RunningIsOwned'
      BY <1>1, <1>2, <1>3, <2>2, <2>3, <2>5 DEF OwnInv, RunningIsOwned
    <2>7. \A i \in Jobs : (status[i] # "NONE" => status'[i] # "NONE") /\ (Row(i)' => Row(i))
      <3>1. CASE Row(j) /\ status' = [status EXCEPT ![j] = "FAILED"]
        BY <1>1, <1>3, <3>1 DEF Row
      <3>2. CASE status' = status BY <3>2 DEF Row
      <3>3. QED BY <1>9, <3>1, <3>2 DEF GaveUp
    <2>8. \A t \in Slots :
            /\ Live(t)' => status'[run'[t].job] # "NONE"
            /\ run'[t].pc \in {"sweep", "verdict"} => run'[t].verdict \in Terminal
            /\ run'[t].pc = "crashed" /\ Row(run[t].job)' => faults' > 0
      BY <1>1, <1>2, <1>3, <1>5, <2>1, <2>7 DEF OwnInv, Alone, Live
    <2>9. drain'.pc \in {"found", "claimed"} => status'[drain'.job] # "NONE"
      BY <1>1, <1>4, <2>7 DEF OwnInv
    <2>10. QED BY <1>2, <1>3, <2>6, <2>8, <2>9 DEF OwnInv, Alone
  <1>10. QED BY <1>2, <1>6, <1>7, <1>8, <1>9

\* The drain and the slots: a claimed row passes from the drain to a run.
LEMMA DrainOwn ==
    ASSUME TypeOK, OwnInv, Drain \/ DrainFault \/ Immediate
    PROVE  OwnInv'
  <1>1. /\ status \in [Jobs -> JobStatus] /\ run \in [Slots -> RunRecord] /\ faults \in Nat
        /\ drain.pc \in {"found", "claimed"} => drain.job \in Jobs
        /\ drain \in [pc : DrainPc, job : Jobs \cup {NoJob}]
    BY DEF TypeOK, RowsOK, RunsOK, ProcessOK
  <1>2. phase = "up"
    BY DEF OwnInv, Drain, DrainFind, DrainMissed, DrainClaim, DrainLost, DrainStart, DrainFault,
       Immediate
  <1>3. CASE \/ DrainFind \/ DrainMissed \/ DrainLost \/ DrainFault \/ Immediate
    <2>1. UNCHANGED <<status, run, req, phase>>
      BY <1>3 DEF DrainFind, DrainMissed, DrainLost, DrainFault, Immediate, rows, life
    <2>2. faults' \in Nat /\ faults' >= faults
      BY <1>1, <1>3 DEF DrainFind, DrainMissed, DrainLost, DrainFault, Immediate, used
    <2>3. drain.pc = "claimed" => drain' = drain
      BY <1>3 DEF DrainFind, DrainMissed, DrainLost, DrainFault, Immediate, Wake
    <2>4. \A i \in Jobs : Owned(i) => Owned(i)' BY <2>1, <2>3 DEF Owned
    <2>5. RunningIsOwned' BY <1>1, <1>2, <2>1, <2>2, <2>4 DEF OwnInv, RunningIsOwned
    <2>6. drain'.pc \in {"found", "claimed"} => status[drain'.job] # "NONE"
      <3>1. CASE DrainFind BY <3>1 DEF DrainFind, IsNextQueued
      <3>2. CASE DrainMissed \/ DrainLost \/ DrainFault
        BY <3>2 DEF DrainMissed, DrainLost, DrainFault, Loop, AtRest
      <3>3. CASE Immediate BY <3>3 DEF Immediate, Wake, Loop, AtRest, OwnInv
      <3>4. QED BY <1>3, <3>1, <3>2, <3>3
    <2>7. QED BY <1>1, <1>2, <2>1, <2>2, <2>5, <2>6 DEF OwnInv, Live, Row
  <1>4. CASE DrainClaim
    <2>1. UNCHANGED <<run, req, phase, faults>> /\ drain.pc = "found" /\ drain.job \in Jobs
      BY <1>1, <1>4 DEF DrainClaim, life, used
    <2>2. CASE /\ MayClaim(drain.job)
               /\ status' = [status EXCEPT ![drain.job] = "RUNNING"]
               /\ drain' = [drain EXCEPT !.pc = "claimed"]
      <3>1. drain'.pc = "claimed" /\ drain'.job = drain.job BY <1>1, <2>2
      <3>2. /\ status'[drain.job] = "RUNNING" /\ status[drain.job] = "QUEUED"
            /\ \A i \in Jobs : i # drain.job => status'[i] = status[i]
        BY <1>1, <2>1, <2>2 DEF MayClaim
      <3>3. \A i \in Jobs : i = drain.job \/ Owned(i) => Owned(i)'
        BY <2>1, <3>1 DEF Owned
      <3>4. RunningIsOwned' BY <1>2, <2>1, <3>2, <3>3 DEF OwnInv, RunningIsOwned
      <3>5. \A i \in Jobs : (status[i] # "NONE" => status'[i] # "NONE") /\ (Row(i)' => Row(i))
        BY <3>2 DEF Row
      <3>6. \A t \in Slots : Live(t) => run[t].job \in Jobs BY Named DEF Live
      <3>7. QED
        BY <1>2, <2>1, <3>1, <3>2, <3>4, <3>5, <3>6 DEF OwnInv, Live
    <2>3. CASE drain' = [pc |-> "lost", job |-> NoJob] /\ UNCHANGED status
      <3>1. \A i \in Jobs : Owned(i) => Owned(i)' BY <2>1, <2>3 DEF Owned
      <3>2. RunningIsOwned' BY <1>2, <2>1, <2>3, <3>1 DEF OwnInv, RunningIsOwned
      <3>3. QED BY <1>2, <2>1, <2>3, <3>2 DEF OwnInv, Live, Row
    <2>4. QED BY <1>4, <2>2, <2>3 DEF DrainClaim
  <1>5. ASSUME NEW s \in Slots, DrainStart(s) PROVE OwnInv'
    <2>1. /\ UNCHANGED <<status, req, phase, faults>> /\ drain.pc = "claimed"
          /\ drain.job \in Jobs /\ run[s].pc = "idle"
      BY <1>1, <1>5 DEF DrainStart, Live, rows, life, used
    <2> DEFINE g == [NoRun EXCEPT !.pc = "load", !.job = drain.job]
    <2>2. g.pc = "load" /\ g.job = drain.job BY DEF NoRun
    <2>3. run' = [run EXCEPT ![s] = g] BY <1>5 DEF DrainStart
    <2> HIDE DEF g
    <2>4. /\ run'[s].pc = "load" /\ run'[s].job = drain.job
          /\ \A t \in Slots : t # s => run'[t] = run[t]
      BY <1>1, <2>2, <2>3
    <2>5. drain'.pc \in {"seek", "idle"} BY <1>5 DEF DrainStart, Loop, AtRest
    <2>6. \A i \in Jobs : Owned(i) => Owned(i)' BY <2>1, <2>4 DEF Owned, Working
    <2>7. RunningIsOwned' BY <1>2, <2>1, <2>6 DEF OwnInv, RunningIsOwned
    <2>8. QED BY <1>2, <2>1, <2>4, <2>5, <2>7 DEF OwnInv, Live, Row
  <1>6. QED BY <1>3, <1>4, <1>5 DEF Drain

LEMMA EndOwn ==
    ASSUME TypeOK, OwnInv, NEW s \in Slots, RunEnd(s)
    PROVE  OwnInv'
  <1>1. /\ run \in [Slots -> RunRecord] /\ run[s].pc = "leave"
        /\ UNCHANGED <<status, drain, req, phase, faults>>
    BY DEF TypeOK, RunsOK, RunEnd, At, rows, life, used
  <1>2. phase = "up" BY <1>1 DEF OwnInv
  <1>3. run'[s].pc = "idle" /\ \A t \in Slots : t # s => run'[t] = run[t]
    BY <1>1, FreshTypes DEF RunEnd
  <1>4. \A i \in Jobs : Owned(i) => Owned(i)' BY <1>1, <1>3 DEF Owned, Working
  <1>5. RunningIsOwned' BY <1>1, <1>4 DEF OwnInv, RunningIsOwned
  <1>6. QED BY <1>1, <1>2, <1>3, <1>5 DEF OwnInv, Live, Row

\* A request may overwrite the row of a running job, never make one run.
LEMMA HandleOwn ==
    ASSUME TypeOK, OwnInv, NEW r \in Requests, UserAsks(r) \/ Handle(r) \/ RequestFault(r)
    PROVE  OwnInv'
  <1> DEFINE j == req[r].job
  <1>1. /\ status \in [Jobs -> JobStatus] /\ run \in [Slots -> RunRecord] /\ faults \in Nat
        /\ req[r].pc # "idle" => j \in Jobs
        /\ drain.pc \in {"found", "claimed"} => drain.job \in Jobs
    BY DEF TypeOK, RowsOK, RunsOK, RequestsOK, ReqOK, ProcessOK
  <1>2. phase = "up"
    BY DEF OwnInv, UserAsks, Create, CancelRead, RetryRead, DeleteRead, Open, Accepting, Handle,
       WakeReply, ReplyGone, CancelQueued, CancelFiles, CancelRunning, CancelAbort, RetryWrite,
       DeletePurge, DeleteRow, RequestFault
  <1>3. phase' = phase /\ faults' \in Nat /\ faults' >= faults
    BY <1>1 DEF UserAsks, Create, CancelRead, RetryRead, DeleteRead, Handle,
       WakeReply, ReplyGone, CancelQueued, CancelFiles, CancelRunning, CancelAbort, RetryWrite,
       DeletePurge, DeleteRow, RequestFault, life, used
  <1>4. \A t \in Slots : /\ run'[t].pc = run[t].pc /\ run'[t].job = run[t].job
                         /\ run'[t].verdict = run[t].verdict
    <2>1. CASE CancelAbort(r)
      BY <1>1, <2>1 DEF CancelAbort, Aborted, RunRecord
    <2>2. CASE ~CancelAbort(r)
      BY <2>2 DEF UserAsks, Create, CancelRead, RetryRead, DeleteRead, Handle,
         WakeReply, ReplyGone, CancelQueued, CancelFiles, CancelRunning, RetryWrite,
         DeletePurge, DeleteRow, RequestFault, worker
    <2>3. QED BY <2>1, <2>2
  <1>5. /\ drain.pc # "idle" => drain' = drain
        /\ drain'.pc \in {"found", "claimed"} => drain' = drain
    <2>1. CASE WakeReply(r) BY <2>1 DEF WakeReply, Wake, Loop, AtRest
    <2>2. CASE ~WakeReply(r)
      BY <2>2 DEF UserAsks, Create, CancelRead, RetryRead, DeleteRead, Handle,
         ReplyGone, CancelQueued, CancelFiles, CancelRunning, CancelAbort, RetryWrite,
         DeletePurge, DeleteRow, RequestFault, worker
    <2>3. QED BY <2>1, <2>2
  <1>6. \A i \in Jobs : /\ status[i] # "NONE" => status'[i] # "NONE" /\ (Row(i)' => Row(i))
                        /\ status'[i] = "RUNNING" => status[i] = "RUNNING"
    <2>1. CASE Create(r)
      <3>1. PICK i \in Jobs : status[i] = "NONE" /\ status' = [status EXCEPT ![i] = "QUEUED"]
        BY <2>1 DEF Create
      <3>2. QED BY <1>1, <3>1 DEF Row
    <2>2. CASE CancelQueued(r) BY <1>1, <2>2 DEF CancelQueued, Row
    <2>3. CASE RetryWrite(r) BY <1>1, <2>3 DEF RetryWrite, Row
    <2>4. CASE DeleteRow(r) BY <1>1, <2>4 DEF DeleteRow, Row
    <2>5. CASE ~(Create(r) \/ CancelQueued(r) \/ RetryWrite(r) \/ DeleteRow(r))
      <3>1. status' = status
        BY <2>5 DEF UserAsks, CancelRead, RetryRead, DeleteRead, Handle,
           WakeReply, ReplyGone, CancelFiles, CancelRunning, CancelAbort, DeletePurge,
           RequestFault, rows
      <3>2. QED BY <3>1 DEF Row
    <2>6. QED BY <2>1, <2>2, <2>3, <2>4, <2>5
  <1>7. \A i \in Jobs : Owned(i) => Owned(i)' BY <1>4, <1>5 DEF Owned
  <1>8. RunningIsOwned' BY <1>1, <1>2, <1>3, <1>6, <1>7 DEF OwnInv, RunningIsOwned
  <1>9. \A t \in Slots : Live(t) => run[t].job \in Jobs BY Named DEF Live
  <1>10. QED
    <2>1. \A t \in Slots :
            /\ Live(t)' => status'[run'[t].job] # "NONE"
            /\ run'[t].pc \in {"sweep", "verdict"} => run'[t].verdict \in Terminal
            /\ run'[t].pc = "crashed" /\ Row(run[t].job)' => faults' > 0
      BY <1>1, <1>3, <1>4, <1>6, <1>9 DEF OwnInv, Live
    <2>2. drain'.pc \in {"found", "claimed"} => status'[drain'.job] # "NONE"
      BY <1>1, <1>5, <1>6 DEF OwnInv
    <2>3. QED BY <1>2, <1>3, <1>4, <1>8, <2>1, <2>2 DEF OwnInv

LEMMA BootOwn ==
    ASSUME TypeOK, OwnInv, Boot \/ Shutdown \/ ProcessEnds
    PROVE  OwnInv'
  <1>1. status \in [Jobs -> JobStatus] /\ run \in [Slots -> RunRecord] BY DEF TypeOK, RowsOK, RunsOK
  <1>2. CASE BootJobs
    <2>1. UNCHANGED <<run, drain, wakePending, req, faults>> /\ phase = "jobs" /\ phase' = "files"
          /\ status' = [i \in Jobs |-> Requeued(i)]
      BY <1>2 DEF BootJobs, worker, used
    <2>2. NoneRunning' BY <2>1 DEF NoneRunning, Requeued
    <2>3. RunningIsOwned' BY <2>1 DEF RunningIsOwned
    <2>4. QED BY <2>1, <2>2, <2>3 DEF OwnInv, Live
  <1>3. CASE BootFiles
    <2>1. UNCHANGED <<run, drain, wakePending, req, faults, status>> /\ phase = "files"
          /\ phase' = "wake"
      BY <1>3 DEF BootFiles, worker, used
    <2>2. RunningIsOwned' BY <2>1 DEF OwnInv, NoneRunning, RunningIsOwned
    <2>3. QED BY <2>1, <2>2 DEF OwnInv, Live, Row
  <1>4. CASE BootUp
    <2>1. UNCHANGED <<run, req, faults, status>> /\ phase = "wake" /\ phase' = "up"
          /\ drain'.pc \in {"idle", "seek"} /\ drain.pc = "idle"
      BY <1>4 DEF BootUp, OwnInv, Wake, Loop, AtRest, rows, used
    <2>2. \A i \in Jobs : Owned(i) => Owned(i)' BY <2>1 DEF Owned
    <2>3. RunningIsOwned' BY <2>1, <2>2 DEF OwnInv, RunningIsOwned
    <2>4. QED BY <2>1, <2>3 DEF OwnInv, Live, Row
  <1>5. CASE Shutdown
    <2>1. UNCHANGED <<drain, wakePending, req, faults, status, phase>> /\ phase = "up"
          /\ run' = Aborted(UNION {Handles(i) : i \in Jobs})
      BY <1>5 DEF Shutdown, rows, used
    <2>2. \A t \in Slots : /\ run'[t].pc = run[t].pc /\ run'[t].job = run[t].job
                           /\ run'[t].verdict = run[t].verdict
      BY <1>1, <2>1 DEF Aborted, RunRecord
    <2>3. \A i \in Jobs : Owned(i) => Owned(i)' BY <2>1, <2>2 DEF Owned
    <2>4. RunningIsOwned' BY <2>1, <2>3 DEF OwnInv, RunningIsOwned
    <2>5. QED BY <2>1, <2>2, <2>4 DEF OwnInv, Live, Row
  <1>6. CASE ProcessEnds
    <2>1. /\ phase' = "jobs" /\ drain'.pc = "idle" /\ ~wakePending'
          /\ \A s \in Slots : run'[s].pc = "idle"
          /\ \A r \in Requests : req'[r].pc = "idle"
      BY <1>6, FreshTypes DEF ProcessEnds, NoReq
    <2>2. QED BY <2>1 DEF OwnInv, RunningIsOwned, Live
  <1>7. QED BY <1>2, <1>3, <1>4, <1>5, <1>6 DEF Boot

LEMMA InitOwn == Init => OwnInv
  <1> SUFFICES ASSUME Init PROVE OwnInv OBVIOUS
  <1>1. /\ phase = "jobs" /\ drain.pc = "idle" /\ ~wakePending
        /\ \A s \in Slots : run[s].pc = "idle"
        /\ \A r \in Requests : req[r].pc = "idle"
    BY FreshTypes DEF Init, NoReq
  <1>2. QED BY <1>1 DEF OwnInv, RunningIsOwned, Live

LEMMA NextOwn == TypeOK /\ OwnInv /\ [Next]_vars => OwnInv'
  <1> SUFFICES ASSUME TypeOK, OwnInv, [Next]_vars PROVE OwnInv' OBVIOUS
  <1>1. ASSUME NEW s \in Slots, Advance(s) \/ Transfer(s) \/ RecordFault(s) \/ RunFault(s)
                                \/ FailedFault(s)
        PROVE OwnInv'
    BY <1>1, WorksOwn, EndOwn DEF Advance, Transfer, Works
  <1>2. ASSUME NEW r \in Requests, UserAsks(r) \/ Handle(r) \/ RequestFault(r) PROVE OwnInv'
    BY <1>2, HandleOwn
  <1>3. CASE Drain \/ DrainFault \/ Immediate BY <1>3, DrainOwn
  <1>4. CASE Boot \/ Shutdown \/ Exit \/ Crash BY <1>4, BootOwn DEF Exit, Crash
  <1>5. CASE UNCHANGED vars
    BY <1>5 DEF OwnInv, NoneRunning, RunningIsOwned, Owned, Live, Row, vars, rows, worker, life, used
  <1>6. QED BY <1>1, <1>2, <1>3, <1>4, <1>5 DEF Next

\* A RUNNING row of an up process is held by the drain or by a run that has yet
\* to end it, for every number of jobs, runs and requests and whatever their
\* interleaving, as long as fewer than two database calls failed.
THEOREM RunningOwned == Spec => []RunningIsOwned
  <1>1. OwnInv => RunningIsOwned BY DEF OwnInv
  <1>2. QED BY <1>1, InitOwn, NextOwn, TypeCorrect, PTL DEF Spec

-----------------------------------------------------------------------------
(* With one job at a time, the table of abort handles is exact.            *)

\* Only one run is live, so the handle that goes by job goes with its run.
LEMMA OnlyOne ==
    ASSUME IInv, Concurrency = 1, NEW s \in Slots, Live(s)
    PROVE  LiveSlots = {s} /\ running = 1
  <1>1. s \in LiveSlots BY DEF LiveSlots
  <1>2. running = Cardinality(LiveSlots) /\ running <= 1 /\ running \in Nat
    BY DEF IInv, SlotInv, TypeOK, ProcessOK
  <1>3. Cardinality(LiveSlots) > 0 BY <1>1, LiveCount
  <1>4. Cardinality(LiveSlots) = 1 BY <1>2, <1>3
  <1>5. Cardinality(LiveSlots \ {s}) = 0 BY <1>1, <1>4, LiveCount
  <1>6. IsFiniteSet(LiveSlots \ {s}) BY LiveCount, FS_RemoveElement
  <1>7. LiveSlots \ {s} = {} BY <1>5, <1>6, FS_EmptySet
  <1>8. QED BY <1>1, <1>2, <1>4, <1>7

LEMMA NextReachable ==
    ASSUME Concurrency = 1, IInv, AbortReachable, [Next]_vars
    PROVE  AbortReachable'
  <1>1. /\ TypeOK /\ run \in [Slots -> RunRecord] /\ aborts \in [Jobs -> SUBSET Slots]
        /\ drain.pc \in {"found", "claimed"} => drain.job \in Jobs
    BY DEF IInv, TypeOK, RunsOK, ProcessOK
  <1>2. ASSUME \A t \in Slots : /\ run'[t].job = run[t].job
                                /\ run'[t].pc = "idle" <=> run[t].pc = "idle",
               aborts' = aborts
        PROVE  AbortReachable'
    BY <1>2 DEF AbortReachable, Live
  <1>3. ASSUME NEW s \in Slots, Works(s) PROVE AbortReachable'
    <2>1. RunsOK' /\ LiveSlots' = LiveSlots /\ aborts' = aborts BY <1>1, <1>3, WorksTypes
    <2>2. \A t \in Slots : run'[t].job = run[t].job
      <3>1. CASE run[s].pc \in {"sweep", "verdict"} => run[s].verdict \in Terminal
        BY <1>1, <1>3, <3>1, WorksRun DEF Alone
      <3>2. CASE run[s].pc \in {"sweep", "verdict"}
        <4>1. run' = run \/ \E pc \in RunPc : Goto(s, pc)
          BY <1>3, <3>2, Pcs
             DEF Works, RunLoad, RunCheck, RunReject, RunBegin, FetchSkip, FetchDump, FetchEnd, FetchRename,
                 FetchThrow, RecordFault, BackoffOver, RunRecordDone, RunTotals, RunTally, RunSweep,
                 RunVerdict, RunPost, RunRowGone, RunFault, RunFailed, FailedFault, At
        <4>2. QED BY <1>1, <4>1, GotoRun DEF Alone
      <3>3. QED BY <3>1, <3>2
    <2>3. \A t \in Slots : run'[t].pc = "idle" <=> run[t].pc = "idle"
      BY <2>1 DEF LiveSlots, Live
    <2>4. QED BY <1>2, <2>1, <2>2, <2>3
  <1>4. ASSUME NEW s \in Slots, RunEnd(s) PROVE AbortReachable'
    <2>1. LiveSlots = {s} BY <1>4, OnlyOne DEF RunEnd, At, Live
    <2>2. run'[s].pc = "idle" /\ \A t \in Slots : t # s => run'[t] = run[t]
      BY <1>1, <1>4, FreshTypes DEF RunEnd
    <2>3. \A t \in Slots : run'[t].pc = "idle" BY <2>1, <2>2 DEF LiveSlots, Live
    <2>4. QED BY <2>3 DEF AbortReachable, Live
  <1>5. ASSUME NEW s \in Slots, DrainStart(s) PROVE AbortReachable'
    <2> DEFINE g == [NoRun EXCEPT !.pc = "load", !.job = drain.job]
    <2>1. g.pc = "load" /\ g.job = drain.job BY DEF NoRun
    <2>2. run' = [run EXCEPT ![s] = g] BY <1>5 DEF DrainStart
    <2> HIDE DEF g
    <2>3. /\ run'[s].job = drain.job /\ drain.job \in Jobs
          /\ \A t \in Slots : t # s => run'[t] = run[t]
      BY <1>1, <1>5, <2>1, <2>2 DEF DrainStart
    <2>4. running < 1 BY <1>5 DEF DrainStart, IInv, SlotInv
    <2>5. \A t \in Slots : ~Live(t) BY <2>4, OnlyOne
    <2>6. aborts' = [aborts EXCEPT ![drain.job] = {s}] BY <1>5 DEF DrainStart, Registered
    <2>7. QED BY <1>1, <2>3, <2>5, <2>6 DEF AbortReachable, Live
  <1>6. ASSUME NEW S, run' = Aborted(S), aborts' = aborts PROVE AbortReachable'
    <2>1. \A t \in Slots : run'[t].pc = run[t].pc /\ run'[t].job = run[t].job
      BY <1>1, <1>6 DEF Aborted, RunRecord
    <2>2. QED BY <1>2, <1>6, <2>1
  <1>7. ASSUME NEW r \in Requests, UserAsks(r) \/ Handle(r) \/ RequestFault(r)
        PROVE  AbortReachable'
    <2>1. CASE CancelAbort(r) BY <1>6, <2>1 DEF CancelAbort
    <2>2. CASE ~CancelAbort(r)
      BY <1>2, <1>7, <2>2 DEF UserAsks, Create, CancelRead, RetryRead, DeleteRead, Handle,
         WakeReply, ReplyGone, CancelQueued, CancelFiles, CancelRunning, RetryWrite,
         DeletePurge, DeleteRow, RequestFault, worker
    <2>3. QED BY <2>1, <2>2
  <1>8. ASSUME NEW s \in Slots, Advance(s) \/ Transfer(s) \/ RecordFault(s) \/ RunFault(s)
                                \/ FailedFault(s)
        PROVE AbortReachable'
    BY <1>3, <1>4, <1>8 DEF Advance, Transfer, Works
  <1>9. CASE Drain \/ DrainFault \/ Immediate
    BY <1>2, <1>5, <1>9
       DEF Drain, DrainFind, DrainMissed, DrainClaim, DrainLost, DrainFault, Immediate
  <1>10. CASE Boot BY <1>2, <1>10 DEF Boot, BootJobs, BootFiles, BootUp, worker
  <1>11. CASE Shutdown BY <1>6, <1>11 DEF Shutdown
  <1>12. CASE Exit \/ Crash
    BY <1>12, FreshTypes DEF Exit, Crash, ProcessEnds, AbortReachable, Live
  <1>13. CASE UNCHANGED vars BY <1>2, <1>13 DEF vars, worker
  <1>14. QED BY <1>7, <1>8, <1>9, <1>10, <1>11, <1>12, <1>13 DEF Next

\* With the default Concurrency of 1 a cancel always finds the handle of the
\* run it means.
THEOREM AbortsReach == ASSUME Concurrency = 1 PROVE Spec => []AbortReachable
  <1>1. Init => AbortReachable BY FreshTypes DEF Init, AbortReachable, Live
  <1>2. IInv /\ AbortReachable /\ [Next]_vars => AbortReachable' BY NextReachable
  <1>3. QED BY <1>1, <1>2, Invariant, PTL DEF Spec

-----------------------------------------------------------------------------
(* Whose abort handle the table holds.                                     *)

\* A handle in the table is that of a live run of the job it is filed under.
\* A run that ends takes out whatever is filed under its job, its own included.
HandleInv == \A j \in Jobs : \A s \in aborts[j] : Live(s) /\ run[s].job = j

\* A step of a run neither gives it another job nor sets its flag.
LEMMA WorksAbort ==
    ASSUME TypeOK, NEW s \in Slots, Works(s)
    PROVE  \A t \in Slots : run'[t].job = run[t].job /\ run'[t].aborted = run[t].aborted
  <1>1. run \in [Slots -> RunRecord] BY DEF TypeOK, RunsOK
  <1>2. ASSUME NEW pc, Goto(s, pc)
        PROVE  \A t \in Slots : run'[t].job = run[t].job /\ run'[t].aborted = run[t].aborted
    BY <1>1, <1>2 DEF Goto, RunRecord
  <1>3. ASSUME NextFile(s)
        PROVE  \A t \in Slots : run'[t].job = run[t].job /\ run'[t].aborted = run[t].aborted
    BY <1>1, <1>3 DEF NextFile, RunRecord
  <1>4. CASE RunLoad(s)
    <2>1. CASE Goto(s, "leave") BY <1>2, <2>1
    <2>2. CASE run' = [run EXCEPT ![s].pc = "next", ![s].todo = Files \ Done(run[s].job),
                                  ![s].att = attempts[run[s].job]]
      BY <1>1, <2>2 DEF RunRecord
    <2>3. QED BY <1>4, <2>1, <2>2 DEF RunLoad
  <1>5. CASE RunCheck(s)
    <2>1. ASSUME NEW f, run' = [run EXCEPT ![s].pc = "probe", ![s].file = f]
          PROVE  \A t \in Slots : run'[t].job = run[t].job /\ run'[t].aborted = run[t].aborted
      BY <1>1, <2>1 DEF RunRecord
    <2>2. CASE run' = [run EXCEPT ![s].pc = "tally", ![s].cancelled = TRUE]
      BY <1>1, <2>2 DEF RunRecord
    <2>3. QED BY <1>2, <1>5, <2>1, <2>2 DEF RunCheck
  <1>6. CASE RunTally(s) BY <1>1, <1>6 DEF RunTally, RunRecord
  <1>7. CASE FetchThrow(s) \/ RecordFault(s)
    <2>1. Caught(s) BY <1>7 DEF FetchThrow, RecordFault
    <2>2. QED BY <1>1, <1>2, <1>3, <2>1 DEF Caught, RunRecord
  <1>8. CASE ~(RunLoad(s) \/ RunCheck(s) \/ RunTally(s) \/ FetchThrow(s) \/ RecordFault(s))
    BY <1>2, <1>3, <1>8
       DEF Works, RunReject, RunBegin, FetchSkip, FetchDump, FetchEnd, FetchRename, BackoffOver,
           RunRecordDone, RunTotals, RunSweep, RunVerdict, RunPost, RunRowGone, RunFault,
           RunFailed, FailedFault
  <1>9. QED BY <1>4, <1>5, <1>6, <1>7, <1>8

\* What every other step does to the table and the runs.
LEMMA HandleSteps ==
    ASSUME TypeOK, [Next]_vars, \A s \in Slots : ~Works(s) /\ ~RunEnd(s) /\ ~DrainStart(s)
    PROVE  \/ aborts' = aborts /\ run' = run
           \/ \E r \in Requests : CancelAbort(r)
           \/ Shutdown
           \/ ProcessEnds
  <1>1. ASSUME NEW r \in Requests, UserAsks(r) \/ Handle(r) \/ RequestFault(r), ~CancelAbort(r)
        PROVE  aborts' = aborts /\ run' = run
    BY <1>1 DEF UserAsks, Create, CancelRead, RetryRead, DeleteRead, Handle, WakeReply, ReplyGone,
       CancelQueued, CancelFiles, CancelRunning, RetryWrite, DeletePurge, DeleteRow, RequestFault,
       worker
  <1>2. CASE Drain \/ DrainFault \/ Immediate
    BY <1>2 DEF Drain, DrainFind, DrainMissed, DrainClaim, DrainLost, DrainFault, Immediate
  <1>3. CASE Boot BY <1>3 DEF Boot, BootJobs, BootFiles, BootUp, worker
  <1>4. CASE UNCHANGED vars BY <1>4 DEF vars, worker
  <1>5. CASE \E s \in Slots : \/ Advance(s) \/ Transfer(s) \/ RecordFault(s) \/ RunFault(s)
                              \/ FailedFault(s)
    BY <1>5 DEF Advance, Transfer, Works
  <1>6. QED BY <1>1, <1>2, <1>3, <1>4, <1>5 DEF Next, Exit, Crash

LEMMA AbortedFlags ==
    ASSUME TypeOK, NEW S, run' = Aborted(S)
    PROVE  \A t \in Slots : /\ run'[t].pc = run[t].pc /\ run'[t].job = run[t].job
                            /\ run'[t].aborted => run[t].aborted \/ t \in S
  BY DEF TypeOK, RunsOK, RunRecord, Aborted

LEMMA StartHandle ==
    ASSUME TypeOK, NEW s \in Slots, DrainStart(s)
    PROVE  /\ run'[s].pc = "load" /\ run'[s].job = drain.job /\ ~run'[s].aborted
           /\ drain.job \in Jobs /\ ~Live(s)
           /\ \A t \in Slots : t # s => run'[t] = run[t]
           /\ aborts' = [aborts EXCEPT ![drain.job] = {s}]
  <1> DEFINE g == [NoRun EXCEPT !.pc = "load", !.job = drain.job]
  <1>1. g.pc = "load" /\ g.job = drain.job /\ ~g.aborted BY DEF NoRun
  <1>2. run' = [run EXCEPT ![s] = g] BY DEF DrainStart
  <1> HIDE DEF g
  <1>3. QED BY <1>1, <1>2 DEF DrainStart, Registered, TypeOK, ProcessOK, RunsOK

LEMMA NextHandle ==
    ASSUME TypeOK, HandleInv, [Next]_vars
    PROVE  HandleInv'
  <1>1. run \in [Slots -> RunRecord] /\ aborts \in [Jobs -> SUBSET Slots]
    BY DEF TypeOK, RunsOK, ProcessOK
  <1>2. ASSUME aborts' = aborts,
               \A t \in Slots : run'[t].job = run[t].job /\ (run[t].pc # "idle" => run'[t].pc # "idle")
        PROVE  HandleInv'
    BY <1>1, <1>2 DEF HandleInv, Live
  <1>3. ASSUME NEW s \in Slots, Works(s) PROVE HandleInv'
    <2>1. LiveSlots' = LiveSlots /\ aborts' = aborts BY <1>3, WorksTypes
    <2>2. \A t \in Slots : run[t].pc # "idle" => run'[t].pc # "idle" BY <2>1 DEF LiveSlots, Live
    <2>3. QED BY <1>2, <1>3, <2>1, <2>2, WorksAbort
  <1>4. ASSUME NEW s \in Slots, RunEnd(s) PROVE HandleInv'
    <2>1. /\ aborts' = [aborts EXCEPT ![run[s].job] = {}]
          /\ \A t \in Slots : t # s => run'[t] = run[t]
      BY <1>1, <1>4 DEF RunEnd, Forget
    <2>2. ASSUME NEW j \in Jobs, NEW t \in aborts'[j] PROVE Live(t)' /\ run'[t].job = j
      <3>1. run[s].job # j /\ t \in aborts[j] BY <1>1, <2>1, <2>2
      <3>2. Live(t) /\ run[t].job = j /\ t \in Slots BY <1>1, <3>1 DEF HandleInv
      <3>3. run'[t] = run[t] BY <2>1, <3>1, <3>2
      <3>4. QED BY <3>2, <3>3 DEF Live
    <2>3. QED BY <2>2 DEF HandleInv
  <1>5. ASSUME NEW s \in Slots, DrainStart(s) PROVE HandleInv'
    <2>1. ASSUME NEW j \in Jobs, NEW t \in aborts'[j] PROVE Live(t)' /\ run'[t].job = j
      <3>1. CASE t = s /\ j = drain.job BY <1>5, <3>1, StartHandle DEF Live
      <3>2. CASE ~(t = s /\ j = drain.job)
        <4>1. t \in aborts[j] BY <1>1, <1>5, <2>1, <3>2, StartHandle
        <4>2. Live(t) /\ run[t].job = j /\ t \in Slots BY <1>1, <4>1 DEF HandleInv
        <4>3. t # s BY <1>5, <4>2, StartHandle
        <4>4. run'[t] = run[t] BY <1>5, <4>2, <4>3, StartHandle
        <4>5. QED BY <4>2, <4>4 DEF Live
      <3>3. QED BY <3>1, <3>2
    <2>2. QED BY <2>1 DEF HandleInv
  <1>6. ASSUME NEW r \in Requests, CancelAbort(r) PROVE HandleInv'
    BY <1>2, <1>6, AbortedFlags DEF CancelAbort
  <1>7. CASE Shutdown BY <1>2, <1>7, AbortedFlags DEF Shutdown
  <1>8. CASE ProcessEnds BY <1>8 DEF ProcessEnds, HandleInv
  <1>9. CASE aborts' = aborts /\ run' = run BY <1>2, <1>9
  <1>10. QED BY <1>3, <1>4, <1>5, <1>6, <1>7, <1>8, <1>9, HandleSteps

\* The flag of a run is set only for a cancel of its own job, or by a shutdown,
\* for every number of concurrent runs and whenever a late abort comes.
THEOREM AbortsAreMeant == Spec => AbortIsMeant
  <1> DEFINE Meant == \A s \in Slots :
                        ~run[s].aborted /\ run'[s].aborted
                          => \/ ~stopped /\ stopped'
                             \/ \E r \in Requests : req[r].pc = "cancelled" /\ req[r].job = run[s].job
  <1>1. Init => HandleInv BY DEF Init, HandleInv
  <1>2. TypeOK /\ HandleInv /\ [Next]_vars => [Meant]_vars
    <2> SUFFICES ASSUME TypeOK, HandleInv, [Next]_vars, NEW s \in Slots,
                        ~run[s].aborted, run'[s].aborted
                 PROVE  \/ ~stopped /\ stopped'
                        \/ \E r \in Requests : req[r].pc = "cancelled" /\ req[r].job = run[s].job
      OBVIOUS
    <2>1. run \in [Slots -> RunRecord] /\ aborts \in [Jobs -> SUBSET Slots]
      BY DEF TypeOK, RunsOK, ProcessOK
    <2>2. \A t \in Slots : ~Works(t) BY WorksAbort
    <2>3. \A t \in Slots : ~RunEnd(t)
      <3>1. ~NoRun.aborted BY DEF NoRun
      <3>2. QED BY <2>1, <3>1 DEF RunEnd
    <2>4. \A t \in Slots : ~DrainStart(t) BY StartHandle
    <2>5. ASSUME NEW r \in Requests, CancelAbort(r)
          PROVE  req[r].pc = "cancelled" /\ req[r].job = run[s].job
      <3>1. req[r].pc = "cancelled" /\ run' = Aborted(aborts[req[r].job])
        BY <2>5 DEF CancelAbort, Handles
      <3>2. s \in aborts[req[r].job] BY <3>1, AbortedFlags
      <3>3. req[r].job \in Jobs BY <3>1 DEF TypeOK, RequestsOK, ReqOK
      <3>4. QED BY <3>1, <3>2, <3>3 DEF HandleInv
    <2>6. CASE Shutdown BY <2>6 DEF Shutdown
    <2>7. ~ProcessEnds
      <3>1. ~NoRun.aborted BY DEF NoRun
      <3>2. QED BY <3>1 DEF ProcessEnds
    <2>8. run' # run OBVIOUS
    <2>9. QED BY <2>2, <2>3, <2>4, <2>5, <2>6, <2>7, <2>8, HandleSteps
  <1>3. TypeOK /\ HandleInv /\ [Next]_vars => HandleInv' BY NextHandle
  <1>4. QED BY <1>1, <1>2, <1>3, TypeCorrect, PTL DEF Spec, AbortIsMeant
=============================================================================
