------------------------------ MODULE TitleJobs ------------------------------
(***************************************************************************)
(* The jobs of one title: creations of several users                       *)
(* (downloads/service.ts), the cards of the downloads page                 *)
(* (web/src/pages/Downloads.tsx), and the files they share.  All jobs of a *)
(* title write to the same folder, so a file is named by its path.         *)
(*                                                                         *)
(* The steps of a cancel, a retry and a run are those of DownloadQueue,    *)
(* as are the races of several requests for one job; here each takes       *)
(* effect at once and a job has one card.  What matters is which job does  *)
(* what to the files of which: a file lands, is taken away or recorded in  *)
(* steps of their own, and between any two other jobs of the title move,   *)
(* a call fails or the server ends.                                        *)
(***************************************************************************)
EXTENDS Naturals, FiniteSets

CONSTANTS
    MaxJobs,     \* bound: how many jobs the title ever has
    Paths,       \* of the files of the title
    MaxCreations \* bound: how many creations are under way together

ASSUME JobsAssumption == MaxJobs \in Nat /\ MaxCreations \in Nat

VARIABLES
    status, wants, done,   \* each job: its row, its file rows, those COMPLETED
    disk,                  \* files under their final names
    landing, removing,     \* the file each job has in place and not yet recorded; the
                           \*   files that the deletion of each has still to remove
    clear, outdated,       \* how many creations wait for the catalogue that found no
                           \*   active job; since when none, or one, became active
    list, card,            \* the card of each job, by its buttons; the call it waits for
    overtaken,             \* history: see OneUnlessOvertaken
    purged                 \* history: see RecordedStays

rows == <<status, wants, done, disk>>
working == <<landing, removing>>
cards == <<list, card>>
creations == <<clear, outdated>>
jobsHistory == <<overtaken, purged>>
jobsVars == <<rows, working, creations, cards, jobsHistory>>

Jobs == 1..MaxJobs
Active == {"QUEUED", "RUNNING"}
IsTerminal(s) == s \in {"COMPLETED", "PARTIAL", "FAILED", "CANCELLED"}
ActiveJobs == {j \in Jobs : status[j] \in Active}

JobsInit ==
    /\ status = [j \in Jobs |-> "none"]
    /\ wants = [j \in Jobs |-> {}] /\ done = [j \in Jobs |-> {}]
    /\ disk = {}
    /\ landing = [j \in Jobs |-> {}] /\ removing = [j \in Jobs |-> {}]
    /\ clear = 0 /\ outdated = 0
    /\ list = [j \in Jobs |-> "none"] /\ card = [j \in Jobs |-> "idle"]
    /\ overtaken = FALSE /\ purged = {}

-----------------------------------------------------------------------------
\* Mutant: only a running job is in the way of another.
InTheWayRunning == {j \in Jobs : status[j] = "RUNNING"}

\* What createDownload looks for.
InTheWay == ActiveJobs

CreateLooks ==
    /\ clear + outdated < MaxCreations /\ InTheWay = {}
    /\ clear' = clear + 1
    /\ UNCHANGED <<rows, working, outdated, cards, jobsHistory>>

\* The catalogue has answered a creation with a plan, for all of the title or a
\* part, or with an error or no file.
CreatePlanned(isOutdated) ==
    /\ IF isOutdated THEN outdated > 0 ELSE clear > 0
    /\ \/ /\ clear' = IF isOutdated THEN clear ELSE clear - 1
          /\ outdated' = IF isOutdated THEN outdated - 1 ELSE outdated
          /\ UNCHANGED <<rows, overtaken>>
       \/ \E j \in Jobs, fs \in (SUBSET Paths) \ {{}} :
            /\ status[j] = "none" /\ \A i \in 1..(j - 1) : status[i] # "none"
            /\ status' = [status EXCEPT ![j] = "QUEUED"]
            /\ wants' = [wants EXCEPT ![j] = fs]
            /\ overtaken' = (overtaken \/ (isOutdated /\ ActiveJobs # {}))
            /\ clear' = 0 /\ outdated' = clear + outdated - 1
            /\ UNCHANGED <<done, disk>>
    /\ UNCHANGED <<working, cards, purged>>

-----------------------------------------------------------------------------
(* The worker, one job at a time.                                          *)

Claim(j) ==
    /\ status[j] = "QUEUED" /\ \A i \in Jobs : status[i] # "RUNNING"
    /\ status' = [status EXCEPT ![j] = "RUNNING"]
    /\ UNCHANGED <<wants, done, disk, working, creations, cards, jobsHistory>>

\* fetchFile: a file is there already, or is renamed into place.
Land(j, f) ==
    /\ status[j] = "RUNNING" /\ landing[j] = {} /\ f \in wants[j] \ done[j]
    /\ landing' = [landing EXCEPT ![j] = {f}]
    /\ disk' = disk \cup {f} /\ purged' = purged \ {f}
    /\ UNCHANGED <<status, wants, done, removing, creations, cards, overtaken>>

\* What is there has another size than the host tells now, and is removed before
\* the file is fetched again.
Replace(j, f) ==
    /\ status[j] = "RUNNING" /\ landing[j] = {} /\ f \in (wants[j] \ done[j]) \cap disk
    /\ disk' = disk \ {f} /\ purged' = purged \cup {f}
    /\ UNCHANGED <<status, wants, done, working, creations, cards, overtaken>>

\* processFile hears of it and records it; that call may fail.
Record(j, succeeds) ==
    /\ landing[j] # {}
    /\ done' = IF succeeds THEN [done EXCEPT ![j] = @ \cup landing[j]] ELSE done
    /\ landing' = [landing EXCEPT ![j] = {}]
    /\ UNCHANGED <<status, wants, disk, removing, creations, cards, jobsHistory>>

Verdict(j) ==
    IF done[j] = wants[j] THEN "COMPLETED" ELSE IF done[j] # {} THEN "PARTIAL" ELSE "FAILED"

Finish(j) ==
    /\ status[j] = "RUNNING" /\ landing[j] = {}
    /\ status' = [status EXCEPT ![j] = Verdict(j)]
    /\ UNCHANGED <<wants, done, disk, working, creations, cards, jobsHistory>>

-----------------------------------------------------------------------------
(* The cards.                                                              *)

\* The cards the list may have, told apart as far as their buttons differ.
CardOf(s) ==
    CASE s \in Active -> "active"
      [] s = "COMPLETED" -> "completed"
      [] s \in {"PARTIAL", "FAILED", "CANCELLED"} -> "unfinished"
      [] OTHER -> "none"

\* The list hears of a job, sooner or later.
Hear(j) ==
    /\ list[j] # CardOf(status[j])
    /\ list' = [list EXCEPT ![j] = CardOf(status[j])]
    /\ UNCHANGED <<rows, working, creations, card, jobsHistory>>

\* The buttons of a card, while it is not busy.
Buttons(j) ==
    CASE list[j] = "active" -> {"cancel"}
      [] list[j] = "completed" -> {"delete"}
      [] list[j] = "unfinished" -> {"retry", "delete"}
      [] OTHER -> {}

Act(j) ==
    /\ card[j] = "idle"
    /\ \E b \in Buttons(j) : card' = [card EXCEPT ![j] = b]
    /\ UNCHANGED <<rows, working, creations, list, jobsHistory>>

\* The call is answered; after a success the page asks for the list.
CardOver(j, succeeds) ==
    /\ card' = [card EXCEPT ![j] = "idle"]
    /\ list' = IF succeeds THEN [i \in Jobs |-> CardOf(status'[i])] ELSE list

\* requestCancel, and the worker that obeys, between two files.
Cancel(j) ==
    /\ card[j] = "cancel" /\ landing[j] = {}
    /\ status' = IF status[j] \in Active THEN [status EXCEPT ![j] = "CANCELLED"] ELSE status
    /\ CardOver(j, status[j] \in Active)
    /\ UNCHANGED <<wants, done, disk, working, creations, jobsHistory>>

CanRetry(j) == IsTerminal(status[j]) /\ wants[j] # done[j]

\* retryDownload: nothing is asked of the other jobs of the title.
Retry(j) ==
    /\ card[j] = "retry"
    /\ status' = IF CanRetry(j) THEN [status EXCEPT ![j] = "QUEUED"] ELSE status
    /\ overtaken' = (overtaken \/ (CanRetry(j) /\ ActiveJobs # {}))
    /\ IF CanRetry(j) THEN clear' = 0 /\ outdated' = clear + outdated ELSE UNCHANGED creations
    /\ CardOver(j, CanRetry(j))
    /\ UNCHANGED <<wants, done, disk, working, purged>>

\* Mutant: the folder of the title is removed.
RemovedAll(j) == disk

\* removeDownloadFiles: the files of the job, whoever else has them.
Removed(j) == wants[j]

\* deleteDownload as the card asks for it, with the files: it looks at the job, ...
DeleteLooks(j) ==
    /\ card[j] = "delete"
    /\ IF IsTerminal(status[j])
       THEN /\ removing' = [removing EXCEPT ![j] = Removed(j)]
            /\ card' = [card EXCEPT ![j] = "erase"] /\ list' = list
       ELSE removing' = removing /\ CardOver(j, FALSE)
    /\ UNCHANGED <<rows, landing, creations, jobsHistory>>

\* ... removes its files one after another, in an order that does not matter here, ...
RemoveFile(j, f) ==
    /\ card[j] = "erase" /\ f \in removing[j]
    /\ removing' = [removing EXCEPT ![j] = @ \ {f}]
    /\ disk' = disk \ {f} /\ purged' = purged \cup ({f} \cap wants[j])
    /\ UNCHANGED <<status, wants, done, landing, creations, cards, overtaken>>

\* ... and then deletes its row, and with it the rows of its files.
Delete(j) ==
    /\ card[j] = "erase" /\ removing[j] = {}
    /\ status' = [status EXCEPT ![j] = "deleted"]
    /\ wants' = [wants EXCEPT ![j] = {}] /\ done' = [done EXCEPT ![j] = {}]
    /\ CardOver(j, TRUE)
    /\ UNCHANGED <<disk, working, creations, jobsHistory>>

\* A file cannot be removed, or the row cannot: the files already removed are gone,
\* and the job stays.
DeleteBreaks(j) ==
    /\ card[j] = "erase"
    /\ removing' = [removing EXCEPT ![j] = {}]
    /\ CardOver(j, FALSE)
    /\ UNCHANGED <<rows, landing, creations, jobsHistory>>

-----------------------------------------------------------------------------
\* The server ends and starts again: the requests under way are lost with what a
\* run knew, and a RUNNING job is taken up again; after a shutdown it may have been
\* cancelled.
ServerEnds ==
    /\ \E s \in {"QUEUED", "CANCELLED"} :
         status' = [j \in Jobs |-> IF status[j] = "RUNNING" THEN s ELSE status[j]]
    /\ landing' = [j \in Jobs |-> {}] /\ removing' = [j \in Jobs |-> {}]
    /\ clear' = 0 /\ outdated' = 0 /\ card' = [j \in Jobs |-> "idle"]
    /\ UNCHANGED <<wants, done, disk, list, jobsHistory>>

JobsNext ==
    \/ CreateLooks \/ \E isOutdated \in BOOLEAN : CreatePlanned(isOutdated)
    \/ \E j \in Jobs :
         \/ Claim(j) \/ Finish(j) \/ \E succeeds \in BOOLEAN : Record(j, succeeds)
         \/ \E f \in Paths : Land(j, f) \/ Replace(j, f) \/ RemoveFile(j, f)
         \/ Hear(j) \/ Act(j) \/ Cancel(j) \/ Retry(j)
         \/ DeleteLooks(j) \/ Delete(j) \/ DeleteBreaks(j)
    \/ ServerEnds

-----------------------------------------------------------------------------
\* "One in-flight job per title is plenty, and a second would race the first
\* for the same files on disk" (service.ts:177).
OneJobPerTitle == Cardinality(ActiveJobs) <= 1

\* It is so unless, once, a job was retried while another was active, or a
\* creation inserted its job although another had become active after it looked.
OneUnlessOvertaken == OneJobPerTitle \/ overtaken

\* A file recorded as COMPLETED is in place, over cancels, retries, failing calls and
\* restarts, unless it was taken away, since it last landed, on behalf of a job that
\* lists it: by the deletion of another job of the title, also before the record is
\* made; by a deletion of its own job that then breaks off or is under way; or by a
\* job that found it of another size than the host tells now.  Those are the three
\* ways in which a record outlives its file (H28).
RecordedStays ==
    \A j \in Jobs : done[j] \subseteq disk \cup purged
=============================================================================
