------------------------------ MODULE SiteProofs ------------------------------
(***************************************************************************)
(* Proofs about the page of a title and the jobs made from it, for every   *)
(* number of jobs, every set of files, users and states of the catalogue,  *)
(* and then that all parts of the site keep their types.                   *)
(***************************************************************************)
EXTENDS CatalogueProofs, BrowserProofs

\* A step of the site is a step of the jobs or leaves them alone.
LEMMA JobsMove == [Next]_vars => JobsNext \/ UNCHANGED jobsVars
  BY DEF Next, vars

\* A step of the site is a step of the title's page or leaves it alone.
LEMMA TitleMoves == [Next]_vars => TitleNext \/ UNCHANGED titleVars
  BY DEF Next, vars

-----------------------------------------------------------------------------
(* One job per title.                                                      *)

JobStatus == {"none", "deleted"} \cup Active \cup {"COMPLETED", "PARTIAL", "FAILED", "CANCELLED"}

JobsTyped ==
    /\ status \in [Jobs -> JobStatus]
    /\ wants \in [Jobs -> SUBSET Paths] /\ done \in [Jobs -> SUBSET Paths]
    /\ landing \in [Jobs -> SUBSET Paths] /\ removing \in [Jobs -> SUBSET Paths]
    /\ clear \in Nat /\ outdated \in Nat
    /\ card \in [Jobs -> {"idle", "cancel", "retry", "delete", "erase"}]
    /\ overtaken \in BOOLEAN

\* Any two active jobs are one.
OneActive == \A i, j \in Jobs : status[i] \in Active /\ status[j] \in Active => i = j

\* A creation that saw no active job, and since which none has become active, would
\* still see none.
StillClear == clear > 0 => \A j \in Jobs : status[j] \notin Active

JobsInv == JobsTyped /\ (OneActive \/ overtaken) /\ StillClear

LEMMA JobsFirst == Init => JobsInv
<1>. SUFFICES ASSUME JobsInit PROVE JobsInv
  BY DEF Init
<1>1. JobsTyped
  BY DEF JobsInit, JobsTyped, JobStatus
<1>. QED BY <1>1 DEF JobsInit, JobsInv, OneActive, StillClear, Active

\* A job may become active when no other is, and leaves no creation under way that
\* would miss it.
LEMMA OneJoins ==
  ASSUME JobsInv,
         NEW j \in Jobs, status' = [status EXCEPT ![j] = "QUEUED"],
         overtaken' \in BOOLEAN, overtaken => overtaken',
         ActiveJobs # {} => overtaken',
         clear' = 0
  PROVE  (OneActive \/ overtaken)' /\ StillClear'
<1>. USE DEF JobsInv, JobsTyped
<1>1. CASE overtaken'
  BY <1>1 DEF StillClear
<1>2. CASE ActiveJobs = {}
  BY <1>2 DEF OneActive, StillClear, ActiveJobs
<1>. QED BY <1>1, <1>2

\* No step but these two makes a job active.
LEMMA NoneJoins ==
  ASSUME JobsInv,
         \A j \in Jobs : status'[j] \in Active => status[j] \in Active,
         clear' > 0 => clear > 0, UNCHANGED overtaken
  PROVE  (OneActive \/ overtaken)' /\ StillClear'
  BY DEF JobsInv, OneActive, StillClear

LEMMA JobsStep == ASSUME JobsInv, JobsNext PROVE JobsInv'
<1>. USE DEF JobsInv, JobsTyped, JobStatus, Active, IsTerminal
<1>1. ASSUME CreateLooks PROVE JobsInv'
  <2>1. JobsTyped'
    BY <1>1 DEF CreateLooks, rows, working, cards, jobsHistory
  <2>2. \A j \in Jobs : status'[j] \notin Active
    BY <1>1 DEF CreateLooks, rows, InTheWay, ActiveJobs
  <2>3. (OneActive \/ overtaken)'
    BY <2>2 DEF OneActive
  <2>. QED BY <2>1, <2>2, <2>3 DEF StillClear
<1>2. ASSUME NEW isOutdated \in BOOLEAN, CreatePlanned(isOutdated) PROVE JobsInv'
  <2>1. CASE /\ clear' = IF isOutdated THEN clear ELSE clear - 1
             /\ outdated' = IF isOutdated THEN outdated - 1 ELSE outdated
             /\ UNCHANGED <<rows, overtaken>>
    <3>1. clear' \in Nat /\ outdated' \in Nat /\ (clear' > 0 => clear > 0)
      BY <1>2, <2>1 DEF CreatePlanned
    <3>2. JobsTyped'
      BY <1>2, <2>1, <3>1 DEF CreatePlanned, rows, working, cards
    <3>3. UNCHANGED <<status, overtaken>>
      BY <2>1 DEF rows
    <3>. QED BY <3>1, <3>2, <3>3, NoneJoins
  <2>2. ASSUME NEW j \in Jobs, NEW fs \in (SUBSET Paths) \ {{}},
               status' = [status EXCEPT ![j] = "QUEUED"],
               wants' = [wants EXCEPT ![j] = fs],
               overtaken' = (overtaken \/ (isOutdated /\ ActiveJobs # {})),
               clear' = 0, outdated' = clear + outdated - 1,
               UNCHANGED <<done, disk>>
        PROVE  JobsInv'
    <3>1. outdated' \in Nat
      BY <1>2, <2>2 DEF CreatePlanned
    <3>2. JobsTyped'
      BY <1>2, <2>2, <3>1 DEF CreatePlanned, working, cards
    <3>3. ActiveJobs # {} => isOutdated
      BY <1>2 DEF CreatePlanned, StillClear, ActiveJobs
    <3>. QED BY <2>2, <3>2, <3>3, OneJoins
  <2>. QED BY <1>2, <2>1, <2>2 DEF CreatePlanned
<1>3. ASSUME NEW j \in Jobs, Claim(j) PROVE JobsInv'
  BY <1>3, NoneJoins DEF Claim, working, creations, cards, jobsHistory
<1>4. ASSUME NEW j \in Jobs, Finish(j) PROVE JobsInv'
  BY <1>4, NoneJoins DEF Finish, Verdict, working, creations, cards, jobsHistory
<1>5. ASSUME NEW j \in Jobs, NEW f \in Paths, Land(j, f) \/ Replace(j, f) \/ RemoveFile(j, f) PROVE JobsInv'
  BY <1>5, NoneJoins DEF Land, Replace, RemoveFile, working, creations, cards
<1>6. ASSUME NEW j \in Jobs, NEW succeeds \in BOOLEAN, Record(j, succeeds) PROVE JobsInv'
  BY <1>6, NoneJoins DEF Record, creations, cards, jobsHistory
<1>7. ASSUME NEW j \in Jobs, Hear(j) PROVE JobsInv'
  BY <1>7, NoneJoins DEF Hear, rows, working, creations, jobsHistory
<1>8. ASSUME NEW j \in Jobs, Act(j) PROVE JobsInv'
  <2>1. Buttons(j) \subseteq {"cancel", "retry", "delete"}
    BY DEF Buttons
  <2>. QED BY <1>8, <2>1, NoneJoins DEF Act, rows, working, creations, jobsHistory
<1>9. ASSUME NEW j \in Jobs, Cancel(j) PROVE JobsInv'
  BY <1>9, NoneJoins DEF Cancel, CardOver, working, creations, jobsHistory
<1>10. ASSUME NEW j \in Jobs, Retry(j) PROVE JobsInv'
  <2>1. CASE CanRetry(j)
    <3>1. clear' = 0 /\ outdated' \in Nat
      BY <1>10, <2>1 DEF Retry
    <3>2. JobsTyped'
      BY <1>10, <2>1, <3>1 DEF Retry, CardOver, working
    <3>. QED BY <1>10, <2>1, <3>1, <3>2, OneJoins DEF Retry
  <2>2. CASE ~CanRetry(j)
    <3>1. UNCHANGED <<status, clear, overtaken>> /\ JobsTyped'
      BY <1>10, <2>2 DEF Retry, CardOver, working, creations
    <3>. QED BY <3>1, NoneJoins
  <2>. QED BY <2>1, <2>2
<1>11. ASSUME NEW j \in Jobs, DeleteLooks(j) PROVE JobsInv'
  <2>1. JobsTyped'
    BY <1>11 DEF DeleteLooks, CardOver, Removed, rows, creations, jobsHistory
  <2>. QED BY <1>11, <2>1, NoneJoins DEF DeleteLooks, rows, creations, jobsHistory
<1>12. ASSUME NEW j \in Jobs, Delete(j) PROVE JobsInv'
  BY <1>12, NoneJoins DEF Delete, CardOver, working, creations, jobsHistory
<1>13. ASSUME NEW j \in Jobs, DeleteBreaks(j) PROVE JobsInv'
  <2>1. JobsTyped'
    BY <1>13 DEF DeleteBreaks, CardOver, rows, creations, jobsHistory
  <2>. QED BY <1>13, <2>1, NoneJoins DEF DeleteBreaks, rows, creations, jobsHistory
<1>14. ASSUME ServerEnds PROVE JobsInv'
  <2>1. \A j \in Jobs : status'[j] \in JobStatus /\ (status'[j] \in Active => status[j] \in Active)
    BY <1>14 DEF ServerEnds
  <2>2. JobsTyped'
    BY <1>14, <2>1 DEF ServerEnds, jobsHistory
  <2>. QED BY <1>14, <2>1, <2>2, NoneJoins DEF ServerEnds, jobsHistory
<1>. QED BY <1>1, <1>2, <1>3, <1>4, <1>5, <1>6, <1>7, <1>8, <1>9, <1>10, <1>11, <1>12, <1>13, <1>14 DEF JobsNext

LEMMA JobsInductive == JobsInv /\ [Next]_vars => JobsInv'
<1>1. ASSUME JobsInv, UNCHANGED jobsVars PROVE JobsInv'
  BY <1>1 DEF JobsInv, JobsTyped, OneActive, StillClear, jobsVars, rows, working, creations, cards, jobsHistory
<1>. QED BY <1>1, JobsMove, JobsStep

\* A set of which any two members are one has at most one.
LEMMA AtMostOne ==
  ASSUME NEW S, \A x, y \in S : x = y PROVE Cardinality(S) <= 1
<1>1. CASE S = {}
  BY <1>1, FS_EmptySet
<1>2. CASE S # {}
  <2>1. PICK x \in S : S = {x}
    BY <1>2
  <2>2. Cardinality({x}) = 1
    BY FS_Singleton
  <2>. QED BY <2>1, <2>2
<1>. QED BY <1>1, <1>2

\* "One in-flight job per title is plenty" (service.ts:177): two jobs of a title
\* are active together only if, once, one was retried while another was, or a
\* creation inserted its job although another became active after it looked.
THEOREM OneOrOvertaken == Spec => []OneUnlessOvertaken
<1>1. JobsInv => OneUnlessOvertaken
  BY AtMostOne DEF JobsInv, OneUnlessOvertaken, OneJobPerTitle, OneActive, ActiveJobs
<1>. QED BY JobsFirst, JobsInductive, <1>1, PTL DEF Spec

-----------------------------------------------------------------------------
(* The files of a job.                                                     *)

\* What a job has done, has in place or has still to remove is what it lists.
JobsWithin ==
    /\ \A j \in Jobs : /\ done[j] \cup landing[j] \cup removing[j] \subseteq wants[j]
                       /\ status[j] = "none" => done[j] \cup landing[j] \cup removing[j] = {}
                       /\ landing[j] # {} => status[j] = "RUNNING"
                       /\ removing[j] # {} => card[j] = "erase"
                       /\ card[j] = "erase" => IsTerminal(status[j])
    /\ disk \subseteq Paths /\ purged \subseteq Paths

LEMMA JobsWithinStep == ASSUME JobsTyped, JobsWithin, JobsNext PROVE JobsWithin'
<1>. USE DEF JobsTyped, JobsWithin
<1>1. CASE UNCHANGED <<rows, working, card, purged>>
  BY <1>1 DEF rows, working
<1>2. ASSUME NEW isOutdated \in BOOLEAN, CreatePlanned(isOutdated) PROVE JobsWithin'
  <2>1. CASE UNCHANGED rows
    BY <1>1, <1>2, <2>1 DEF CreatePlanned, cards
  <2>2. ASSUME NEW j \in Jobs, NEW fs \in SUBSET Paths, status[j] = "none", UNCHANGED <<done, disk>>,
               status' = [status EXCEPT ![j] = "QUEUED"], wants' = [wants EXCEPT ![j] = fs]
        PROVE  JobsWithin'
    BY <1>2, <2>2 DEF CreatePlanned, IsTerminal, working, cards
  <2>. QED BY <1>2, <2>1, <2>2 DEF CreatePlanned
<1>3. ASSUME NEW j \in Jobs, Claim(j) \/ Finish(j) PROVE JobsWithin'
  BY <1>3 DEF Claim, IsTerminal, Finish, Verdict, working, cards, jobsHistory
<1>4. ASSUME NEW j \in Jobs, NEW f \in Paths, Land(j, f) PROVE JobsWithin'
  BY <1>4 DEF Land, cards
<1>5. ASSUME NEW j \in Jobs, NEW f \in Paths, Replace(j, f) PROVE JobsWithin'
  BY <1>5 DEF Replace, working, cards
<1>6. ASSUME NEW j \in Jobs, NEW f \in Paths, RemoveFile(j, f) PROVE JobsWithin'
  BY <1>6 DEF RemoveFile, cards
<1>7. ASSUME NEW j \in Jobs, NEW succeeds \in BOOLEAN, Record(j, succeeds) PROVE JobsWithin'
  BY <1>7 DEF Record, cards, jobsHistory
<1>8. ASSUME NEW j \in Jobs, Cancel(j) \/ Retry(j) PROVE JobsWithin'
  <2>1. UNCHANGED <<wants, done, landing, removing, disk, purged>>
    BY <1>8 DEF Cancel, Retry, working, jobsHistory
  <2>2. \/ status' = status
        \/ landing[j] = {} /\ \E s \in {"CANCELLED", "QUEUED"} : status' = [status EXCEPT ![j] = s]
    <3>1. IsTerminal(status[j]) => landing[j] = {}
      BY DEF IsTerminal
    <3>2. Retry(j) => \/ status' = status
                      \/ IsTerminal(status[j]) /\ status' = [status EXCEPT ![j] = "QUEUED"]
      BY DEF Retry, CanRetry
    <3>3. Cancel(j) => landing[j] = {} /\ (status' = status \/ status' = [status EXCEPT ![j] = "CANCELLED"])
      BY DEF Cancel
    <3>. QED BY <1>8, <3>1, <3>2, <3>3
  <2>3. removing[j] = {} /\ card'[j] = "idle" /\ \A i \in Jobs : i # j => card'[i] = card[i]
    BY <1>8 DEF Cancel, Retry, CardOver
  <2>. QED BY <2>1, <2>2, <2>3
<1>9. ASSUME NEW j \in Jobs, DeleteLooks(j) PROVE JobsWithin'
  <2>1. UNCHANGED <<status, wants, done, landing, disk, purged>>
    BY <1>9 DEF DeleteLooks, rows, jobsHistory
  <2>2. CASE ~IsTerminal(status[j])
    <3>1. removing' = removing /\ removing[j] = {} /\ card'[j] = "idle" /\ \A i \in Jobs : i # j => card'[i] = card[i]
      BY <1>9, <2>2 DEF DeleteLooks, CardOver
    <3>. QED BY <2>1, <3>1
  <2>3. CASE IsTerminal(status[j])
    <3>1. removing' = [removing EXCEPT ![j] = wants[j]] /\ card' = [card EXCEPT ![j] = "erase"]
      BY <1>9, <2>3 DEF DeleteLooks, Removed
    <3>2. status[j] # "none"
      BY <2>3 DEF IsTerminal
    <3>3. ASSUME NEW i \in Jobs, i # j PROVE removing'[i] = removing[i] /\ card'[i] = card[i]
      BY <3>1, <3>3
    <3>4. removing'[j] = wants[j] /\ card'[j] = "erase" /\ IsTerminal(status[j]) /\ done[j] \cup landing[j] \subseteq wants[j]
      BY <2>3, <3>1
    <3>5. ASSUME NEW i \in Jobs
          PROVE  /\ done[i] \cup landing[i] \cup removing'[i] \subseteq wants[i]
                 /\ status[i] = "none" => done[i] \cup landing[i] \cup removing'[i] = {}
                 /\ landing[i] # {} => status[i] = "RUNNING"
                 /\ removing'[i] # {} => card'[i] = "erase"
                 /\ card'[i] = "erase" => IsTerminal(status[i])
      BY <3>2, <3>3, <3>4
    <3>. QED BY <2>1, <3>5
  <2>. QED BY <2>2, <2>3
<1>10. ASSUME NEW j \in Jobs, Delete(j) PROVE JobsWithin'
  BY <1>10 DEF Delete, IsTerminal, CardOver, working, jobsHistory
<1>11. ASSUME NEW j \in Jobs, DeleteBreaks(j) PROVE JobsWithin'
  BY <1>11 DEF DeleteBreaks, CardOver, rows, jobsHistory
<1>12. ASSUME ServerEnds PROVE JobsWithin'
  BY <1>12 DEF ServerEnds, jobsHistory
<1>13. ASSUME CreateLooks PROVE JobsWithin'
  BY <1>1, <1>13 DEF CreateLooks, cards, jobsHistory
<1>14. ASSUME NEW j \in Jobs, Hear(j) PROVE JobsWithin'
  BY <1>1, <1>14 DEF Hear, jobsHistory
<1>15. ASSUME NEW j \in Jobs, Act(j) PROVE JobsWithin'
  <2>1. \A b \in Buttons(j) : b # "erase"
    BY DEF Buttons
  <2>2. UNCHANGED <<rows, working, jobsHistory>> /\ card'[j] # "erase" /\ card[j] = "idle"
    BY <1>15, <2>1 DEF Act
  <2>3. \A i \in Jobs : i # j => card'[i] = card[i]
    BY <1>15 DEF Act
  <2>. QED BY <2>2, <2>3 DEF rows, working, jobsHistory, IsTerminal
<1>. QED BY <1>2, <1>3, <1>4, <1>5, <1>6, <1>7, <1>8, <1>9, <1>10, <1>11, <1>12, <1>13, <1>14, <1>15 DEF JobsNext

LEMMA JobsTypes == Spec => [](JobsTyped /\ JobsWithin)
<1>1. Init => JobsWithin
  BY DEF Init, JobsInit, JobsWithin
<1>2. JobsInv /\ JobsWithin /\ [Next]_vars => JobsWithin'
  <2>1. ASSUME JobsWithin, UNCHANGED jobsVars PROVE JobsWithin'
    BY <2>1 DEF JobsWithin, jobsVars, rows, working, cards, jobsHistory
  <2>. QED BY <2>1, JobsMove, JobsWithinStep DEF JobsInv
<1>3. JobsInv => JobsTyped
  BY DEF JobsInv
<1>. QED BY <1>1, <1>2, <1>3, JobsFirst, JobsInductive, PTL DEF Spec

-----------------------------------------------------------------------------
(* What a job has recorded.                                                *)

\* What a job has in place and will record next is like what it has recorded.
FilesAccounted == \A j \in Jobs : done[j] \cup landing[j] \subseteq disk \cup purged

LEMMA RecordsFirst == Init => FilesAccounted
  BY DEF Init, JobsInit, FilesAccounted

\* A step that takes no file away, and lets none land.
LEMMA RecordsKept ==
  ASSUME FilesAccounted, UNCHANGED <<disk, purged>>,
         \A j \in Jobs : done'[j] \cup landing'[j] \subseteq done[j] \cup landing[j]
  PROVE  FilesAccounted'
  BY DEF FilesAccounted

LEMMA RecordsStep == ASSUME JobsTyped, JobsWithin, FilesAccounted, JobsNext PROVE FilesAccounted'
<1>. USE DEF JobsTyped
<1>1. CASE UNCHANGED <<done, disk, landing, purged>>
  BY <1>1, RecordsKept
<1>2. ASSUME NEW j \in Jobs, NEW f \in Paths, Land(j, f) PROVE FilesAccounted'
  <2>1. \A i \in Jobs : done'[i] = done[i] /\ (i # j => landing'[i] = landing[i]) /\ landing'[j] = {f}
    BY <1>2 DEF Land
  <2>2. f \in disk' /\ disk \cup purged \subseteq disk' \cup purged'
    BY <1>2 DEF Land
  <2>. QED BY <2>1, <2>2 DEF FilesAccounted
<1>3. ASSUME NEW j \in Jobs, NEW f \in Paths, Replace(j, f) PROVE FilesAccounted'
  BY <1>3 DEF Replace, FilesAccounted, working
<1>4. ASSUME NEW j \in Jobs, NEW f \in Paths, RemoveFile(j, f) PROVE FilesAccounted'
  <2>1. f \in wants[j]
    BY <1>4 DEF RemoveFile, JobsWithin
  <2>2. disk \cup purged \subseteq disk' \cup purged'
    BY <1>4, <2>1 DEF RemoveFile
  <2>. QED BY <1>4, <2>2 DEF RemoveFile, FilesAccounted
<1>5. ASSUME NEW j \in Jobs, NEW succeeds \in BOOLEAN, Record(j, succeeds) PROVE FilesAccounted'
  BY <1>5, RecordsKept DEF Record, jobsHistory
<1>6. ASSUME NEW j \in Jobs, Delete(j) PROVE FilesAccounted'
  BY <1>6, RecordsKept DEF Delete, working, jobsHistory
<1>7. ASSUME ServerEnds PROVE FilesAccounted'
  BY <1>7, RecordsKept DEF ServerEnds, jobsHistory
<1>8. ASSUME CreateLooks PROVE FilesAccounted'
  BY <1>1, <1>8 DEF CreateLooks, rows, working, jobsHistory
<1>9. ASSUME NEW isOutdated \in BOOLEAN, CreatePlanned(isOutdated) PROVE FilesAccounted'
  BY <1>1, <1>9 DEF CreatePlanned, rows, working
<1>10. ASSUME NEW j \in Jobs, \/ Claim(j) \/ Finish(j) \/ Hear(j) \/ Act(j) \/ Cancel(j) \/ Retry(j)
                              \/ DeleteLooks(j) \/ DeleteBreaks(j)
       PROVE  FilesAccounted'
  BY <1>1, <1>10 DEF Claim, Finish, Hear, Act, Cancel, Retry, DeleteLooks, DeleteBreaks, rows, working, jobsHistory
<1>. QED BY <1>2, <1>3, <1>4, <1>5, <1>6, <1>7, <1>8, <1>9, <1>10 DEF JobsNext

\* A file recorded as COMPLETED is in place, over failing calls and restarts, unless
\* it was taken away since it last landed: by the deletion of a job that lists it,
\* that of another job even before the record is made, or by a job that found it of
\* another size (deleteDownload and removeDownloadFiles; fetcher.ts:66-75).
THEOREM RecordsStay == Spec => []RecordedStays
<1>1. ASSUME JobsTyped, JobsWithin, FilesAccounted, [Next]_vars PROVE FilesAccounted'
  <2>1. CASE UNCHANGED jobsVars
    BY <1>1, <2>1 DEF FilesAccounted, jobsVars, rows, working, jobsHistory
  <2>. QED BY <1>1, <2>1, JobsMove, RecordsStep
<1>2. FilesAccounted => RecordedStays
  BY DEF FilesAccounted, RecordedStays
<1>. QED BY JobsTypes, RecordsFirst, <1>1, <1>2, PTL DEF Spec

-----------------------------------------------------------------------------
(* The plan.                                                               *)

LEMMA SequencesAre ==
  ASSUME NEW s, IsSequence(s), NEW S, {s[i] : i \in DOMAIN s} \subseteq S
  PROVE  s \in Seq(S)
<1>1. s \in [1..Len(s) -> S]
  BY DEF IsSequence
<1>. QED BY <1>1, SeqDef DEF IsSequence

\* How often a path came is counted upwards.
LEMMA Counted ==
  ASSUME NEW paths, IsListing(paths), NEW i \in DOMAIN paths
  PROVE  /\ Occurrence(paths, i) \in 1..Len(paths)
         /\ \A j \in DOMAIN paths : j < i /\ paths[j] = paths[i] => Occurrence(paths, j) < Occurrence(paths, i)
<1> DEFINE Same(k) == {j \in 1..k : paths[j] = paths[k]}
<1>1. Len(paths) \in Nat /\ DOMAIN paths = 1..Len(paths)
  BY DEF IsListing, IsSequence
<1>2. \A k \in DOMAIN paths : Same(k) \subseteq 1..k /\ k \in Same(k) /\ k \in Nat /\ k <= Len(paths)
  BY <1>1
<1>3. \A k \in Nat : IsFiniteSet(1..k) /\ Cardinality(1..k) = k
  <2>1. \A k \in Nat : IsFiniteSet(1..k) /\ Cardinality(1..k) = IF 1 > k THEN 0 ELSE k - 1 + 1
    BY FS_Interval
  <2>. QED BY <2>1
<1>4. \A k \in DOMAIN paths : IsFiniteSet(Same(k)) /\ Cardinality(Same(k)) \in Nat /\ Cardinality(Same(k)) <= k
  <2>1. TAKE k \in DOMAIN paths
  <2>2. Same(k) \subseteq 1..k /\ IsFiniteSet(1..k) /\ Cardinality(1..k) = k
    BY <1>2, <1>3
  <2>. QED BY <2>2, FS_Subset, FS_CardinalityType
<1>5. Cardinality(Same(i)) # 0
  <2>1. Same(i) # {} /\ IsFiniteSet(Same(i))
    BY <1>2, <1>4
  <2>. QED BY <2>1, FS_EmptySet
<1>6. ASSUME NEW j \in DOMAIN paths, j < i, paths[j] = paths[i]
      PROVE  Cardinality(Same(j)) < Cardinality(Same(i))
  <2>1. Same(j) \subseteq Same(i) /\ i \notin Same(j) /\ i \in Same(i)
    BY <1>1, <1>2, <1>6
  <2>2. Same(j) # Same(i)
    BY <2>1
  <2>3. Cardinality(Same(j)) <= Cardinality(Same(i)) /\ Cardinality(Same(j)) # Cardinality(Same(i))
    BY <2>1, <2>2, <1>4, FS_Subset
  <2>. QED BY <2>3, <1>4
<1>7. \A k \in DOMAIN paths : Occurrence(paths, k) = Cardinality(Same(k))
  BY DEF Occurrence
<1>. HIDE DEF Same
<1>8. Cardinality(Same(i)) \in 1..Len(paths)
  BY <1>1, <1>2, <1>4, <1>5
<1>. QED BY <1>6, <1>7, <1>8

\* Two names that were extended by one number each and became the same were the same.
LEMMA SuffixTells ==
  ASSUME NEW s, NEW t, IsSequence(s), IsSequence(t), NEW m \in Nat, NEW n \in Nat,
         Append(s, m) = Append(t, n)
  PROVE  s = t /\ m = n
<1> DEFINE S == {s[i] : i \in DOMAIN s} \cup {t[i] : i \in DOMAIN t} \cup Nat
<1>1. s \in Seq(S) /\ t \in Seq(S) /\ m \in S /\ n \in S
  <2>1. {s[i] : i \in DOMAIN s} \subseteq S /\ {t[i] : i \in DOMAIN t} \subseteq S
    OBVIOUS
  <2>. HIDE DEF S
  <2>2. s \in Seq(S) /\ t \in Seq(S)
    BY <2>1, SequencesAre
  <2>3. Nat \subseteq S
    BY DEF S
  <2>. QED BY <2>2, <2>3
<1>. HIDE DEF S
<1>. QED BY <1>1, AppendInjective

LEMMA SuffixedName ==
  ASSUME NEW d, NEW m, NEW n, NEW k, NEW p, p = [dir |-> d, mark |-> m, name |-> n]
  PROVE  Suffixed(p, k) = [dir |-> d, mark |-> m, name |-> Append(n, k)]
  BY DEF Suffixed

\* deduplicatePaths leaves no path twice, unless the host named one the way it
\* names a repetition of another.
LEMMA DeduplicatedApart ==
  ASSUME NEW paths, IsListing(paths), Unsuffixed(paths)
  PROVE  Distinct(Deduplicated(paths))
<1> DEFINE k(i) == Occurrence(paths, i)
           out == Deduplicated(paths)
<1>1. DOMAIN out = DOMAIN paths /\ Len(paths) \in Nat /\ DOMAIN paths = 1..Len(paths)
  BY DEF Deduplicated, IsListing, IsSequence
<1>2. \A i \in DOMAIN paths : k(i) \in 1..Len(paths)
  BY Counted
<1>3. \A i \in DOMAIN paths : out[i] = IF k(i) = 1 THEN paths[i] ELSE Suffixed(paths[i], k(i))
  BY DEF Deduplicated
<1>4. ASSUME NEW i \in DOMAIN paths, NEW j \in DOMAIN paths, j < i PROVE out[i] # out[j]
  <2>1. paths[i] = paths[j] => k(j) < k(i)
    BY <1>4, Counted
  <2>2. CASE k(i) = 1 /\ k(j) = 1
    BY <2>1, <2>2, <1>3
  <2>3. CASE k(i) = 1 /\ k(j) # 1
    BY <2>3, <1>2, <1>3 DEF Unsuffixed
  <2>4. CASE k(i) # 1 /\ k(j) = 1
    BY <2>4, <1>2, <1>3 DEF Unsuffixed
  <2>5. CASE k(i) # 1 /\ k(j) # 1
    <3>1. SUFFICES ASSUME Suffixed(paths[i], k(i)) = Suffixed(paths[j], k(j)) PROVE FALSE
      BY <2>5, <1>3
    <3>2. \A p \in {i, j} :
            /\ paths[p] = [dir |-> paths[p].dir, mark |-> paths[p].mark, name |-> paths[p].name]
            /\ IsSequence(paths[p].name)
      BY DEF IsListing
    <3>3. \A p \in {i, j} : Suffixed(paths[p], k(p)) =
            [dir |-> paths[p].dir, mark |-> paths[p].mark, name |-> Append(paths[p].name, k(p))]
      BY <3>2, SuffixedName
    <3>4. /\ paths[i].dir = paths[j].dir /\ paths[i].mark = paths[j].mark
          /\ Append(paths[i].name, k(i)) = Append(paths[j].name, k(j))
      BY <3>1, <3>3
    <3>5. paths[i].name = paths[j].name /\ k(i) = k(j)
      BY <3>2, <3>4, <1>2, SuffixTells
    <3>. QED BY <3>2, <3>4, <3>5, <2>1, <1>2
  <2>. QED BY <2>2, <2>3, <2>4, <2>5
<1>. HIDE DEF out
<1>5. ASSUME NEW i \in DOMAIN paths, NEW j \in DOMAIN paths, i # j PROVE out[i] # out[j]
  BY <1>1, <1>4, <1>5
<1>. QED BY <1>1, <1>5 DEF Distinct, out

-----------------------------------------------------------------------------
(* The page.                                                               *)

\* Files that were planned for selection s when the catalogue had changed n times
\* are its plan now, if it has not changed since.
UpToDate(paths, s, n) ==
    n \in Nat /\ n <= changes /\ (n = changes => paths = Plan(post, Queried(s)))

\* What ShownIsQueued and NothingOverwritten say of a job, or of one to come.
AsShown(a) == a.seen = a.planned /\ Whole(a.ticked) => a.files = a.shown
Apart(a) == Distinct(a.files) \/ a.odd

PageTyped ==
    /\ post \in Posts /\ changes \in Nat /\ ticked \in Selections
    /\ details = [s \in Selections |-> details[s]]
    /\ \A s \in Selections : details[s] = Nothing \/ details[s].at = "kept"

AnswersUpToDate ==
    /\ asking.at = "planned" => UpToDate(asking.files, asking.for, asking.seen)
    /\ \A s \in Selections :
         details[s].at = "kept" => UpToDate(details[s].files, s, details[s].seen)

\* The creation keeps what it was started with until it has a plan of its own.
AddUpToDate ==
    /\ add.at \in {"check", "plan"} =>
         /\ add = [at |-> add.at, wanted |-> add.ticked, ticked |-> add.ticked,
                   shown |-> add.shown, seen |-> add.seen]
         /\ add.ticked \in Selections
         /\ UpToDate(add.shown, add.ticked, add.seen)
    /\ add.at = "insert" => AsShown(add) /\ Apart(add)
    /\ made # Nothing => AsShown(made) /\ Apart(made)

PageInv == PageTyped /\ AnswersUpToDate /\ AddUpToDate

LEMMA PageFirst == Init => PageInv
<1>. SUFFICES ASSUME TitleInit PROVE PageInv
  BY DEF Init
<1>1. {} \in Selections
  BY DEF Selections
<1>. QED BY <1>1 DEF TitleInit, PageInv, PageTyped, AnswersUpToDate, AddUpToDate, Nothing

\* When nothing changes in the catalogue, what is up to date stays so.
LEMMA StaysUpToDate ==
  ASSUME NEW paths, NEW s, NEW n, UpToDate(paths, s, n),
         \/ UNCHANGED <<post, changes>>
         \/ changes \in Nat /\ changes' = changes + 1
  PROVE  UpToDate(paths, s, n)'
  BY DEF UpToDate

LEMMA WholeQueried == ASSUME NEW s, Whole(s) PROVE Queried(s) = s
  BY DEF Whole, Queried

LEMMA PageStep == ASSUME PageInv, TitleNext PROVE PageInv'
<1>. USE DEF PageInv, PageTyped, Nothing
<1>1. CASE CatalogueChanges
  <2>. USE <1>1 DEF CatalogueChanges
  <2>1. AnswersUpToDate'
    BY StaysUpToDate DEF AnswersUpToDate
  <2>2. AddUpToDate'
    BY StaysUpToDate DEF AddUpToDate, AsShown, Apart
  <2>. QED BY <2>1, <2>2
<1>2. CASE JobOfOthers
  BY <1>2 DEF JobOfOthers, AnswersUpToDate, AddUpToDate, UpToDate, AsShown, Apart
<1>3. CASE Visit
  BY <1>3 DEF Visit, Ask, Selections, AnswersUpToDate, AddUpToDate, UpToDate, AsShown, Apart
<1>4. CASE Leave
  BY <1>4 DEF Leave, AnswersUpToDate, AddUpToDate, UpToDate, AsShown, Apart
<1>5. ASSUME NEW name \in UNION Selections, Tick(name) PROVE PageInv'
  BY <1>5 DEF Tick, Ask, Selections, AnswersUpToDate, AddUpToDate, UpToDate, AsShown, Apart
<1>6. CASE DetailPlanned
  BY <1>6 DEF DetailPlanned, AnswersUpToDate, AddUpToDate, UpToDate, AsShown, Apart
<1>7. CASE DetailArrives
  BY <1>7 DEF DetailArrives, AnswersUpToDate, AddUpToDate, UpToDate, AsShown, Apart
<1>8. CASE Click
  BY <1>8 DEF Click, Shown, Sent, AnswersUpToDate, AddUpToDate, UpToDate, AsShown, Apart
<1>9. CASE CreateChecks
  BY <1>9 DEF CreateChecks, AnswersUpToDate, AddUpToDate, UpToDate, AsShown, Apart
<1>10. CASE CreatePlans
  <2>1. CASE add' = [at |-> "none"]
    BY <1>10, <2>1 DEF CreatePlans, AnswersUpToDate, AddUpToDate, UpToDate, AsShown, Apart
  <2>2. CASE add' # [at |-> "none"]
    <3> DEFINE s == add.ticked
    <3>1. /\ s \in Selections /\ add.wanted = s /\ UpToDate(add.shown, s, add.seen)
      BY <1>10 DEF CreatePlans, AddUpToDate
    <3>2. add' = [at |-> "insert", files |-> Plan(post, s), planned |-> changes,
                  ticked |-> s, shown |-> add.shown, seen |-> add.seen,
                  odd |-> ~Unsuffixed(RawPaths(post, s))]
      BY <1>10, <2>2, <3>1 DEF CreatePlans
    <3>3. AsShown(add')
      BY <3>1, <3>2, WholeQueried DEF AsShown, UpToDate
    <3>4. IsListing(RawPaths(post, s))
      BY <3>1, PostsAssumption
    <3>5. Apart(add')
      BY <3>2, <3>4, DeduplicatedApart DEF Apart, Plan
    <3>. QED BY <1>10, <3>2, <3>3, <3>5
             DEF CreatePlans, AnswersUpToDate, AddUpToDate, UpToDate, AsShown, Apart
  <2>. QED BY <2>1, <2>2
<1>11. CASE CreateInserts
  BY <1>11 DEF CreateInserts, AnswersUpToDate, AddUpToDate, UpToDate, AsShown, Apart
<1>12. CASE AddOver
  BY <1>12 DEF AddOver, AnswersUpToDate, AddUpToDate, UpToDate, AsShown, Apart
<1>. QED BY <1>1, <1>2, <1>3, <1>4, <1>5, <1>6, <1>7, <1>8, <1>9, <1>10, <1>11, <1>12
         DEF TitleNext

LEMMA PageInductive == PageInv /\ [Next]_vars => PageInv'
<1>1. ASSUME PageInv, UNCHANGED titleVars PROVE PageInv'
  BY <1>1 DEF PageInv, PageTyped, AnswersUpToDate, AddUpToDate, UpToDate, AsShown, Apart, titleVars
<1>. QED BY <1>1, TitleMoves, PageStep

\* "Shows exactly what will be downloaded and where it will land before anything
\* is queued" (Title.tsx:4): the job has the files the page showed, unless the
\* catalogue changed between the two plans or a ticked season has a comma.
THEOREM ShownGetsQueued == Spec => []ShownIsQueued
<1>1. PageInv => ShownIsQueued
  BY DEF PageInv, AddUpToDate, AsShown, ShownIsQueued
<1>. QED BY PageFirst, PageInductive, <1>1, PTL DEF Spec

\* "So nothing silently overwrites anything" (plan.ts:138): no two files of a job
\* have one path, unless the host has a name that ends in a number in parentheses.
THEOREM NothingIsOverwritten == Spec => []NothingOverwritten
<1>1. PageInv => NothingOverwritten
  BY DEF PageInv, AddUpToDate, Apart, NothingOverwritten
<1>. QED BY PageFirst, PageInductive, <1>1, PTL DEF Spec

-----------------------------------------------------------------------------
(* The types of the parts.  Those of the posters, of the selections and of *)
(* the rows of jobs are in the invariants above and in CatalogueProofs.    *)

CallStates == {"rest", "sent", "delay", "head", "range", "missing", "failed"}

\* A page asks for nothing before it is opened, and a title's sizes come with a result.
CatalogueTyped ==
    /\ page.for \in {"none", "search", "title"}
    /\ page.pc = "idle" => page.for = "none"
    /\ page.answer \in {"none", "ok", "notfound", "upstream"}
    /\ \A c \in Callers : calls[c].at \in CallStates
    /\ known \subseteq settled \/ page.for = "search"

LEMMA CatalogueTypedFirst == Init => CatalogueTyped
<1>. SUFFICES ASSUME CatalogueInit PROVE CatalogueTyped
  BY DEF Init
<1>. QED BY DEF CatalogueInit, CatalogueTyped, CallStates, Rest, Call

\* What a call waits for after an answer, and after a pool has begun.
LEMMA OutcomeStates ==
  ASSUME NEW n, NEW item, NEW d \in Outcomes(n, item), d.at # "ok"
  PROVE  d.at \in CallStates
  BY DEF Outcomes, Call, CallStates

LEMMA BegunStates ==
  ASSUME NEW items, NEW until, Begin(items, until)
  PROVE  \A c \in Callers : calls'[c].at \in CallStates
<1>1. \A item : Enrich(item).at = "sent" /\ Head1(item, ProbeTime).at = "head" /\ Rest.at = "rest"
  BY DEF Enrich, Send, Head1, Rest, Call
<1>. QED BY <1>1 DEF Begin, FirstCall, CallStates

LEMMA OneCallState ==
  ASSUME NEW c \in Callers, NEW k, Clock, CatalogueTyped, k.at \in CallStates, calls' = [calls EXCEPT ![c] = k]
  PROVE  \A d \in Callers : calls'[d].at \in CallStates
  BY DEF Clock, CatalogueTyped

LEMMA CatalogueTypedStep ==
  ASSUME CatalogueTyped, TimeInv, CatalogueNext PROVE CatalogueTyped'
<1>. USE DEF CatalogueTyped
<1>1. Clock
  BY DEF TimeInv
<1>2. \A n, item : Send(n, item).at \in CallStates /\ Rest.at \in CallStates
  BY DEF Send, Call, Rest, CallStates
<1>3. page = [for |-> page.for, pc |-> page.pc, answer |-> page.answer]
  BY <1>1 DEF Clock
<1>4. CASE OpenSearch \/ OpenTitle
  <2>1. PICK item : calls' = [calls EXCEPT ![0] = Send(1, item)]
    BY <1>4 DEF OpenSearch, OpenTitle
  <2>2. \A d \in Callers : calls'[d].at \in CallStates
    BY <1>1, <1>2, <2>1, OneCallState, Times
  <2>3. /\ page'.for \in {"search", "title"} /\ page'.pc = "ask" /\ page'.answer = page.answer
        /\ page.for = "none" /\ UNCHANGED <<known, settled>>
    BY <1>3, <1>4 DEF OpenSearch, OpenTitle, pool
  <2>. QED BY <2>2, <2>3
<1>5. CASE SearchAnswered \/ TitleAnswered
  <2>1. \/ \E items, until : Begin(items, until)
        \/ \E item : \E d \in Outcomes(calls[0].n, item) : d.at # "ok" /\ calls' = [calls EXCEPT ![0] = d]
    BY <1>5 DEF SearchAnswered, TitleAnswered
  <2>2. \A d \in Callers : calls'[d].at \in CallStates
    BY <1>1, <2>1, OutcomeStates, OneCallState, BegunStates, Times
  <2>3. UNCHANGED <<known, settled>>
    BY <1>5 DEF SearchAnswered, TitleAnswered, Begin, pool
  <2>4. page.pc = "ask" /\ \/ UNCHANGED page \/ page' = [page EXCEPT !.pc = "pool"]
                           \/ \E at : Rethrow(at)
    BY <1>5 DEF SearchAnswered, TitleAnswered
  <2>5. page'.for = page.for /\ page'.pc # "idle" /\ page'.answer \in {"none", "ok", "notfound", "upstream"}
    BY <1>3, <2>4 DEF Rethrow, Answer
  <2>. QED BY <2>2, <2>3, <2>5
<1>6. CASE PoolOver \/ FoundActive
  <2>1. page'.for = page.for /\ page'.pc # "idle" /\ page'.answer \in {"none", "ok", "notfound", "upstream"}
    BY <1>3, <1>6 DEF PoolOver, FoundActive, Answer
  <2>. QED BY <1>6, <2>1 DEF PoolOver, FoundActive, pool
<1>7. CASE TimePasses
  BY <1>7 DEF TimePasses, pool
<1>8. ASSUME NEW c \in Callers, SendAgain(c) PROVE CatalogueTyped'
  <2>1. PICK n, item : calls' = [calls EXCEPT ![c] = Send(n, item)]
    BY <1>1, <1>8 DEF SendAgain, Clock
  <2>2. \A d \in Callers : calls'[d].at \in CallStates
    BY <1>1, <1>2, <2>1, OneCallState
  <2>. QED BY <1>8, <2>2 DEF SendAgain, pool
<1>9. ASSUME NEW w \in Workers, EnrichAnswered(w) PROVE CatalogueTyped'
  <2>1. \E k : calls' = [calls EXCEPT ![w] = k] /\ k.at \in CallStates
    BY <1>2, <1>9 DEF EnrichAnswered, Enrich, CallStates
  <2>2. \A d \in Callers : calls'[d].at \in CallStates
    BY <1>1, <2>1, OneCallState, Times
  <2>. QED BY <1>9, <2>2 DEF EnrichAnswered
<1>10. ASSUME NEW w \in Workers, HeadRefused(w) PROVE CatalogueTyped'
  <2>1. \E n, due, item : calls' = [calls EXCEPT ![w] = Call("range", n, due, item)]
    BY <1>1, <1>10, Times DEF HeadRefused, Clock
  <2>2. \A n, due, item : Call("range", n, due, item).at \in CallStates
    BY DEF Call, CallStates
  <2>3. \A d \in Callers : calls'[d].at \in CallStates
    BY <1>1, <2>1, <2>2, OneCallState, Times
  <2>. QED BY <1>10, <2>3 DEF HeadRefused, pool
<1>11. ASSUME NEW w \in Workers, Probed(w) PROVE CatalogueTyped'
  <2>1. \A item, t : Head1(item, t).at \in CallStates
    BY DEF Head1, Call, CallStates
  <2>2. \E k : calls' = [calls EXCEPT ![w] = k] /\ k.at \in CallStates
    BY <1>2, <1>11, <2>1 DEF Probed
  <2>3. \A d \in Callers : calls'[d].at \in CallStates
    BY <1>1, <2>2, OneCallState, Times
  <2>4. known' \subseteq settled' \/ page.for = "search"
    BY <1>11 DEF Probed
  <2>. QED BY <1>11, <2>3, <2>4 DEF Probed
<1>. QED BY <1>4, <1>5, <1>6, <1>7, <1>8, <1>9, <1>10, <1>11 DEF CatalogueNext

LEMMA CatalogueTypes == Spec => []CatalogueTyped
<1>1. CatalogueTyped /\ TimeInv /\ [Next]_vars => CatalogueTyped'
  <2>1. ASSUME CatalogueTyped, UNCHANGED catalogueVars PROVE CatalogueTyped'
    BY <2>1 DEF CatalogueTyped, catalogueVars, pool
  <2>. QED BY <2>1, CatalogueMoves, CatalogueTypedStep
<1>. QED BY <1>1, CatalogueTypedFirst, TimeFirst, TimeInductive, PTL DEF Spec


-----------------------------------------------------------------------------
\* The page of a title, and its jobs: a job has done only what it wants, and
\* nothing before it was made.
PageFlags == open \in BOOLEAN /\ active \in BOOLEAN

LEMMA TitleTypes == Spec => [](PageTyped /\ PageFlags)
<1>1. Init => PageFlags
  BY DEF Init, TitleInit, PageFlags
<1>2. PageFlags /\ [Next]_vars => PageFlags'
  <2>1. ASSUME PageFlags, TitleNext PROVE PageFlags'
    BY <2>1 DEF PageFlags, TitleNext, CatalogueChanges, JobOfOthers, Visit, Leave, DetailPlanned, DetailArrives,
                Click, Tick, CreateChecks, CreatePlans, CreateInserts, AddOver
  <2>2. ASSUME PageFlags, UNCHANGED titleVars PROVE PageFlags'
    BY <2>2 DEF PageFlags, titleVars
  <2>. QED BY <2>1, <2>2, TitleMoves
<1>3. PageInv => PageTyped
  BY DEF PageInv
<1>. QED BY <1>1, <1>2, <1>3, PageFirst, PageInductive, PTL DEF Spec

-----------------------------------------------------------------------------
\* The rows an administrator sees.
Rows == [role : {"ADMIN", "USER"}, off : BOOLEAN] \cup {Absent}
ClickStates == {"rest", "sent", "checked", "done", "refused", "barred", "erased", "await"}

AdminRanges ==
    /\ db.users \in [Accounts -> Rows]
    /\ db.invites \in [Codes -> {"none", "pending", "used", "expired", "gone"}]
    /\ \A f \in Forms : click[f].at \in ClickStates
    /\ click["addUser"].at = "sent" => click["addUser"].act \in {"ADMIN", "USER"}
    /\ click["change"].at = "sent" => click["change"].on \in Accounts

\* Who writes a row of a list keeps its type, whatever the clicks that end.
LEMMA RangesWritten ==
  ASSUME AdminTyped, AdminRanges, NEW l \in Tables, NEW on, NEW value, NEW ended, Writes(l, on, value, ended),
         l = "users" => value \in Rows,
         l = "invites" => value \in {"none", "pending", "used", "expired", "gone"},
         \A f \in Forms \cap DOMAIN ended : ended[f] \in {"done", "erased"}
  PROVE  AdminRanges'
<1>1. /\ \A m \in Tables \ {l} : db'[m] = db[m]
      /\ \A f \in Forms :
           /\ f \in DOMAIN ended => click'[f] = [click[f] EXCEPT !.at = ended[f]]
           /\ f \notin DOMAIN ended /\ ~(TableOf(f) = l /\ AtServer(f)) => click'[f] = click[f]
           /\ f \notin DOMAIN ended /\ TableOf(f) = l /\ AtServer(f) =>
                click'[f] = [click[f] EXCEPT !.stale = TRUE]
  BY WrittenRows
<1>2. ASSUME NEW f \in Forms
      PROVE  /\ click'[f].at \in ClickStates /\ click'[f].act = click[f].act /\ click'[f].on = click[f].on
             /\ click'[f].at = click[f].at \/ click'[f].at \in {"done", "erased"}
  <2>1. click[f] = [at |-> click[f].at, act |-> click[f].act, on |-> click[f].on, stale |-> click[f].stale]
    BY DEF AdminTyped
  <2>2. PICK at, stale : click'[f] = [at |-> at, act |-> click[f].act, on |-> click[f].on, stale |-> stale]
                         /\ (at = click[f].at \/ at \in {"done", "erased"})
    <3>1. CASE f \in DOMAIN ended
      BY <1>1, <2>1, <3>1
    <3>2. CASE f \notin DOMAIN ended
      BY <1>1, <2>1, <3>2
    <3>. QED BY <3>1, <3>2
  <2>. QED BY <2>2 DEF AdminRanges, ClickStates
<1>3. db = [users |-> db.users, invites |-> db.invites] /\ Tables = {"users", "invites"}
  BY DEF AdminTyped, Tables
<1>4. db' = [db EXCEPT ![l] = [@ EXCEPT ![on] = value]]
  BY DEF Writes
<1>5. db'[l] = [db[l] EXCEPT ![on] = value]
  BY <1>3, <1>4
<1>6. /\ db'.users \in [Accounts -> Rows]
      /\ db'.invites \in [Codes -> {"none", "pending", "used", "expired", "gone"}]
  <2>1. CASE l = "users"
    BY <1>1, <1>3, <1>5, <2>1 DEF AdminRanges
  <2>2. CASE l = "invites"
    BY <1>1, <1>3, <1>5, <2>2 DEF AdminRanges
  <2>. QED BY <1>3, <2>1, <2>2
<1>7. "addUser" \in Forms /\ "change" \in Forms
  BY DEF Forms
<1>. QED BY <1>2, <1>6, <1>7 DEF AdminRanges

\* ... and so does who moves one click.
LEMMA RangesMoved ==
  ASSUME AdminTyped, AdminRanges, NEW f \in Forms, NEW k, click' = [click EXCEPT ![f] = k], UNCHANGED db,
         k.at \in ClickStates, f = "addUser" /\ k.at = "sent" => k.act \in {"ADMIN", "USER"},
         f = "change" /\ k.at = "sent" => k.on \in Accounts
  PROVE  AdminRanges'
<1>1. click'[f] = k /\ \A g \in Forms \ {f} : click'[g] = click[g]
  BY DEF AdminTyped
<1>2. "addUser" \in Forms /\ "change" \in Forms
  BY DEF Forms
<1>. QED BY <1>1, <1>2 DEF AdminRanges

LEMMA RangesEnded ==
  ASSUME AdminTyped, AdminRanges, NEW f \in Forms, NEW at \in ClickStates \ {"sent"}, Ends(f, at)
  PROVE  AdminRanges'
<1>1. PICK k : k = [click[f] EXCEPT !.at = at]
  OBVIOUS
<1>2. k.at = at
  <2>1. click[f] = [at |-> click[f].at, act |-> click[f].act, on |-> click[f].on, stale |-> click[f].stale]
    BY DEF AdminTyped
  <2>. QED BY <1>1, <2>1
<1>3. click' = [click EXCEPT ![f] = k] /\ UNCHANGED db
  BY <1>1 DEF Ends
<1>. QED BY <1>2, <1>3, RangesMoved

LEMMA ActsTyped ==
  ASSUME NEW act, NEW row \in Rows \ {Absent}
  PROVE  AfterAct(act, row) \in Rows
<1>1. PICK role \in {"ADMIN", "USER"}, off \in BOOLEAN : row = [role |-> role, off |-> off]
  BY DEF Rows
<1>. QED BY <1>1 DEF AfterAct, Rows

LEMMA AdminRangesStep ==
  ASSUME AdminInv, AdminRanges, AdminNext
  PROVE  AdminRanges'
<1>0. AdminTyped /\ Tables = {"users", "invites"} /\ Forms = {"change", "addUser", "revoke", "addInvite"}
  BY DEF AdminInv, Tables, Forms
<1>1. \A f \in Forms : click[f] = [at |-> click[f].at, act |-> click[f].act, on |-> click[f].on, stale |-> click[f].stale]
  BY <1>0 DEF AdminTyped
<1>2. Unclicked.at = "rest" /\ \A role : Enabled(role) = [role |-> role, off |-> FALSE]
  BY DEF Unclicked, Enabled
<1>3. CASE OpenTab(tab) \/ FetchReads(tab)
  BY <1>3 DEF OpenTab, FetchReads, AdminRanges
<1>4. CASE FetchArrives(tab) \/ FetchFails(tab)
  BY <1>0, <1>2, <1>4 DEF FetchArrives, FetchFails, Settled, AdminRanges, ClickStates
<1>5. ASSUME NEW f \in Forms, NEW act, NEW on, Press(f, act, on), f = "addUser" => act \in {"ADMIN", "USER"},
             f = "change" => on \in Accounts
      PROVE  AdminRanges'
  <2>1. \E stale : click' = [click EXCEPT ![f] = [at |-> "sent", act |-> act, on |-> on, stale |-> stale]] /\ UNCHANGED db
    BY <1>5 DEF Press
  <2>. QED BY <1>0, <1>5, <2>1, RangesMoved DEF ClickStates
<1>6. CASE ClickUser \/ ClickRevoke \/ ClickAddUser \/ ClickAddInvite
  <2>1. CASE ClickUser
    BY <1>0, <1>5, <2>1 DEF ClickUser
  <2>2. CASE ClickRevoke
    BY <1>0, <1>5, <2>2 DEF ClickRevoke
  <2>3. CASE ClickAddUser
    BY <1>0, <1>5, <2>3 DEF ClickAddUser
  <2>4. CASE ClickAddInvite
    BY <1>0, <1>5, <2>4 DEF ClickAddInvite
  <2>. QED BY <1>6, <2>1, <2>2, <2>3, <2>4
<1>7. ASSUME NEW f \in Forms, NEW value, NEW at \in {"done", "erased"}, WritesMine(f, value, at),
             TableOf(f) = "users" => value \in Rows,
             TableOf(f) = "invites" => value \in {"pending", "gone"}
      PROVE  AdminRanges'
  <2>1. TableOf(f) \in Tables
    BY <1>0 DEF TableOf
  <2>2. PICK ended : ended = [g \in {f} |-> at]
    OBVIOUS
  <2>3. Writes(TableOf(f), click[f].on, value, ended) /\ \A g \in DOMAIN ended : ended[g] = at
    BY <1>7, <2>2 DEF WritesMine
  <2>. QED BY <1>0, <1>7, <2>1, <2>3, RangesWritten
<1>8. ASSUME NEW u \in Accounts, db.users[u] # Absent PROVE \A act : AfterAct(act, db.users[u]) \in Rows
  BY <1>8, ActsTyped DEF AdminRanges
<1>9. CASE ServeChange
  <2>1. CASE Ends("change", "refused") \/ Ends("change", "done")
    BY <1>0, <2>1, RangesEnded DEF ClickStates
  <2>2. ASSUME Permits(Me, click["change"].act, click["change"].on),
               WritesMine("change", AfterAct(click["change"].act, db.users[click["change"].on]), "done")
        PROVE  AdminRanges'
    <3>1. db.users[click["change"].on] # Absent /\ click["change"].on \in Accounts
      BY <1>9, <2>2 DEF Permits, ServeChange, AdminRanges
    <3>2. AfterAct(click["change"].act, db.users[click["change"].on]) \in Rows
      BY <1>8, <3>1
    <3>. QED BY <1>0, <1>7, <2>2, <3>2 DEF TableOf
  <2>. QED BY <1>9, <2>1, <2>2 DEF ServeChange
<1>10. CASE ServeAddUser
  <2>1. CASE Ends("addUser", "refused")
    BY <1>0, <2>1, RangesEnded DEF ClickStates
  <2>2. CASE WritesMine("addUser", Enabled(click["addUser"].act), "done")
    <3>1. Enabled(click["addUser"].act) \in Rows
      BY <1>2, <1>10 DEF ServeAddUser, AdminRanges, Rows
    <3>. QED BY <1>0, <1>7, <2>2, <3>1 DEF TableOf
  <2>. QED BY <1>10, <2>1, <2>2 DEF ServeAddUser
<1>11. CASE ServeAddInvite
  BY <1>0, <1>7, <1>11 DEF ServeAddInvite, TableOf
<1>12. CASE ServeRevoke
  <2>1. CASE /\ UNCHANGED db
             /\ \/ click' = [click EXCEPT !["revoke"].at = "checked", !["revoke"].stale = FALSE]
                \/ click' = [click EXCEPT !["revoke"].at = "refused"]
    <3>1. DOMAIN click = Forms
      BY <1>0 DEF AdminTyped
    <3>2. /\ click'["revoke"].at \in {"checked", "refused"}
          /\ \A g \in Forms \ {"revoke"} : click'[g] = click[g]
      BY <1>0, <1>1, <2>1, <3>1
    <3>. QED BY <1>0, <2>1, <3>2 DEF AdminRanges, ClickStates
  <2>2. ASSUME NEW at \in {"done", "erased"}, WritesMine("revoke", "gone", at) PROVE AdminRanges'
    BY <1>0, <1>7, <2>2 DEF TableOf
  <2>3. CASE Ends("revoke", "refused")
    BY <1>0, <2>3, RangesEnded DEF ClickStates
  <2>. QED BY <1>12, <2>1, <2>2, <2>3 DEF ServeRevoke
<1>13. CASE Elsewhere
  <2>1. PICK ended : ended = <<>> /\ DOMAIN ended = {}
    OBVIOUS
  <2>2. ASSUME NEW o \in Actives(db.users), NEW u \in Accounts, NEW act, Permits(o, act, u),
               Writes("users", u, AfterAct(act, db.users[u]), ended)
        PROVE  AdminRanges'
    <3>1. AfterAct(act, db.users[u]) \in Rows
      BY <1>8, <2>2 DEF Permits
    <3>. QED BY <1>0, <2>1, <2>2, <3>1, RangesWritten
  <2>3. ASSUME NEW i \in Codes, NEW to \in {"used", "expired", "gone"}, Writes("invites", i, to, ended)
        PROVE  AdminRanges'
    BY <1>0, <2>1, <2>3, RangesWritten
  <2>. QED BY <1>13, <2>1, <2>2, <2>3 DEF Elsewhere
<1>14. ASSUME NEW f \in Forms, Barred(f) PROVE AdminRanges'
  BY <1>0, <1>14, RangesEnded DEF Barred, ClickStates
<1>15. ASSUME NEW f \in Forms, Succeeds(f) \/ Errs(f) \/ CallFails(f) PROVE AdminRanges'
  <2>1. \E k : click' = [click EXCEPT ![f] = k] /\ k.at \in {"rest", "await"} /\ UNCHANGED db
    <3>1. [Unclicked EXCEPT !.at = "await"].at = "await"
      BY DEF Unclicked
    <3>. QED BY <1>2, <1>15, <3>1 DEF Succeeds, Errs, CallFails
  <2>. QED BY <1>0, <2>1, RangesMoved DEF ClickStates
<1>. QED BY <1>3, <1>4, <1>6, <1>9, <1>10, <1>11, <1>12, <1>13, <1>14, <1>15 DEF AdminNext

LEMMA AdminTypes == Spec => [](AdminTyped /\ AdminRanges)
<1>1. Init => AdminRanges
  <2>. SUFFICES ASSUME AdminInit PROVE AdminRanges
    BY DEF Init
  <2>1. Unclicked.at = "rest"
    BY DEF Unclicked
  <2>. QED BY <2>1 DEF AdminInit, AdminRanges, Enabled, Rows, ClickStates, Forms
<1>2. AdminInv /\ AdminRanges /\ [Next]_vars => AdminRanges'
  <2>1. ASSUME AdminRanges, UNCHANGED adminVars PROVE AdminRanges'
    BY <2>1 DEF AdminRanges, adminVars
  <2>. QED BY <2>1, AdminMoves, AdminRangesStep
<1>3. AdminInv => AdminTyped
  BY DEF AdminInv
<1>. QED BY <1>1, <1>2, <1>3, AdminFirst, AdminInductive, PTL DEF Spec

-----------------------------------------------------------------------------
\* What a call of the browser takes along and brings.  A session is issued only
\* while there is one left, since calls that may issue one count as if they had.
Holders == People \cup {NoOne}
WebCall == [at : {"rest", "sent", "evicted", "over"}, cookie : Tokens \cup {0}, as : Holders, late : BOOLEAN,
            says : {"none", "ok", "refused", "failed"}, whom : Holders, puts : Tokens \cup {0, Keep}]
MayIssue == {c \in Issuing : wait[c].at \in {"sent", "evicted"}}

SessionRanges ==
    /\ holder \in [Tokens -> Holders] /\ jar \in Tokens \cup {0}
    /\ screen \in [route : Routes, user : Holders, loading : BOOLEAN]
    /\ wait \in [Web -> WebCall]
    /\ issued \in Nat /\ issued + Cardinality(MayIssue) <= MaxSessions

LEMMA CallsTyped ==
  /\ Unsent \in WebCall /\ Unsent.at = "rest"
  /\ jar \in Tokens \cup {0} => \A p \in Holders : SentBy(p) \in WebCall /\ SentBy(p).at = "sent"
  /\ \A w \in WebCall :
       /\ [w EXCEPT !.late = TRUE] \in WebCall /\ [w EXCEPT !.late = TRUE].at = w.at
       /\ \A p \in Holders : [w EXCEPT !.at = "evicted", !.as = p, !.cookie = 0] \in WebCall
  /\ \A w \in WebCall, says \in {"ok", "refused", "failed"}, whom \in Holders, puts \in Tokens \cup {0, Keep} :
       [Unsent EXCEPT !.at = "over", !.late = w.late, !.says = says, !.whom = whom, !.puts = puts] \in WebCall
  BY SessionAssumption DEF Unsent, SentBy, WebCall, Holders, Tokens, Keep

LEMMA HoldersAre ==
  SessionRanges => \A s : HolderOf(s) \in Holders
  BY DEF SessionRanges, HolderOf, Holders

LEMMA ScreenRouted ==
  ASSUME NEW s \in [route : Routes, user : Holders, loading : BOOLEAN]
  PROVE  Routed(s) \in [route : Routes, user : Holders, loading : BOOLEAN]
  BY DEF Routed, Routes

\* Sets of calls that may issue a session are counted.
LEMMA CallsCounted ==
  ASSUME NEW S \in SUBSET Issuing
  PROVE  /\ IsFiniteSet(S) /\ Cardinality(S) \in Nat
         /\ \A T \in SUBSET S : Cardinality(T) <= Cardinality(S)
         /\ \A c \in Issuing : Cardinality(S \cup {c}) <= Cardinality(S) + 1
         /\ \A c \in S : Cardinality(S \ {c}) + 1 = Cardinality(S)
<1>1. IsFiniteSet(Issuing)
  <2>1. IsFiniteSet({} \cup {"login"})
    BY FS_EmptySet, FS_AddElement
  <2>2. IsFiniteSet(({} \cup {"login"}) \cup {"redeem"})
    BY <2>1, FS_AddElement
  <2>3. IsFiniteSet({"login", "redeem"} \cup {"reset"})
    <3>1. ({} \cup {"login"}) \cup {"redeem"} = {"login", "redeem"}
      OBVIOUS
    <3>. QED BY <2>2, <3>1, FS_AddElement
  <2>4. IsFiniteSet(({"login", "redeem"} \cup {"reset"}) \cup {"password"})
    BY <2>3, FS_AddElement
  <2>5. IsFiniteSet((({"login", "redeem"} \cup {"reset"}) \cup {"password"}) \cup {"others"})
    BY <2>4, FS_AddElement
  <2>6. (({"login", "redeem"} \cup {"reset"}) \cup {"password"}) \cup {"others"} = Issuing
    BY DEF Issuing
  <2>. QED BY <2>5, <2>6
<1>2. IsFiniteSet(S)
  BY <1>1, FS_Subset
<1>. QED BY <1>2, FS_Subset, FS_CardinalityType, FS_AddElement, FS_RemoveElement

LEMMA NoMoreIssue ==
  ASSUME SessionRanges, issued' = issued, MayIssue' \subseteq MayIssue
  PROVE  issued' \in Nat /\ issued' + Cardinality(MayIssue') <= MaxSessions
<1>1. MayIssue \in SUBSET Issuing /\ MayIssue' \in SUBSET MayIssue
  BY DEF MayIssue
<1>2. Cardinality(MayIssue') <= Cardinality(MayIssue) /\ Cardinality(MayIssue) \in Nat
      /\ Cardinality(MayIssue') \in Nat
  BY <1>1, CallsCounted
<1>. QED BY <1>2, WebCalls DEF SessionRanges

LEMMA SessionRangesSend ==
  ASSUME SessionRanges, NEW c \in Web, NEW p \in Holders, SendWeb(c, p) PROVE SessionRanges'
<1>1. /\ MaySend(c) /\ wait' = [wait EXCEPT ![c] = SentBy(p)] /\ UNCHANGED <<holder, issued, jar, screen>>
  BY DEF SendWeb, rowsOfSession
<1>2. wait' \in [Web -> WebCall] /\ wait'[c] = SentBy(p) /\ \A d \in Web \ {c} : wait'[d] = wait[d]
  BY <1>1, CallsTyped DEF SessionRanges
<1>3. issued' \in Nat /\ issued' + Cardinality(MayIssue') <= MaxSessions
  <2>1. CASE c \notin Issuing
    <3>1. MayIssue' \subseteq MayIssue
      BY <1>2, <2>1, WebCalls DEF MayIssue
    <3>. QED BY <1>1, <3>1, NoMoreIssue
  <2>2. CASE c \in Issuing
    <3>1. MayIssue' \subseteq (UnderWay \cap Issuing) \cup {c}
      BY <1>2, WebCalls DEF MayIssue, UnderWay
    <3>2. /\ Cardinality(UnderWay \cap Issuing) \in Nat
          /\ Cardinality((UnderWay \cap Issuing) \cup {c}) <= Cardinality(UnderWay \cap Issuing) + 1
      BY <2>2, CallsCounted
    <3>3. /\ Cardinality(MayIssue') <= Cardinality((UnderWay \cap Issuing) \cup {c})
          /\ Cardinality((UnderWay \cap Issuing) \cup {c}) \in Nat /\ Cardinality(MayIssue') \in Nat
      <4>1. (UnderWay \cap Issuing) \cup {c} \in SUBSET Issuing /\ MayIssue' \in SUBSET Issuing
        BY <2>2 DEF MayIssue
      <4>. QED BY <3>1, <4>1, CallsCounted
    <3>4. issued + Cardinality(UnderWay \cap Issuing) < MaxSessions
      BY <1>1, <2>2 DEF MaySend
    <3>. QED BY <1>1, <3>2, <3>3, <3>4, WebCalls DEF SessionRanges
  <2>. QED BY <2>1, <2>2
<1>. QED BY <1>1, <1>2, <1>3 DEF SessionRanges

\* A call is answered, or broken, without a session being issued.
LEMMA SessionRangesSays ==
  ASSUME SessionRanges, NEW c \in Web, NEW says \in {"ok", "refused", "failed"}, NEW whom \in Holders,
         NEW puts \in {0, Keep}, Says(c, says, whom, puts), UNCHANGED <<issued, jar, screen>>,
         holder' \in [Tokens -> Holders]
  PROVE  SessionRanges'
<1>1. PICK w \in WebCall : w = [Unsent EXCEPT !.at = "over", !.late = wait[c].late, !.says = says, !.whom = whom, !.puts = puts]
  BY CallsTyped DEF SessionRanges
<1>2. w.at = "over"
  BY <1>1 DEF Unsent
<1>3. wait' \in [Web -> WebCall] /\ wait'[c] = w /\ \A d \in Web \ {c} : wait'[d] = wait[d]
  BY <1>1 DEF Says, SessionRanges
<1>4. MayIssue' \subseteq MayIssue
  BY <1>2, <1>3, WebCalls DEF MayIssue
<1>. QED BY <1>3, <1>4, NoMoreIssue DEF SessionRanges

LEMMA SessionRangesIssue ==
  ASSUME SessionRanges, NEW c \in MayIssue, IssueTo(c, wait[c].as), UNCHANGED <<jar, screen>>
  PROVE  SessionRanges'
<1>1. c \in Issuing /\ c \in Web /\ wait[c] \in WebCall /\ wait[c].as \in Holders
  BY WebCalls DEF MayIssue, SessionRanges, WebCall
<1>2. /\ MayIssue \in SUBSET Issuing /\ Cardinality(MayIssue \ {c}) + 1 = Cardinality(MayIssue)
      /\ Cardinality(MayIssue \ {c}) \in Nat
  <2>1. MayIssue \in SUBSET Issuing /\ MayIssue \ {c} \in SUBSET Issuing
    BY DEF MayIssue
  <2>. QED BY <2>1, CallsCounted
<1>3. issued' = issued + 1 /\ issued + 1 \in Tokens /\ issued' + Cardinality(MayIssue \ {c}) <= MaxSessions
  BY <1>2, WebCalls DEF IssueTo, SessionRanges
<1>4. PICK w \in WebCall :
        w = [Unsent EXCEPT !.at = "over", !.late = wait[c].late, !.says = "ok", !.whom = wait[c].as, !.puts = issued + 1]
  BY <1>1, <1>3, CallsTyped
<1>5. w.at = "over"
  BY <1>4 DEF Unsent
<1>6. wait' \in [Web -> WebCall] /\ wait'[c] = w /\ \A d \in Web \ {c} : wait'[d] = wait[d]
  BY <1>1, <1>4 DEF IssueTo, Says, SessionRanges
<1>7. MayIssue' = MayIssue \ {c}
  BY <1>1, <1>5, <1>6, WebCalls DEF MayIssue
<1>8. holder' \in [Tokens -> Holders]
  BY <1>1, <1>3 DEF IssueTo, SessionRanges
<1>. QED BY <1>3, <1>6, <1>7, <1>8 DEF SessionRanges

LEMMA SessionRangesEvict ==
  ASSUME SessionRanges, NEW c \in Issuing, wait[c].at = "sent", NEW p \in Holders, holder' = Ended(p),
         wait' = [wait EXCEPT ![c].at = "evicted", ![c].as = p, ![c].cookie = 0],
         UNCHANGED <<issued, jar, screen>>
  PROVE  SessionRanges'
<1>1. c \in Web /\ wait[c] \in WebCall
  BY WebCalls DEF SessionRanges
<1>2. PICK w \in WebCall : w = [wait[c] EXCEPT !.at = "evicted", !.as = p, !.cookie = 0]
  BY <1>1, CallsTyped
<1>3. wait' = [wait EXCEPT ![c] = w]
  BY <1>1, <1>2 DEF SessionRanges
<1>4. wait' \in [Web -> WebCall] /\ wait'[c] = w /\ \A d \in Web \ {c} : wait'[d] = wait[d]
  BY <1>1, <1>3 DEF SessionRanges
<1>5. MayIssue' \subseteq MayIssue
  BY <1>4, WebCalls DEF MayIssue
<1>6. holder' \in [Tokens -> Holders]
  BY DEF Ended, SessionRanges, Holders
<1>. QED BY <1>4, <1>5, <1>6, NoMoreIssue DEF SessionRanges


LEMMA SessionRangesServe ==
  ASSUME SessionTyped, SessionRanges, NEW c \in Web, ServeWeb(c) PROVE SessionRanges'
<1>0. UNCHANGED <<jar, screen>> /\ Who(c) \in Holders /\ wait[c].as \in Holders /\ NoOne \in Holders
  BY HoldersAre DEF ServeWeb, Who, SessionRanges, WebCall, Holders
<1>1. CASE Refused(c)
  BY <1>0, <1>1, SessionRangesSays DEF Refused, rowsOfSession, SessionRanges
<1>2. CASE ServeSigned(c)
  <2>1. CASE Says(c, "ok", Who(c), Keep) /\ UNCHANGED rowsOfSession
    BY <1>0, <2>1, SessionRangesSays DEF rowsOfSession, SessionRanges
  <2>. QED BY <1>1, <1>2, <2>1 DEF ServeSigned
<1>3. ASSUME IssueTo(c, wait[c].as), c \in MayIssue PROVE SessionRanges'
  BY <1>0, <1>3, SessionRangesIssue
<1>4. CASE c = "logout" /\ ServeLogout
  <2>1. holder' \in [Tokens -> Holders]
    BY <1>0, <1>4 DEF ServeLogout, SessionRanges
  <2>. QED BY <1>0, <1>4, <2>1, SessionRangesSays DEF ServeLogout
<1>5. CASE wait[c].at = "sent" /\ c \in {"reset", "password", "others"} /\ ServeEviction(c)
  <2>1. PICK p : p = IF c = "reset" THEN wait[c].as ELSE Who(c)
    OBVIOUS
  <2>2. CASE /\ holder' = Ended(p) /\ UNCHANGED issued
             /\ wait' = [wait EXCEPT ![c].at = "evicted", ![c].as = p, ![c].cookie = 0]
    BY <1>0, <1>5, <2>1, <2>2, WebCalls, SessionRangesEvict
  <2>. QED BY <1>1, <1>5, <2>1, <2>2 DEF ServeEviction
<1>6. c \in {"login", "redeem"} /\ wait[c].at = "sent" => c \in MayIssue
  BY WebCalls DEF MayIssue
<1>7. wait[c].at = "evicted" => c \in MayIssue
  BY WebCalls DEF MayIssue, SessionTyped
<1>. QED BY <1>1, <1>2, <1>3, <1>4, <1>5, <1>6, <1>7 DEF ServeWeb, ServeCredentials

LEMMA SessionRangesPage ==
  ASSUME SessionRanges, FollowLink \/ Load \/ EndElsewhere PROVE SessionRanges'
<1>1. CASE FollowLink
  <2>1. PICK r \in Routes : screen' = Routed([screen EXCEPT !.route = r])
    BY <1>1 DEF FollowLink, Routes
  <2>2. screen' \in [route : Routes, user : Holders, loading : BOOLEAN]
    <3>1. [screen EXCEPT !.route = r] \in [route : Routes, user : Holders, loading : BOOLEAN]
      BY <2>1 DEF SessionRanges
    <3>. QED BY <2>1, <3>1, ScreenRouted
  <2>3. MayIssue' = MayIssue
    BY <1>1 DEF FollowLink, MayIssue
  <2>. QED BY <1>1, <2>2, <2>3 DEF FollowLink, rowsOfSession, SessionRanges
<1>2. CASE Load
  <2>1. UNCHANGED <<holder, issued, jar>> /\ screen' \in [route : Routes, user : Holders, loading : BOOLEAN]
    BY <1>2 DEF Load, rowsOfSession, Holders
  <2>2. NoOne \in Holders
    BY DEF Holders
  <2>3. \A d \in Web : wait'[d] \in WebCall /\ (wait'[d].at = wait[d].at \/ d = "me" \/ wait'[d].at = "rest")
    BY <1>2, <2>2, CallsTyped DEF Load, SessionRanges
  <2>4. wait' = [d \in Web |-> wait'[d]]
    BY <1>2 DEF Load
  <2>5. MayIssue' \subseteq MayIssue
    BY <2>3, WebCalls DEF MayIssue
  <2>6. wait' \in [Web -> WebCall]
    BY <2>3, <2>4
  <2>. QED BY <2>1, <2>5, <2>6, NoMoreIssue DEF SessionRanges
<1>3. CASE EndElsewhere
  <2>1. holder' \in [Tokens -> Holders]
    BY <1>3 DEF EndElsewhere, Ended, SessionRanges, Holders
  <2>2. MayIssue' = MayIssue
    BY <1>3 DEF EndElsewhere, MayIssue
  <2>. QED BY <1>3, <2>1, <2>2 DEF EndElsewhere, SessionRanges
<1>. QED BY <1>1, <1>2, <1>3

LEMMA SessionRangesReceive ==
  ASSUME SessionRanges, NEW c \in Web, Receive(c) PROVE SessionRanges'
<1>1. PICK w \in WebCall : w = wait[c]
  BY DEF SessionRanges
<1>2. UNCHANGED <<holder, issued>>
  BY DEF Receive, rowsOfSession
<1>3. jar' \in Tokens \cup {0}
  BY <1>1 DEF Receive, SessionRanges, WebCall
<1>4. screen' \in [route : Routes, user : Holders, loading : BOOLEAN]
  <2>1. NoOne \in Holders /\ screen.user \in Holders /\ screen.route \in Routes /\ screen.loading \in BOOLEAN
    BY DEF SessionRanges, Holders
  <2>2. Adopted(c, w) \in Holders
    BY <1>1, <2>1 DEF Adopted, WebCall
  <2>3. PICK route \in Routes : route = IF c = "reset" /\ w.says = "ok" THEN "app" ELSE screen.route
    BY <2>1 DEF Routes
  <2>4. PICK s : s = [route |-> route, user |-> Adopted(c, w), loading |-> screen.loading /\ c # "me"]
    OBVIOUS
  <2>5. s \in [route : Routes, user : Holders, loading : BOOLEAN]
    BY <2>1, <2>2, <2>4
  <2>6. screen' = screen \/ screen' = Routed(s)
    BY <1>1, <2>3, <2>4 DEF Receive
  <2>. QED BY <2>5, <2>6, ScreenRouted DEF SessionRanges
<1>5. \A d \in Web : wait'[d] \in WebCall /\ (wait'[d] = wait[d] \/ d = "refresh" \/ wait'[d].at = "rest")
  <2>1. NoOne \in Holders
    BY DEF Holders
  <2>2. \A d \in Web : \/ wait'[d] = Unsent \/ wait'[d] = wait[d]
                       \/ d = "refresh" /\ wait'[d] = SentBy(NoOne)
    BY DEF Receive
  <2>. QED BY <2>1, <2>2, CallsTyped DEF SessionRanges
<1>6. wait' = [d \in Web |-> wait'[d]]
  BY DEF Receive
<1>7. MayIssue' \subseteq MayIssue
  BY <1>5, WebCalls DEF MayIssue
<1>8. wait' \in [Web -> WebCall]
  BY <1>5, <1>6
<1>. QED BY <1>2, <1>3, <1>4, <1>7, <1>8, NoMoreIssue DEF SessionRanges

LEMMA SessionRangesFirst == Init => SessionRanges
<1>. SUFFICES ASSUME SessionInit PROVE SessionRanges
  BY DEF Init
<1>1. 1 \in Tokens /\ NoOne \in Holders /\ (CHOOSE q \in People : TRUE) \in People
  BY SessionAssumption DEF Tokens, Holders
<1>2. holder \in [Tokens -> Holders] /\ jar \in Tokens \cup {0}
      /\ screen \in [route : Routes, user : Holders, loading : BOOLEAN]
  BY <1>1 DEF SessionInit, Holders
<1>3. PICK w : w = [Unsent EXCEPT !.at = "sent", !.cookie = jar]
  OBVIOUS
<1>4. w \in WebCall
  BY <1>1, <1>2, <1>3, WebCalls DEF Unsent, WebCall
<1>5. wait = [c \in Web |-> IF c = "me" THEN w ELSE Unsent] /\ issued = 1
  BY <1>3 DEF SessionInit
<1>6. wait \in [Web -> WebCall]
  BY <1>4, <1>5, CallsTyped
<1>7. MayIssue = {}
  BY <1>5, CallsTyped, WebCalls DEF MayIssue
<1>. QED BY <1>2, <1>5, <1>6, <1>7, FS_EmptySet, SessionAssumption DEF SessionRanges

LEMMA SessionRangesStep ==
  ASSUME SessionTyped, SessionRanges, SessionNext PROVE SessionRanges'
<1>1. NoOne \in Holders /\ People \subseteq Holders
  BY DEF Holders
<1>2. ASSUME \/ \E p \in People : SignIn(p) \/ Join(p) \/ ResetPassword(p)
             \/ SignOut \/ SaveName \/ NewPassword \/ SignOthersOut
      PROVE  SessionRanges'
  <2>1. \E c \in Web, p \in Holders : SendWeb(c, p)
    BY <1>1, <1>2, WebCalls DEF SignIn, Join, ResetPassword, SignOut, SaveName, NewPassword, SignOthersOut
  <2>. QED BY <2>1, SessionRangesSend
<1>3. ASSUME NEW c \in Web, Break(c) PROVE SessionRanges'
  BY <1>1, <1>3, SessionRangesSays DEF Break, rowsOfSession, SessionRanges
<1>. QED BY <1>2, <1>3, SessionRangesServe, SessionRangesPage, SessionRangesReceive DEF SessionNext

LEMMA SessionTypes == Spec => [](SessionTyped /\ SessionRanges)
<1>1. SessionInv /\ SessionRanges /\ [Next]_vars => SessionRanges'
  <2>1. ASSUME SessionRanges, UNCHANGED sessionVars PROVE SessionRanges'
    BY <2>1 DEF SessionRanges, sessionVars, rowsOfSession, MayIssue
  <2>. QED BY <2>1, SessionMoves, SessionRangesStep DEF SessionInv
<1>2. SessionInv => SessionTyped
  BY DEF SessionInv
<1>. QED BY <1>1, <1>2, SessionRangesFirst, SessionFirst, SessionInductive, PTL DEF Spec

-----------------------------------------------------------------------------
\* Every variable of every part keeps its type, an error of the catalogue reaches
\* the page as one of its answers, a cookie names a session that was issued, and a
\* job has COMPLETED only files it wants.
THEOREM TypeCorrect == Spec => []TypeOK
<1>1. TimeInv /\ CatalogueTyped =>
        /\ now \in Nat /\ deadline \in Nat
        /\ page.for \in {"none", "search", "title"}
        /\ page.pc \in {"idle", "ask", "pool", "find", "over"}
        /\ page.answer \in {"none", "ok", "notfound", "upstream"}
        /\ \A c \in Callers : calls[c].at \in {"rest", "sent", "delay", "head", "range", "missing", "failed"}
        /\ known \subseteq settled \/ page.for = "search"
  BY DEF TimeInv, Clock, CatalogueTyped, CallStates
<1>2. PosterInv => {temp, image, type} \subseteq Bytes /\ \A r \in Viewers : view[r].open \in {"none", "temp", "image", "lost"}
  BY DEF PosterInv, PosterTyped
<1>3. PageTyped /\ PageFlags =>
        post \in Posts /\ active \in BOOLEAN /\ open \in BOOLEAN /\ ticked \in Selections /\ DOMAIN details = Selections
  BY DEF PageTyped, PageFlags
<1>4. JobsTyped /\ JobsWithin =>
        /\ \A j \in Jobs : done[j] \subseteq wants[j] /\ wants[j] \subseteq Paths
        /\ disk \subseteq Paths /\ purged \subseteq Paths
        /\ card \in [Jobs -> {"idle", "cancel", "retry", "delete", "erase"}]
        /\ \A j \in Jobs : landing[j] \cup removing[j] \subseteq wants[j]
  BY DEF JobsTyped, JobsWithin
<1>5. SessionRanges =>
        /\ holder \in [Tokens -> People \cup {NoOne}] /\ jar \in Tokens \cup {0}
        /\ screen \in [route : Routes, user : People \cup {NoOne}, loading : BOOLEAN]
        /\ \A c \in Web : wait[c].at \in {"rest", "sent", "evicted", "over"}
  BY DEF SessionRanges, WebCall, Holders
<1>6. AdminRanges =>
        /\ \A u \in Accounts : db.users[u] = Absent \/ db.users[u] \in [role : {"ADMIN", "USER"}, off : BOOLEAN]
        /\ \A i \in Codes : db.invites[i] \in {"none", "pending", "used", "expired", "gone"}
        /\ \A f \in Forms : click[f].at \in {"rest", "sent", "checked", "done", "refused", "barred", "erased", "await"}
  BY DEF AdminRanges, Rows, ClickStates
<1>7. /\ TimeInv /\ CatalogueTyped /\ PosterInv /\ PageTyped /\ PageFlags /\ JobsTyped /\ JobsWithin
      /\ SessionRanges /\ AdminRanges
      => TypeOK
  BY <1>1, <1>2, <1>3, <1>4, <1>5, <1>6 DEF TypeOK
<1>. QED BY <1>7, TimeFirst, TimeInductive, CatalogueTypes, PosterFirst, PosterInductive, TitleTypes, JobsTypes,
            SessionTypes, AdminTypes, PTL DEF Spec
=============================================================================
