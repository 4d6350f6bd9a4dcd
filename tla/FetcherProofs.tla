--------------------------- MODULE FetcherProofs ---------------------------
(***************************************************************************)
(* What is proved of Fetcher, for every size of the file and every number  *)
(* of calls, provided every answer states a length.                        *)
(***************************************************************************)
EXTENDS Fetcher, TLAPS

(***************************************************************************)
(* The inductive invariant.  Nothing is under the final name from the      *)
(* moment the first look at it is over, and the offset, once known, is the *)
(* length of the .part until the file is opened.  Unless the host misled   *)
(* the fetcher, a .part file holds the first bytes of the remote one, and  *)
(* what is in place is as long as was known beforehand.                    *)
(***************************************************************************)
Transfer == {"measure", "request", "refused", "failed", "ignored", "open", "body", "land"}

PartInv == part.of = "remote" /\ part.len <= size

Types ==
    /\ size \in 1..MaxSize
    /\ foreign \in {Absent} \cup [len : 1..MaxSize, of : {"other"}]
    /\ dest \in FileRecord /\ part \in FileRecord
    /\ pc \in Pc
    /\ expected \in {size, Unknown}
    /\ from \in Nat /\ base \in 0..size /\ written \in Nat
    /\ total \in Nat /\ bytes \in Nat /\ calls \in 0..MaxCalls
    /\ misled \in BOOLEAN

Bounds ==
    /\ dest.len <= MaxSize /\ part.len <= MaxSize /\ from <= MaxSize
    /\ written <= MaxSize /\ total <= MaxSize /\ bytes <= MaxSize

LengthInv ==
    /\ pc \in {"request", "refused", "ignored", "open"} => from = part.len
    /\ pc = "land" => part.len = written
    /\ pc = "done" => bytes = dest.len
    /\ pc \in Transfer => dest.len = 0

OffsetInv ==
    /\ pc = "refused" => from >= size
    /\ pc = "open" => base = from /\ from < size
    /\ pc = "ignored" => base = 0
    /\ pc = "body" => /\ base = from /\ from <= part.len /\ part.len <= written
                      /\ written <= size /\ total = size
    /\ pc = "land" => part.len = size /\ written = size
    /\ pc = "done" => bytes > 0 /\ (expected # Unknown => bytes = size)

IInv ==
    /\ Types /\ LengthInv
    /\ ~misled => PartInv /\ OffsetInv /\ Bounds /\ dest \in {Absent, Whole, foreign}

USE DEF Whole, Absent, FileRecord, Quiet, Pc, Transfer, Unknown

\* A record of a file is its length and its origin.
LEMMA SameFile ==
    ASSUME NEW f \in FileRecord, NEW g \in FileRecord, f.len = g.len, f.of = g.of
    PROVE  f = g
  <1>1. f = [len |-> f.len, of |-> f.of] OBVIOUS
  <1>2. g = [len |-> g.len, of |-> g.of] OBVIOUS
  <1>3. QED BY <1>1, <1>2

LEMMA InitInv == Init => IInv
  <1> SUFFICES ASSUME Init PROVE IInv OBVIOUS
  <1> USE SizeAssumption DEF Init
  <1>1. Types
    <2>1. foreign \in FileRecord OBVIOUS
    <2>2. dest \in FileRecord /\ part \in FileRecord BY <2>1
    <2>3. pc \in Pc /\ misled \in BOOLEAN OBVIOUS
    <2>4. /\ expected \in {size, Unknown} /\ from \in Nat /\ base \in 0..size
          /\ written \in Nat /\ total \in Nat /\ bytes \in Nat /\ calls \in 0..MaxCalls
      OBVIOUS
    <2>5. size \in 1..MaxSize OBVIOUS
    <2>6. foreign \in {Absent} \cup [len : 1..MaxSize, of : {"other"}] OBVIOUS
    <2>7. QED BY <2>2, <2>3, <2>4, <2>5, <2>6 DEF Types
  <1>2. LengthInv BY DEF LengthInv
  <1>3. PartInv /\ OffsetInv /\ Bounds BY DEF PartInv, OffsetInv, Bounds
  <1>4. QED BY <1>1, <1>2, <1>3 DEF IInv

\* Each step of a call keeps the invariant: first what holds whatever the host does.
LEMMA NextLengths ==
    ASSUME Types, LengthInv, [Next]_vars
    PROVE  LengthInv' /\ Types' /\ (misled => misled')
  <1> USE SizeAssumption DEF Types, LengthInv, outside, disk, offsets
  <1>1. CASE Call BY <1>1 DEF Call
  <1>2. CASE Look
    <2>1. CASE dest.len > 0 /\ Trusted(dest.len) /\ Return(dest.len) /\ UNCHANGED dest
      BY <1>2, <2>1 DEF Look, Return
    <2>2. CASE dest' = Absent /\ pc' = "measure" /\ UNCHANGED bytes
      <3>1. dest' \in FileRecord /\ dest'.len = 0 BY <2>2
      <3>2. QED BY <1>2, <2>2, <3>1 DEF Look
    <2>3. CASE dest.len = 0 /\ pc' = "measure" /\ UNCHANGED <<dest, bytes>>
      BY <1>2, <2>3 DEF Look
    <2>4. QED BY <1>2, <2>1, <2>2, <2>3 DEF Look
  <1>3. CASE Measure BY <1>3 DEF Measure
  <1>4. CASE Answer
    <2>1. misled' \in BOOLEAN /\ (misled => misled') BY <1>4 DEF Answer
    <2>2. pc' \in {"refused", "ignored", "open", "failed"} /\ base' \in 0..size BY <1>4 DEF Answer
    <2>3. QED BY <1>4, <2>1, <2>2 DEF Answer
  <1>5. CASE Refused BY <1>5 DEF Refused, Return
  <1>6. CASE Land BY <1>6 DEF Land, Return
  <1>7. CASE Failed \/ End \/ Break BY <1>7 DEF Failed, End, AfterCutShort, Break
  <1>8. CASE Ignored
    <2>1. part' \in FileRecord /\ part'.len = 0 BY <1>8 DEF Ignored
    <2>2. QED BY <1>8, <2>1 DEF Ignored, RestartFrom
  <1>9. CASE Open
    <2>1. total' \in Nat BY <1>9 DEF Open, Totals
    <2>2. QED BY <1>9, <2>1 DEF Open
  <1>10. CASE Chunk BY <1>10 DEF Chunk
  <1>11. CASE Flush BY <1>11 DEF Flush
  <1>12. CASE UNCHANGED vars BY <1>12 DEF vars
  <1>13. QED BY <1>1, <1>2, <1>3, <1>4, <1>5, <1>6, <1>7, <1>8, <1>9, <1>10, <1>11,
               <1>12 DEF Next, Local, Dumped, Body

\* Then the part that holds as long as every answer suits its request.
LEMMA NextSuited ==
    ASSUME LengthStated, IInv, [Next]_vars, ~misled'
    PROVE  PartInv' /\ OffsetInv' /\ Bounds' /\ dest' \in {Absent, Whole, foreign}
  <1>1. ~misled BY NextLengths DEF IInv
  <1> USE <1>1, SizeAssumption DEF IInv, Types, LengthInv, PartInv, OffsetInv, Bounds,
                                   outside, disk, offsets
  <1>2. CASE Call BY <1>2 DEF Call
  <1>3. CASE Look
    <2>1. dest' = dest \/ (dest' = Absent /\ dest'.len = 0) BY <1>3 DEF Look
    <2>2. dest' \in {Absent, Whole, foreign} /\ dest'.len <= MaxSize BY <2>1
    <2>3. QED BY <1>3, <2>2 DEF Look, Return, Trusted
  <1>4. CASE Measure BY <1>4 DEF Measure
  <1>5. CASE Answer
    <2>1. ~(from < size) \/ pc' # "refused" BY <1>5 DEF Answer
    <2>2. pc' = "open" => base' = from /\ from < size
      <3>1. CASE pc' = (IF from > 0 THEN "ignored" ELSE "open") /\ base' = 0 BY <3>1
      <3>2. CASE \E b \in 0..(size - 1) : base' = b /\ misled' = (misled \/ b # from)
        <4>1. PICK b \in 0..(size - 1) : base' = b /\ misled' = (misled \/ b # from) BY <3>2
        <4>2. b = from BY <4>1
        <4>3. QED BY <4>1, <4>2
      <3>3. QED BY <1>5, <3>1, <3>2 DEF Answer
    <2>3. pc' = "ignored" => base' = 0 BY <1>5 DEF Answer
    <2>4. pc' \in {"refused", "ignored", "open", "failed"} BY <1>5 DEF Answer
    <2>5. QED BY <1>5, <2>1, <2>2, <2>3, <2>4 DEF Answer
  <1>6. CASE Refused
    <2>1. part.len = size BY <1>6 DEF Refused
    <2>2. part = Whole BY <2>1, SameFile
    <2>3. QED BY <1>6, <2>1, <2>2 DEF Refused, Return
  <1>7. CASE Failed \/ Break BY <1>7 DEF Failed, Break
  <1>8. CASE Ignored BY <1>8 DEF Ignored, RestartFrom
  <1>9. CASE Open
    <2>1. total' = size BY <1>9 DEF Open, Totals
    <2>2. part' \in FileRecord /\ part'.of = "remote" /\ part'.len = from
      BY <1>9 DEF Open, Appends
    <2>3. QED BY <1>9, <2>1, <2>2 DEF Open
  <1>10. CASE Chunk BY <1>10 DEF Chunk
  <1>11. CASE Flush BY <1>11 DEF Flush
  <1>12. CASE End BY <1>12 DEF End, CutShort, AfterCutShort
  <1>13. CASE Land
    <2>1. part = Whole BY <1>13, SameFile DEF Land
    <2>2. QED BY <1>13, <2>1 DEF Land, Return
  <1>14. CASE UNCHANGED vars BY <1>14 DEF vars
  <1>15. QED BY <1>2, <1>3, <1>4, <1>5, <1>6, <1>7, <1>8, <1>9, <1>10, <1>11, <1>12,
               <1>13, <1>14 DEF Next, Local, Dumped, Body

LEMMA NextInv == ASSUME LengthStated, IInv, [Next]_vars PROVE IInv'
  <1>1. Types' /\ LengthInv' BY NextLengths DEF IInv
  <1>2. Whole' = Whole /\ foreign' = foreign
    BY DEF Next, vars, outside, Local, Dumped, Body, Call, Look, Measure, Answer, Refused, Failed,
           Ignored, Open, Chunk, Flush, End, Land, Break
  <1>3. QED BY <1>1, <1>2, NextSuited DEF IInv

LEMMA Invariance == ASSUME LengthStated PROVE Spec => []IInv
  BY InitInv, NextInv, PTL DEF Spec

\* No offset or counter of a call leaves the length of the remote file, unless an
\* answer did not suit its request.
THEOREM TypeCorrect == ASSUME LengthStated PROVE Spec => []TypeOK
  <1>1. IInv => TypeOK
    <2> SUFFICES ASSUME IInv PROVE TypeOK OBVIOUS
    <2>1. misled \/ {dest.len, part.len, from, written, total, bytes} \subseteq 0..MaxSize
      BY SizeAssumption DEF IInv, Types, Bounds
    <2>2. expected \in 0..MaxSize /\ base \in 0..MaxSize BY SizeAssumption DEF IInv, Types
    <2>3. QED BY <2>1, <2>2 DEF IInv, Types, TypeOK
  <1>2. QED BY <1>1, Invariance, PTL

\* Whatever is interrupted, resumed, refused or restarted, nothing but the whole
\* file comes under the final name, if every answer states a length and suits its
\* request.
THEOREM OnlyWholeFiles == ASSUME LengthStated PROVE Spec => []NeverPartial
  <1>1. IInv => NeverPartial BY DEF IInv, NeverPartial
  <1>2. QED BY <1>1, Invariance, PTL

\* And a call that returns tells the true size of what is in place, which is the file
\* that was expected, unless an answer did not suit its request.
THEOREM ResultsAreFiles == ASSUME LengthStated PROVE Spec => []ResultIsFile
  <1>1. IInv => ResultIsFile BY DEF IInv, Types, LengthInv, OffsetInv, ResultIsFile
  <1>2. QED BY <1>1, Invariance, PTL

-----------------------------------------------------------------------------
(* The refinement: the initial states, then one step per action.           *)

LEMMA InitPromise == Init => Promise!Init
  BY SizeAssumption DEF Init, Promise!Init, FileKind, CallKind

LEMMA StepPromise ==
    ASSUME LengthStated, IInv, [Next]_vars PROVE [Promise!Next]_(Promise!vars)
  <1>0. foreign' = foreign /\ size' = size
    BY DEF Next, vars, outside, Local, Dumped, Body, Call, Look, Measure, Answer, Refused, Failed,
           Ignored, Open, Chunk, Flush, End, Land, Break
  <1> USE SizeAssumption, <1>0 DEF IInv, Types, LengthInv, FileKind, CallKind,
             outside, disk, offsets, Promise!vars
  <1>1. CASE Call BY <1>1 DEF Call, Promise!Next, Promise!Start
  <1>2. CASE Look
    <2>1. CASE dest.len > 0 /\ Trusted(dest.len) /\ Return(dest.len) /\ UNCHANGED dest
      BY <1>2, <2>1 DEF Look, Return, Promise!Next, Promise!Skip
    <2>2. CASE dest' = Absent /\ pc' = "measure"
      BY <1>2, <2>2 DEF Look, Promise!Next, Promise!Discard
    <2>3. CASE pc' = "measure" /\ UNCHANGED dest
      BY <1>2, <2>3 DEF Look
    <2>4. QED BY <1>2, <2>1, <2>2, <2>3 DEF Look
  <1>3. CASE Answer
    <2>1. CallKind = "on" /\ CallKind' = "on" /\ FileKind' = FileKind BY <1>3 DEF Answer
    <2>2. misled' = misled \/ misled' = TRUE BY <1>3 DEF Answer
    <2>3. QED BY <2>1, <2>2 DEF Promise!Next, Promise!Mislead
  <1>4. CASE (Refused \/ Land) /\ pc' = "done"
    <2>1. FileKind = "none" /\ CallKind = "on" BY <1>4 DEF Refused, Land
    <2>2. CallKind' = "done" /\ misled' = misled BY <1>4 DEF Refused, Land
    <2>3. FileKind' \in {"none", "foreign", "whole", "broken"} OBVIOUS
    <2>4. ~misled => FileKind' = "whole"
      <3> SUFFICES ASSUME ~misled PROVE FileKind' = "whole" OBVIOUS
      <3>1. part.len = size /\ part.of = "remote" BY <1>4 DEF Refused, Land, OffsetInv, PartInv
      <3>2. part = Whole BY <3>1, SameFile
      <3>3. QED BY <1>4, <3>2 DEF Refused, Land
    <2>5. QED BY <2>1, <2>2, <2>3, <2>4 DEF Promise!Next, Promise!Land
  <1>5. CASE Failed \/ Break \/ (Refused /\ pc' = "idle")
    BY <1>5 DEF Failed, Break, Refused, Return, Promise!Next, Promise!Fail
  <1>6. CASE End BY <1>6 DEF End, CutShort, AfterCutShort, Promise!Next, Promise!Fail
  <1>7. CASE Measure \/ Ignored \/ Open \/ Chunk \/ Flush
    <2>1. UNCHANGED <<dest, misled>> BY <1>7 DEF Measure, Ignored, Open, Chunk, Flush
    <2>2. pc \notin Quiet /\ pc' \notin Quiet BY <1>7 DEF Measure, Ignored, Open, Chunk, Flush
    <2>3. QED BY <2>1, <2>2
  <1>8. CASE UNCHANGED vars BY <1>8 DEF vars
  <1>9. QED BY <1>1, <1>2, <1>3, <1>4, <1>5, <1>6, <1>7, <1>8
           DEF Next, Local, Dumped, Body, Refused, Land, Return

\* fetchFile implements what DownloadQueue takes it for: from outside, a call
\* finds a file, puts a whole one in place at one stroke, or leaves nothing; only a
\* host that answers what was not asked for can make it put another in place.
THEOREM Refinement == ASSUME LengthStated PROVE Spec => KeepsPromise
  <1>1. Spec => Promise!Init /\ [][Promise!Next]_(Promise!vars)
    BY InitPromise, StepPromise, Invariance, PTL DEF Spec
  <1>2. QED BY <1>1 DEF KeepsPromise, Promise!Spec


-----------------------------------------------------------------------------
(* What is kept to resume from.                                            *)

\* The offset of the request is the length of the .part, until the file is opened.
KeptInv ==
    /\ part.len \in Nat
    /\ pc \in {"request", "refused", "ignored", "open"} => from = part.len

LEMMA KeptStep == ASSUME KeptInv, [Next]_vars
                  PROVE  KeptInv' /\ (part'.len < part.len => pc = "ignored" \/ dest' = part)
  <1> USE DEF KeptInv, outside, disk, offsets
  <1>1. CASE Call \/ Look \/ Failed \/ End \/ Break
    BY <1>1 DEF Call, Look, Return, Failed, End, AfterCutShort, Break
  <1>2. CASE Measure \/ Answer BY <1>2 DEF Measure, Answer
  <1>3. CASE Refused \/ Land BY <1>3 DEF Refused, Land, Return
  <1>4. CASE Ignored BY <1>4 DEF Ignored, RestartFrom
  <1>5. CASE Open
    <2>1. part'.len = part.len BY <1>5 DEF Open, Appends
    <2>2. QED BY <1>5, <2>1 DEF Open
  <1>6. CASE Chunk BY <1>6 DEF Chunk
  <1>7. CASE Flush
    <2>1. part'.len = part.len + 1 BY <1>7 DEF Flush
    <2>2. QED BY <1>7, <2>1 DEF Flush
  <1>8. CASE UNCHANGED vars BY <1>8 DEF vars
  <1>9. QED BY <1>1, <1>2, <1>3, <1>4, <1>5, <1>6, <1>7, <1>8 DEF Next, Local, Dumped, Body

\* "The partial file is deliberately kept": no step of a call gives up what was
\* written but when the host ignores the range or when it becomes the file,
\* whether the answers state a length or not.
THEOREM PartialIsKept == Spec => ResumeKept
  <1>1. Init => KeptInv BY DEF Init, KeptInv
  <1>2. KeptInv /\ [Next]_vars => KeptInv' BY KeptStep
  <1>3. KeptInv /\ [Next]_vars => [part'.len < part.len => pc = "ignored" \/ dest' = part]_vars
    BY KeptStep
  <1>4. QED BY <1>1, <1>2, <1>3, PTL DEF Spec, ResumeKept
=============================================================================
