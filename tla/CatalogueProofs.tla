--------------------------- MODULE CatalogueProofs ---------------------------
(***************************************************************************)
(* Proofs about the catalogue's pages and the posters on disk, for every   *)
(* length of the timeouts, every pool, and every number of failures.       *)
(***************************************************************************)
EXTENDS Site, SequenceTheorems, WellFoundedInduction, TLAPS

-----------------------------------------------------------------------------
(* The posters.                                                            *)

\* A step of the site is a step of the posters or leaves them alone.
LEMMA PosterMoves == [Next]_vars => PosterNext \/ UNCHANGED posterVars
  BY DEF Next, vars

Stages == {"idle", "read", "readtype", "fetch", "open", "write", "rename", "type", "typing", "served"}

PosterTyped ==
    /\ temp \in Bytes /\ image \in Bytes /\ type \in Bytes
    /\ lastIn = [temp |-> lastIn.temp, image |-> lastIn.image]
    /\ view \in [Viewers -> [pc : Stages, open : {"none", "temp", "image", "lost"},
                             body : Bytes \cup {"none"}, type : {"none", "own", "default"}]]
    /\ \A r \in Viewers : view[r].open # "none" <=> view[r].pc = "write"
    /\ crashes \in Nat /\ failures \in Nat /\ shared \in BOOLEAN

Holds(r, file) == At(r, "write") /\ view[r].open = file
Busy(r) == view[r].pc \in {"write", "rename"}

\* Half a file is being written by who truncated it last.
HalfHasWriter ==
    /\ temp = "half" => Interrupted \/ (lastIn.temp \in Viewers /\ Holds(lastIn.temp, "temp"))
    /\ image = "half" => Interrupted \/ (lastIn.image \in Viewers /\ Holds(lastIn.image, "image"))

\* Two requests were at the temporary file together before anything was half moved.
SharedBefore ==
    /\ \A q, r \in Viewers : q # r /\ Busy(q) /\ Busy(r) => shared
    /\ \A r \in Viewers :
         /\ Holds(r, "image") \/ Holds(r, "lost") => shared
         /\ Holds(r, "temp") /\ lastIn.temp # r => shared
         /\ At(r, "rename") /\ temp = "half" => shared
    /\ image = "half" => shared

\* Who goes on writing in the image has one to write in.
ImageIsThere == \A r \in Viewers : Holds(r, "image") => image # "absent"

PosterInv == PosterTyped /\ HalfHasWriter /\ SharedBefore /\ ImageIsThere /\ TypeFollows

LEMMA PosterFirst == Init => PosterInv
<1>. SUFFICES ASSUME PosterInit PROVE PosterInv
  BY DEF Init
<1>. QED BY DEF PosterInit, PosterInv, PosterTyped, HalfHasWriter, SharedBefore, ImageIsThere, TypeFollows,
            Bytes, Stages, Unseen, Holds, Busy, At

\* A step of one request that writes no file, and is not at the temporary file then.
LEMMA PosterQuiet ==
  ASSUME PosterInv, NEW r \in Viewers, UNCHANGED <<temp, image, lastIn, shared>>,
         view' \in [Viewers -> [pc : Stages, open : {"none", "temp", "image", "lost"},
                                body : Bytes \cup {"none"}, type : {"none", "own", "default"}]],
         \A o \in Viewers \ {r} : view'[o] = view[o],
         view'[r].open = "none", view'[r].pc \notin {"write", "rename"},
         type' \in Bytes, crashes' \in Nat, failures' \in Nat, Interrupted => Interrupted',
         At(r, "write") => Interrupted',
         image # "absent" /\ type' # "whole" =>
            Interrupted' \/ \E o \in Viewers : view'[o].pc \in {"type", "typing"}
  PROVE  PosterInv'
<1>. USE DEF PosterInv, PosterTyped
<1>1. PosterTyped'
  OBVIOUS
<1>2. HalfHasWriter'
  BY DEF HalfHasWriter, Holds, At
<1>3. SharedBefore'
  BY DEF SharedBefore, Holds, Busy, At
<1>4. ImageIsThere' /\ TypeFollows'
  BY DEF ImageIsThere, TypeFollows, Holds, At
<1>. QED BY <1>1, <1>2, <1>3, <1>4

LEMMA PosterStep == ASSUME PosterInv, PosterNext PROVE PosterInv'
<1>. USE DEF PosterInv, PosterTyped
<1>1. ASSUME NEW r \in Viewers,
             Stat(r) \/ ReadImage(r) \/ ReadType(r) \/ Fetch(r) \/ RenameMissing(r) \/ Close(r)
      PROVE  PosterInv'
  <2>1. /\ UNCHANGED <<files, bounds, shared>> /\ view[r].pc \notin {"write", "type", "typing"}
        /\ \A o \in Viewers \ {r} : view'[o] = view[o]
    BY <1>1 DEF Stat, ReadImage, ReadType, Fetch, RenameMissing, Close, Go, Serve, At
  <2>2. /\ view' \in [Viewers -> [pc : Stages, open : {"none", "temp", "image", "lost"},
                                  body : Bytes \cup {"none"}, type : {"none", "own", "default"}]]
        /\ view'[r].open = "none" /\ view'[r].pc \notin {"write", "rename"}
    BY <1>1, <2>1 DEF Stat, ReadImage, ReadType, Fetch, RenameMissing, Close, Go, Serve, At, Unseen,
                      Stages, Bytes, files
  <2>3. image # "absent" /\ type # "whole" =>
          Interrupted \/ \E o \in Viewers : view'[o].pc \in {"type", "typing"}
    BY <2>1 DEF TypeFollows
  <2>4. type \in Bytes /\ crashes \in Nat /\ failures \in Nat
    OBVIOUS
  <2>. HIDE DEF PosterInv
  <2>. QED BY <2>1, <2>2, <2>3, <2>4, PosterQuiet DEF files, bounds, Interrupted, At
<1>2. ASSUME NEW r \in Viewers, OpenType(r) \/ WriteType(r) \/ CacheFails(r)
      PROVE  PosterInv'
  <2>1. /\ UNCHANGED <<temp, image, lastIn, shared, crashes>>
        /\ \A o \in Viewers \ {r} : view'[o] = view[o]
        /\ type' \in Bytes /\ crashes' \in Nat /\ failures' \in Nat /\ (Interrupted => Interrupted')
        /\ At(r, "write") => Interrupted'
    BY <1>2 DEF OpenType, WriteType, CacheFails, Go, Serve, At, files, bounds, Interrupted, Bytes
  <2>2. /\ view' \in [Viewers -> [pc : Stages, open : {"none", "temp", "image", "lost"},
                                  body : Bytes \cup {"none"}, type : {"none", "own", "default"}]]
        /\ view'[r].open = "none" /\ view'[r].pc \notin {"write", "rename"}
    BY <1>2 DEF OpenType, WriteType, CacheFails, Go, Serve, At, Stages, Bytes
  <2>3. image # "absent" /\ type' # "whole" =>
          Interrupted' \/ \E o \in Viewers : view'[o].pc \in {"type", "typing"}
    BY <1>2, <2>2 DEF OpenType, WriteType, CacheFails, Go, Serve, At, Interrupted
  <2>. HIDE DEF PosterInv
  <2>. QED BY <2>1, <2>2, <2>3, PosterQuiet
<1>3. ASSUME NEW r \in Viewers, Open(r) PROVE PosterInv'
  <2> DEFINE opened == [view[r] EXCEPT !.pc = "write", !.open = "temp"]
  <2>0. /\ At(r, "open") /\ temp' = "half" /\ lastIn' = [lastIn EXCEPT !.temp = r]
        /\ view' = [view EXCEPT ![r] = opened]
        /\ UNCHANGED <<image, type, crashes, failures>>
        /\ shared' = (shared \/ \E o \in Viewers \ {r} : At(o, "write") \/ At(o, "rename"))
    BY <1>3 DEF Open, OpenTemp, bounds
  <2>00. /\ opened.pc = "write" /\ opened.open = "temp"
         /\ opened \in [pc : Stages, open : {"none", "temp", "image", "lost"},
                        body : Bytes \cup {"none"}, type : {"none", "own", "default"}]
    BY DEF Stages
  <2>. HIDE DEF opened
  <2>1. /\ lastIn' = [temp |-> r, image |-> lastIn.image]
        /\ \A o \in Viewers \ {r} : view'[o] = view[o]
        /\ view'[r] = opened
    BY <2>0
  <2>2. PosterTyped'
    BY <2>0, <2>00, <2>1 DEF Bytes
  <2>3. HalfHasWriter'
    BY <2>0, <2>00, <2>1 DEF HalfHasWriter, Interrupted, Holds, At
  <2>4. SharedBefore'
    <3>1. \A o \in Viewers \ {r} : Busy(o)' => shared'
      BY <2>0, <2>1 DEF Busy, At
    <3>2. shared => shared'
      BY <2>0
    <3>3. \A o \in Viewers : \A f : Holds(o, f)' => Busy(o)'
      BY DEF Holds, Busy, At
    <3>4. At(r, "write")' /\ view'[r].open = "temp" /\ lastIn'.temp = r
      BY <2>00, <2>1 DEF At
    <3>5. \A o \in Viewers : At(o, "rename")' => o # r /\ Busy(o)'
      BY <3>4 DEF Busy, At
    <3>6. image' = "half" => shared
      BY <2>0 DEF SharedBefore
    <3>7. \A q, o \in Viewers : q # o /\ Busy(q)' /\ Busy(o)' => shared'
      BY <3>1
    <3>8. ASSUME NEW o \in Viewers
          PROVE  /\ Holds(o, "image")' \/ Holds(o, "lost")' => shared'
                 /\ Holds(o, "temp")' /\ lastIn'.temp # o => shared'
                 /\ At(o, "rename")' /\ temp' = "half" => shared'
      <4>1. CASE o = r
        BY <3>4, <4>1 DEF Holds, At
      <4>2. CASE o # r
        BY <3>1, <3>3, <3>5, <4>2
      <4>. QED BY <4>1, <4>2
    <3>. QED BY <3>2, <3>6, <3>7, <3>8 DEF SharedBefore
  <2>5. ImageIsThere' /\ TypeFollows'
    BY <2>0, <2>00, <2>1 DEF ImageIsThere, TypeFollows, Holds, At, Interrupted
  <2>. QED BY <2>2, <2>3, <2>4, <2>5
<1>4. ASSUME NEW r \in Viewers, Write(r) PROVE PosterInv'
  <2>1. /\ At(r, "write") /\ UNCHANGED <<type, lastIn, crashes, failures, shared>>
        /\ temp' \in {temp, "whole"} /\ image' \in {image, "whole"}
        /\ Holds(r, "temp") /\ lastIn.temp = r => temp' = "whole"
        /\ Holds(r, "image") /\ lastIn.image = r => image' = "whole"
        /\ ~Holds(r, "temp") => temp' = temp
        /\ ~Holds(r, "image") => image' = image
    BY <1>4 DEF Write, Written, bounds, Holds
  <2>0. view' = [view EXCEPT ![r] = [view[r] EXCEPT !.pc = "rename", !.open = "none"]]
    BY <1>4 DEF Write
  <2>00. /\ \A o \in Viewers \ {r} : view'[o] = view[o]
         /\ view'[r].pc = "rename" /\ view'[r].open = "none"
    BY <2>0
  <2>2. PosterTyped'
    <3>1. [view[r] EXCEPT !.pc = "rename", !.open = "none"]
            \in [pc : Stages, open : {"none", "temp", "image", "lost"},
                body : Bytes \cup {"none"}, type : {"none", "own", "default"}]
      BY DEF Stages
    <3>. QED BY <2>0, <2>00, <2>1, <3>1 DEF Bytes
  <2>3. HalfHasWriter'
    <3>1. temp' = "half" => temp = "half" /\ (lastIn.temp \in Viewers /\ Holds(lastIn.temp, "temp") => lastIn.temp # r)
      BY <2>00, <2>1
    <3>2. image' = "half" => image = "half" /\ (lastIn.image \in Viewers /\ Holds(lastIn.image, "image") => lastIn.image # r)
      BY <2>00, <2>1
    <3>. QED BY <2>00, <2>1, <3>1, <3>2 DEF HalfHasWriter, Interrupted, Holds, At
  <2>4. SharedBefore'
    <3>1. temp' = "half" => shared
      <4>1. CASE Holds(r, "temp")
        BY <2>00, <2>1, <4>1 DEF SharedBefore
      <4>2. CASE ~Holds(r, "temp")
        BY <2>00, <2>1, <4>2 DEF SharedBefore, Holds, At
      <4>. QED BY <4>1, <4>2
    <3>2. image' = "half" => shared
      BY <2>00, <2>1 DEF SharedBefore
    <3>3. ASSUME NEW o \in Viewers, Busy(o)' PROVE Busy(o)
      BY <2>00, <2>1, <3>3 DEF Busy, At
    <3>4. ASSUME NEW o \in Viewers, NEW f \in {"temp", "image", "lost"}, Holds(o, f)' PROVE Holds(o, f)
      BY <2>00, <2>1, <3>4 DEF Holds, At
    <3>. QED BY <2>00, <2>1, <3>1, <3>2, <3>3, <3>4 DEF SharedBefore
  <2>5. ImageIsThere' /\ TypeFollows'
    <3>1. image' # "absent" => image # "absent"
      BY <2>00, <2>1 DEF ImageIsThere
    <3>2. ImageIsThere'
      BY <2>00, <2>1 DEF ImageIsThere, Holds, At
    <3>3. \A o \in Viewers : view[o].pc \in {"type", "typing"} => view'[o] = view[o]
      BY <2>00, <2>1 DEF At
    <3>. QED BY <2>00, <2>1, <3>1, <3>2, <3>3 DEF TypeFollows, Interrupted
  <2>. QED BY <2>2, <2>3, <2>4, <2>5
<1>5. ASSUME NEW r \in Viewers, Rename(r) PROVE PosterInv'
  <2>1. /\ At(r, "rename") /\ temp # "absent" /\ image' = temp /\ temp' = "absent"
        /\ lastIn'.image = lastIn.temp /\ lastIn' = [temp |-> lastIn'.temp, image |-> lastIn'.image]
        /\ UNCHANGED <<type, crashes, failures, shared>>
    BY <1>5 DEF Rename, bounds
  <2>2. /\ \A o \in Viewers \ {r} : view'[o] = [view[o] EXCEPT !.open = Moved(@)]
        /\ view'[r] = [view[r] EXCEPT !.pc = "type"]
        /\ view' = [o \in Viewers |-> view'[o]]
    BY <1>5 DEF Rename, AfterRename
  <2>3. ASSUME NEW o \in Viewers \ {r}
        PROVE  /\ view'[o].pc = view[o].pc
               /\ view'[o].open = Moved(view[o].open)
               /\ view'[o] \in [pc : Stages, open : {"none", "temp", "image", "lost"},
                               body : Bytes \cup {"none"}, type : {"none", "own", "default"}]
    BY <2>2 DEF Moved
  <2>4. /\ view'[r].pc = "type" /\ view'[r].open = "none"
        /\ view'[r] \in [pc : Stages, open : {"none", "temp", "image", "lost"},
                        body : Bytes \cup {"none"}, type : {"none", "own", "default"}]
    BY <2>1, <2>2 DEF At, Stages
  <2>5. PosterTyped'
    <3>1. view' \in [Viewers -> [pc : Stages, open : {"none", "temp", "image", "lost"},
                        body : Bytes \cup {"none"}, type : {"none", "own", "default"}]]
      BY <2>2, <2>3, <2>4
    <3>2. \A o \in Viewers : view'[o].open # "none" <=> view'[o].pc = "write"
      BY <2>3, <2>4 DEF Moved
    <3>. QED BY <2>1, <3>1, <3>2 DEF Bytes
  <2>6. HalfHasWriter'
    BY <2>1, <2>3 DEF HalfHasWriter, Interrupted, Holds, At, Moved
  <2>7. SharedBefore'
    <3>1. temp = "half" => shared
      BY <2>1 DEF SharedBefore
    <3>2. \A o \in Viewers \ {r} : Busy(o) => shared
      BY <2>1 DEF SharedBefore, Busy, At
    <3>3. \A o \in Viewers : Busy(o)' => o # r /\ Busy(o)
      BY <2>3, <2>4 DEF Busy
    <3>4. \A o \in Viewers : \A f : Holds(o, f)' => Busy(o)'
      BY DEF Holds, At, Busy
    <3>. QED BY <2>1, <3>1, <3>2, <3>3, <3>4 DEF SharedBefore
  <2>8. ImageIsThere' /\ TypeFollows'
    BY <2>1, <2>4 DEF ImageIsThere, TypeFollows
  <2>. QED BY <2>5, <2>6, <2>7, <2>8
<1>6. CASE Expire
  BY <1>6 DEF Expire, bounds, HalfHasWriter, SharedBefore, ImageIsThere, TypeFollows, Interrupted, Holds, Busy, At
<1>7. CASE Die
  <2>1. \A r \in Viewers : view'[r].pc = "idle" /\ view'[r].open = "none"
    BY <1>7 DEF Die, Unseen
  <2>2. Interrupted' /\ UNCHANGED <<image, type, failures, shared>>
    BY <1>7 DEF Die, Interrupted
  <2>3. PosterTyped'
    BY <1>7, <2>1 DEF Die, Bytes, Unseen, Stages
  <2>4. HalfHasWriter' /\ ImageIsThere' /\ TypeFollows'
    BY <2>1, <2>2 DEF HalfHasWriter, ImageIsThere, TypeFollows, Holds, At
  <2>5. SharedBefore'
    BY <2>1, <2>2 DEF SharedBefore, Holds, At, Busy
  <2>. QED BY <2>3, <2>4, <2>5
<1>. QED BY <1>1, <1>2, <1>3, <1>4, <1>5, <1>6, <1>7 DEF PosterNext

LEMMA PosterInductive == PosterInv /\ [Next]_vars => PosterInv'
<1>1. ASSUME PosterInv, UNCHANGED posterVars PROVE PosterInv'
  BY <1>1 DEF PosterInv, PosterTyped, HalfHasWriter, SharedBefore, ImageIsThere, TypeFollows, Interrupted,
              Holds, Busy, At, posterVars, files, bounds
<1>. QED BY <1>1, PosterMoves, PosterStep

\* "Write-then-rename so a concurrent reader never sees a half-written file"
\* (imageCache.ts:92) holds of one writer: half an image is under the final name
\* only after two requests had the temporary file open together.
THEOREM HalfPasses == Spec => []HalfIsPassing
<1>1. PosterInv => HalfIsPassing
  BY DEF PosterInv, HalfHasWriter, SharedBefore, Holds, HalfIsPassing
<1>. QED BY PosterFirst, PosterInductive, <1>1, PTL DEF Spec

\* An image in the cache has its own type beside it, unless a request is on its
\* way to write that or was stopped on it (writeCache renames, then writes it).
THEOREM TypeIsBeside == Spec => []TypeFollows
<1>1. PosterInv => TypeFollows
  BY DEF PosterInv
<1>. QED BY PosterFirst, PosterInductive, <1>1, PTL DEF Spec

-----------------------------------------------------------------------------
(* How long a page takes.                                                  *)

\* A step of the site is a step of the catalogue's page or leaves it alone.
LEMMA CatalogueMoves == [Next]_vars => CatalogueNext \/ UNCHANGED catalogueVars
  BY DEF Next, vars

\* How long after its beginning an exchange of attempt n, or the delay after it, ends.
SentBound(n) == CASE n = 1 -> Exchange [] n = 2 -> 2 * Exchange + Delay [] n = 3 -> CallTime
DelayBound(n) == CASE n = 1 -> Exchange + Delay [] n = 2 -> 2 * Exchange + 3 * Delay

\* Call k of getJson is under way, and was begun at time from at the latest.
InCall(k, from) ==
    /\ now <= k.due /\ k.due \in Nat
    /\ \/ k.at = "sent" /\ k.n \in {1, 2, 3} /\ k.due <= from + SentBound(k.n)
       \/ k.at = "delay" /\ k.n \in {1, 2} /\ k.due <= from + DelayBound(k.n)

\* k is a HEAD of a probe, or the ranged GET after it, and was given k.n, as much as
\* was left until the deadline at most.
ProbeTail == Least(ProbeWait, ProbeTime)
InProbe(k) ==
    /\ now <= k.due /\ k.due \in Nat /\ k.n \in 0..ProbeTail
    /\ \/ k.at = "head" /\ k.due <= deadline + HeadLasts(k.n) - k.n
       \/ k.at = "range" /\ k.due <= deadline + HeadLasts(k.n) + GetLasts(k.n) - k.n

Clock ==
    /\ now \in Nat /\ deadline \in Nat
    /\ page.pc \in {"idle", "ask", "pool", "find", "over"}
    /\ page.pc \in {"ask", "pool"} => page.for \in {"search", "title"}
    /\ page = [for |-> page.for, pc |-> page.pc, answer |-> page.answer]
    /\ calls = [c \in Callers |-> calls[c]]

OnTime ==
    /\ page.pc = "idle" => now = 0
    /\ page.pc \in {"idle", "ask"} => \A w \in Workers : calls[w].at = "rest"
    /\ page.pc = "ask" => InCall(calls[0], 0)
    /\ page.pc = "pool" => calls[0].at = "rest"
    /\ page.pc = "pool" /\ page.for = "search" =>
         /\ \A w \in Workers : calls[w].at = "rest" \/ InCall(calls[w], deadline)
         /\ now <= deadline + CallTime
    /\ page.pc = "pool" /\ page.for = "title" =>
         /\ \A w \in Workers : calls[w].at = "rest" \/ InProbe(calls[w])
         /\ deadline <= now + ProbeTime /\ now <= deadline + ProbeOver

\* A page that is over waits for nobody.
Stopped == page.pc \in {"find", "over"} => \A c \in Callers : ~Waiting(c)

TimeInv == Clock /\ OnTime /\ Stopped

LEMMA Times ==
  /\ Concurrency \in Nat /\ Exchange \in Nat /\ Delay \in Nat /\ EnrichTime \in Nat
  /\ ProbeTime \in Nat /\ ProbeWait \in Nat
  /\ CallTime = 3 * Exchange + 3 * Delay
  /\ ProbeTail \in Nat /\ ProbeTail <= ProbeWait /\ ProbeTail <= ProbeTime
  /\ 0 \in Callers /\ 0 \notin Workers /\ Workers \subseteq Callers
  /\ \A c \in Callers : c = 0 \/ c \in Workers
  BY TimesAssumption DEF CallTime, MaxAttempts, ProbeTail, Least, Callers, Workers

\* The arithmetic of Lasts, without its products.
LEMMA Sums ==
  /\ \A a, b, c, d, e \in Nat : a + b + c + d \in Nat /\ a + b + c + d + e \in Nat
  /\ \A a, rs, rd, c, s, d \in Nat : a + (rs + rd) + c + (s + d) = (a + rs + c + s) + rd + d
  /\ \A a, b, c \in Nat : a + (b + c) = a + b + c
  /\ \A hs, gs, ht, gt, rd, ms, md, s, t, d \in Nat :
    t = s + d /\ ht = hs + rd + d /\ gs = hs + ms /\ gt = ht + ms + md
      => hs + gs - s <= ht + gt - t
OBVIOUS

\* The requests of a probe that is given more last longer, and by more than that.
LEMMA Lasts ==
  /\ \A t \in Nat : HeadLasts(t) \in Nat /\ GetLasts(t) \in Nat
  /\ \A t \in Nat : \A s \in 0..t :
       HeadLasts(s) + GetLasts(s) - s <= HeadLasts(t) + GetLasts(t) - t
<1>1. MaxRedirects \in Nat /\ Connect \in Nat /\ MaxGaps \in Nat
  BY TimesAssumption
<1>2. \A t \in Nat : MaxRedirects * t \in Nat /\ MaxGaps * t \in Nat
  BY <1>1
<1>3. \A t \in Nat : /\ HeadLasts(t) = MaxRedirects * Connect + MaxRedirects * t + Connect + t
                     /\ GetLasts(t) = HeadLasts(t) + MaxGaps * t
  BY <1>1 DEF HeadLasts, GetLasts
<1>4. ASSUME NEW t \in Nat PROVE HeadLasts(t) \in Nat /\ GetLasts(t) \in Nat
  <2>1. MaxRedirects * Connect \in Nat /\ MaxRedirects * t \in Nat /\ MaxGaps * t \in Nat
    BY <1>1, <1>2
  <2>2. MaxRedirects * Connect + MaxRedirects * t + Connect + t \in Nat
    BY <1>1, <2>1, Sums
  <2>3. MaxRedirects * Connect + MaxRedirects * t + Connect + t + MaxGaps * t \in Nat
    BY <1>1, <2>1, Sums
  <2>. QED BY <1>3, <2>2, <2>3
<1>5. ASSUME NEW t \in Nat, NEW s \in 0..t
      PROVE  HeadLasts(s) + GetLasts(s) - s <= HeadLasts(t) + GetLasts(t) - t
  <2>1. PICK d \in Nat : t = s + d /\ s \in Nat
    <3>1. t - s \in Nat /\ t = s + (t - s)
      OBVIOUS
    <3>. QED BY <3>1
  <2>2. /\ MaxRedirects * t = MaxRedirects * s + MaxRedirects * d
        /\ MaxGaps * t = MaxGaps * s + MaxGaps * d
    BY <1>1, <2>1
  <2>3. MaxRedirects * d \in Nat /\ MaxGaps * d \in Nat
    BY <1>2
  <2>4. /\ MaxRedirects * s \in Nat /\ MaxGaps * s \in Nat /\ MaxRedirects * Connect \in Nat
        /\ Connect \in Nat
    BY <1>1, <1>2, <2>1
  <2>5. HeadLasts(t) = HeadLasts(s) + MaxRedirects * d + d /\ HeadLasts(s) \in Nat
    <3>1. /\ HeadLasts(t) = MaxRedirects * Connect + (MaxRedirects * s + MaxRedirects * d) + Connect + (s + d)
          /\ HeadLasts(s) = MaxRedirects * Connect + MaxRedirects * s + Connect + s
      BY <1>3, <2>1, <2>2
    <3>2. HeadLasts(s) \in Nat
      BY <1>4, <2>1
    <3>. QED BY <2>1, <2>3, <2>4, <3>1, <3>2, Sums
  <2>6. GetLasts(t) = HeadLasts(t) + MaxGaps * s + MaxGaps * d /\ GetLasts(s) = HeadLasts(s) + MaxGaps * s
    <3>1. GetLasts(t) = HeadLasts(t) + (MaxGaps * s + MaxGaps * d)
      BY <1>3, <2>1, <2>2
    <3>2. HeadLasts(t) \in Nat /\ MaxGaps * s \in Nat /\ MaxGaps * d \in Nat
      BY <1>2, <1>4, <2>1, <2>3
    <3>3. GetLasts(s) = HeadLasts(s) + MaxGaps * s
      BY <1>3, <2>1
    <3>. QED BY <3>1, <3>2, <3>3, Sums
  <2>7. HeadLasts(t) \in Nat /\ GetLasts(t) \in Nat /\ GetLasts(s) \in Nat
    BY <1>4, <2>1
  <2>. HIDE DEF HeadLasts, GetLasts
  <2>. QED BY <2>1, <2>3, <2>4, <2>5, <2>6, <2>7, Sums
<1>. QED BY <1>4, <1>5

\* A probe that was given n ends within ProbeOver of the deadline.
LEMMA ProbeEnds ==
  /\ ProbeOver \in Nat
  /\ \A n \in 0..ProbeTail :
       /\ HeadLasts(n) \in Nat /\ GetLasts(n) \in Nat
       /\ HeadLasts(n) - n <= ProbeOver /\ HeadLasts(n) + GetLasts(n) - n <= ProbeOver
<1>1. ProbeOver = HeadLasts(ProbeTail) + GetLasts(ProbeTail) - ProbeTail /\ ProbeTail \in Nat
  BY Times DEF ProbeOver, ProbeTail
<1>2. HeadLasts(0) \in Nat /\ GetLasts(0) \in Nat /\ HeadLasts(ProbeTail) \in Nat /\ GetLasts(ProbeTail) \in Nat
  BY <1>1, Lasts
<1>3. HeadLasts(0) + GetLasts(0) - 0 <= ProbeOver
  BY <1>1, Lasts
<1>4. ASSUME NEW n \in 0..ProbeTail
      PROVE  /\ HeadLasts(n) \in Nat /\ GetLasts(n) \in Nat
             /\ HeadLasts(n) - n <= ProbeOver /\ HeadLasts(n) + GetLasts(n) - n <= ProbeOver
  <2>1. n \in Nat /\ HeadLasts(n) \in Nat /\ GetLasts(n) \in Nat
    BY <1>1, Lasts
  <2>2. HeadLasts(n) + GetLasts(n) - n <= ProbeOver
    BY <1>1, Lasts
  <2>. QED BY <1>1, <1>2, <2>1, <2>2
<1>. QED BY <1>1, <1>2, <1>3, <1>4

LEMMA TimeFirst == Init => TimeInv
<1>. SUFFICES ASSUME CatalogueInit PROVE TimeInv
  BY DEF Init
<1>. QED BY Times DEF CatalogueInit, TimeInv, Clock, OnTime, Stopped, Rest, Call

\* The next attempt, when the delay is over.
LEMMA SentInTime ==
  ASSUME now \in Nat, NEW from \in Nat, NEW item
  PROVE  /\ now <= from => InCall(Send(1, item), from)
         /\ \A k : InCall(k, from) /\ k.at = "delay" /\ now >= k.due => InCall(Send(k.n + 1, item), from)
  BY Times DEF InCall, Send, Call, SentBound, DelayBound

\* What becomes of an attempt that is answered in time.
LEMMA OutcomeInTime ==
  ASSUME now \in Nat, NEW from \in Nat, NEW k, InCall(k, from), k.at = "sent", NEW item,
         NEW d \in Outcomes(k.n, item)
  PROVE  d.at \in {"ok", "missing", "failed", "delay"} /\ (d.at = "delay" => InCall(d, from))
<1>1. k.n \in {1, 2, 3}
  BY DEF InCall
<1>2. CASE d.at = "delay"
  <2>1. k.n \in {1, 2} /\ d = Call("delay", k.n, now + k.n * Delay, item)
    BY <1>1, <1>2 DEF Outcomes, Call, Tried, MaxAttempts
  <2>. QED BY <2>1, Times DEF InCall, Call, SentBound, DelayBound
<1>3. CASE d.at # "delay"
  BY <1>1, <1>3 DEF Outcomes, Call
<1>. QED BY <1>2, <1>3

LEMMA EndOfCall ==
  ASSUME NEW from \in Nat, now \in Nat, NEW k, InCall(k, from) PROVE k.due <= from + CallTime
  BY Times DEF InCall, SentBound, DelayBound

LEMMA OpenInTime == ASSUME TimeInv, OpenSearch \/ OpenTitle PROVE TimeInv'
<1>. USE DEF TimeInv, Clock, OnTime
<1>1. PICK item \in {"posts", "post"} : calls' = [calls EXCEPT ![0] = Send(1, item)]
  BY DEF OpenSearch, OpenTitle
<1>2. /\ page.pc = "idle" /\ page'.pc = "ask" /\ page'.for \in {"search", "title"}
      /\ page' = [for |-> page'.for, pc |-> page'.pc, answer |-> page'.answer]
      /\ now' = now /\ deadline' = deadline
  BY DEF OpenSearch, OpenTitle, pool
<1>3. calls'[0] = Send(1, item) /\ \A w \in Workers : calls'[w] = calls[w]
  BY <1>1, Times
<1>4. InCall(Send(1, item), 0)
  BY <1>2, SentInTime
<1>5. InCall(calls[0], 0)'
  BY <1>2, <1>3, <1>4 DEF InCall
<1>. QED BY <1>1, <1>2, <1>3, <1>5 DEF Stopped

\* The handler's own call is answered with d, which is no success.
LEMMA MissedInTime ==
  ASSUME TimeInv, page.pc = "ask", UNCHANGED <<now, deadline>>,
         NEW item, NEW d \in Outcomes(calls[0].n, item), calls[0].at = "sent", d.at # "ok",
         IF d.at = "delay" THEN UNCHANGED page ELSE Rethrow(d.at),
         calls' = [calls EXCEPT ![0] = d]
  PROVE  TimeInv'
<1>. USE DEF TimeInv, Clock, OnTime
<1>1. d.at \in {"missing", "failed", "delay"} /\ (d.at = "delay" => InCall(d, 0))
  BY OutcomeInTime
<1>2. calls'[0] = d /\ \A w \in Workers : calls'[w] = calls[w]
  BY Times
<1>3. CASE d.at = "delay"
  <2>1. InCall(calls[0], 0)'
    BY <1>1, <1>2, <1>3 DEF InCall
  <2>. QED BY <1>2, <1>3, <2>1 DEF Stopped
<1>4. CASE d.at # "delay"
  <2>1. page'.pc = "over" /\ page' = [for |-> page'.for, pc |-> page'.pc, answer |-> page'.answer]
    BY <1>4 DEF Rethrow, Answer
  <2>2. \A c \in Callers : calls'[c].at \in {"rest", "missing", "failed"}
    BY <1>1, <1>2, <1>4, Times
  <2>. QED BY <2>1, <2>2 DEF Stopped, Waiting
<1>. QED BY <1>3, <1>4

LEMMA SearchInTime == ASSUME TimeInv, SearchAnswered PROVE TimeInv'
<1>. USE DEF TimeInv, Clock, OnTime
<1>1. PICK d \in Outcomes(calls[0].n, "posts") :
         /\ GetJson(0, d)
         /\ IF d.at = "ok"
            THEN /\ page' = [page EXCEPT !.pc = "pool"]
                 /\ \E ids : Begin(ids, now + EnrichTime)
            ELSE /\ IF d.at = "delay" THEN UNCHANGED page ELSE Rethrow(d.at)
                 /\ calls' = [calls EXCEPT ![0] = d]
                 /\ UNCHANGED <<pool, history>>
  BY DEF SearchAnswered
<1>2. page.for = "search" /\ page.pc = "ask" /\ now' = now
  BY DEF SearchAnswered
<1>3. CASE d.at = "ok"
  <2>1. PICK ids : Begin(ids, now + EnrichTime)
    BY <1>1, <1>3
  <2>2. /\ deadline' = now + EnrichTime
        /\ calls' = [c \in Callers |-> IF c \in 1..Len(ids) THEN Enrich(ids[c]) ELSE Rest]
    BY <1>2, <2>1 DEF Begin, FirstCall
  <2>3. page'.pc = "pool" /\ page'.for = "search"
        /\ page' = [for |-> page'.for, pc |-> page'.pc, answer |-> page'.answer]
    BY <1>1, <1>2, <1>3
  <2>4. \A item : InCall(Enrich(item), deadline')
    <3>1. now \in Nat /\ deadline' \in Nat /\ now <= deadline'
      BY <2>2, Times
    <3>. QED BY <3>1, SentInTime DEF Enrich
  <2>5. \A w \in Workers : calls'[w].at = "rest" \/ InCall(calls[w], deadline)'
    BY <1>2, <2>2, <2>4, Times DEF InCall, Rest, Call
  <2>6. calls'[0].at = "rest"
    BY <2>2, Times DEF Rest, Call
  <2>7. Clock'
    BY <1>2, <2>2, <2>3, Times
  <2>8. now' <= deadline' /\ deadline' <= now' + EnrichTime
    BY <1>2, <2>2, Times
  <2>9. OnTime'
    BY <1>2, <2>3, <2>5, <2>6, <2>7, <2>8, Times
  <2>. QED BY <2>3, <2>7, <2>9 DEF Stopped
<1>4. CASE d.at # "ok"
  <2>. HIDE DEF TimeInv, Clock, OnTime
  <2>. QED BY <1>1, <1>2, <1>4, MissedInTime DEF GetJson, pool
<1>. QED BY <1>3, <1>4

LEMMA TitleInTime == ASSUME TimeInv, TitleAnswered PROVE TimeInv'
<1>. USE DEF TimeInv, Clock, OnTime
<1>1. PICK d \in Outcomes(calls[0].n, "post") :
         /\ GetJson(0, d)
         /\ IF d.at = "ok"
            THEN /\ page' = [page EXCEPT !.pc = "pool"]
                 /\ \E items : Begin(items, now + ProbeTime)
            ELSE /\ IF d.at = "delay" THEN UNCHANGED page ELSE Rethrow(d.at)
                 /\ calls' = [calls EXCEPT ![0] = d]
                 /\ UNCHANGED <<pool, history>>
  BY DEF TitleAnswered
<1>2. page.for = "title" /\ page.pc = "ask" /\ now' = now
  BY DEF TitleAnswered
<1>3. CASE d.at = "ok"
  <2>1. PICK items : Begin(items, now + ProbeTime)
    BY <1>1, <1>3
  <2>2. /\ deadline' = now + ProbeTime
        /\ calls' = [c \in Callers |-> IF c \in 1..Len(items) THEN Head1(items[c], ProbeTime) ELSE Rest]
    BY <1>2, <2>1 DEF Begin, FirstCall
  <2>3. page'.pc = "pool" /\ page'.for = "title"
        /\ page' = [for |-> page'.for, pc |-> page'.pc, answer |-> page'.answer]
    BY <1>1, <1>2, <1>3
  <2>4. \A item : /\ Head1(item, ProbeTime).at = "head" /\ Head1(item, ProbeTime).n = ProbeTail
                  /\ Head1(item, ProbeTime).due = now + HeadLasts(ProbeTail)
    BY DEF Head1, Call, Allowed, ProbeTail
  <2>5. \A w \in Workers : calls'[w].at = "rest" \/ InProbe(calls[w])'
    <3>1. ProbeTail \in Nat /\ ProbeTail <= ProbeTime /\ HeadLasts(ProbeTail) \in Nat
      BY Times, Lasts
    <3>2. \A w \in Workers : calls'[w] = Rest \/ \E item : calls'[w] = Head1(item, ProbeTime)
      BY <2>2, Times
    <3>. QED BY <1>2, <2>2, <2>4, <3>1, <3>2, Times DEF InProbe, Rest, Call
  <2>6. calls'[0].at = "rest"
    BY <2>2, Times DEF Rest, Call
  <2>7. Clock'
    BY <1>2, <2>2, <2>3, Times
  <2>8. now' <= deadline' + ProbeOver /\ deadline' <= now' + ProbeTime
    BY <1>2, <2>2, Times, ProbeEnds
  <2>9. OnTime'
    BY <1>2, <2>3, <2>5, <2>6, <2>7, <2>8, Times
  <2>. QED BY <2>3, <2>7, <2>9 DEF Stopped
<1>4. CASE d.at # "ok"
  <2>. HIDE DEF TimeInv, Clock, OnTime
  <2>. QED BY <1>1, <1>2, <1>4, MissedInTime DEF GetJson, pool
<1>. QED BY <1>3, <1>4

\* A step of one caller while the pool goes on.
LEMMA WorkerInTime ==
  ASSUME TimeInv, UNCHANGED <<now, page, deadline>>, NEW w \in Workers,
         page.pc = "pool",
         calls' = [calls EXCEPT ![w] = calls'[w]],
         \/ calls'[w].at = "rest"
         \/ page.for = "search" /\ InCall(calls[w], deadline)'
         \/ page.for = "title" /\ InProbe(calls[w])'
  PROVE  TimeInv'
<1>. USE DEF TimeInv, Clock, OnTime
<1>1. \A c \in Callers \ {w} : calls'[c] = calls[c]
  OBVIOUS
<1>2. calls'[0] = calls[0] /\ calls' = [c \in Callers |-> calls'[c]]
  BY <1>1, Times
<1>3. ASSUME page.for = "search", NEW v \in Workers
      PROVE  calls'[v].at = "rest" \/ InCall(calls[v], deadline)'
  BY <1>1, <1>3, Times DEF InCall
<1>4. ASSUME page.for = "title", NEW v \in Workers
      PROVE  calls'[v].at = "rest" \/ InProbe(calls[v])'
  BY <1>1, <1>4, Times DEF InProbe
<1>. QED BY <1>2, <1>3, <1>4 DEF Stopped

LEMMA AgainInTime == ASSUME TimeInv, NEW c \in Callers, SendAgain(c) PROVE TimeInv'
<1>. USE DEF TimeInv, Clock, OnTime
<1>1. /\ calls[c].at = "delay" /\ now >= calls[c].due /\ UNCHANGED <<now, page, deadline>>
      /\ calls' = [calls EXCEPT ![c] = Send(calls[c].n + 1, calls[c].item)]
  BY DEF SendAgain, pool
<1>2. calls'[c] = Send(calls[c].n + 1, calls[c].item) /\ \A o \in Callers \ {c} : calls'[o] = calls[o]
  BY <1>1
<1>3. page.pc \notin {"find", "over"}
  BY <1>1 DEF Stopped, Waiting
<1>4. CASE page.pc = "idle"
  BY <1>1, <1>2, <1>4, Times DEF Stopped
<1>5. CASE page.pc = "ask"
  <2>1. c = 0
    BY <1>1, <1>5, Times
  <2>2. InCall(Send(calls[c].n + 1, calls[c].item), 0)
    BY <1>1, <1>5, <2>1, SentInTime
  <2>3. InCall(calls[0], 0)'
    BY <1>1, <1>2, <2>1, <2>2 DEF InCall
  <2>. QED BY <1>1, <1>2, <1>5, <2>1, <2>3, Times DEF Stopped
<1>6. CASE page.pc = "pool"
  <2>1. c \in Workers /\ page.for = "search" /\ InCall(calls[c], deadline)
    BY <1>1, <1>6, Times DEF InProbe
  <2>2. InCall(Send(calls[c].n + 1, calls[c].item), deadline)
    BY <1>1, <2>1, SentInTime
  <2>3. InCall(calls[c], deadline)'
    BY <1>1, <1>2, <2>2 DEF InCall
  <2>4. calls' = [calls EXCEPT ![c] = calls'[c]]
    BY <1>1, <1>2
  <2>. HIDE DEF TimeInv, Clock, OnTime
  <2>. QED BY <1>1, <1>6, <2>1, <2>3, <2>4, WorkerInTime
<1>. QED BY <1>3, <1>4, <1>5, <1>6

LEMMA EnrichInTime == ASSUME TimeInv, NEW w \in Workers, EnrichAnswered(w) PROVE TimeInv'
<1>. USE DEF TimeInv, Clock, OnTime
<1>1. PICK d \in Outcomes(calls[w].n, calls[w].item) :
         /\ calls[w].at = "sent"
         /\ IF d.at # "delay" /\ queue # <<>> /\ Starts
            THEN calls' = [calls EXCEPT ![w] = Enrich(Head(queue))]
            ELSE calls' = [calls EXCEPT ![w] = IF d.at = "delay" THEN d ELSE Rest]
  BY DEF EnrichAnswered, GetJson
<1>2. page.for = "search" /\ page.pc = "pool" /\ UNCHANGED <<now, page, deadline>>
  BY DEF EnrichAnswered
<1>3. InCall(calls[w], deadline)
  BY <1>1, <1>2
<1>4. d.at = "delay" => InCall(d, deadline)
  BY <1>1, <1>3, OutcomeInTime
<1>5. Starts => InCall(Enrich(Head(queue)), deadline)
  BY SentInTime DEF Starts, Enrich
<1>6. \/ calls'[w] = Enrich(Head(queue)) /\ Starts
      \/ calls'[w] = d /\ d.at = "delay"
      \/ calls'[w] = Rest
  BY <1>1, Times
<1>7. calls'[w].at = "rest" \/ InCall(calls[w], deadline)'
  BY <1>2, <1>4, <1>5, <1>6 DEF InCall, Rest, Call
<1>8. calls' = [calls EXCEPT ![w] = calls'[w]]
  BY <1>1, <1>6, Times
<1>. HIDE DEF TimeInv, Clock, OnTime
<1>. QED BY <1>2, <1>7, <1>8, WorkerInTime

\* A worker that probes does so for a title's page.
LEMMA ProbesForTitle ==
  ASSUME TimeInv, NEW w \in Workers, calls[w].at \in {"head", "range"}
  PROVE  page.pc = "pool" /\ page.for = "title" /\ InProbe(calls[w])
  BY Times DEF TimeInv, Clock, OnTime, Stopped, Waiting, InCall

LEMMA RefusedInTime == ASSUME TimeInv, NEW w \in Workers, HeadRefused(w) PROVE TimeInv'
<1>1. /\ calls[w].at = "head" /\ UNCHANGED <<now, page, deadline>>
      /\ calls' = [calls EXCEPT ![w] = Call("range", calls[w].n, now + GetLasts(calls[w].n), calls[w].item)]
  BY DEF HeadRefused, pool
<1>2. page.pc = "pool" /\ page.for = "title" /\ InProbe(calls[w])
  BY <1>1, ProbesForTitle
<1>3. calls'[w] = Call("range", calls[w].n, now + GetLasts(calls[w].n), calls[w].item)
  BY <1>1, Times DEF TimeInv, Clock
<1>4. InProbe(calls[w])'
  <2>1. calls[w].n \in 0..ProbeTail /\ calls[w].due <= deadline + HeadLasts(calls[w].n) - calls[w].n
    BY <1>1, <1>2 DEF InProbe
  <2>2. HeadLasts(calls[w].n) \in Nat /\ GetLasts(calls[w].n) \in Nat
    BY <2>1, ProbeEnds
  <2>3. now \in Nat /\ deadline \in Nat /\ now <= calls[w].due /\ calls[w].due \in Nat
    BY <1>2 DEF InProbe, TimeInv, Clock
  <2>. QED BY <1>1, <1>3, <2>1, <2>2, <2>3, Times DEF InProbe, Call
<1>5. calls' = [calls EXCEPT ![w] = calls'[w]]
  BY <1>1, <1>3
<1>. QED BY <1>1, <1>2, <1>4, <1>5, WorkerInTime

LEMMA ProbedInTime == ASSUME TimeInv, NEW w \in Workers, Probed(w) PROVE TimeInv'
<1>1. calls[w].at \in {"head", "range"} /\ UNCHANGED <<now, page, deadline>>
  BY DEF Probed
<1>2. page.pc = "pool" /\ page.for = "title"
  BY <1>1, ProbesForTitle
<1>3. PICK next : /\ calls' = [calls EXCEPT ![w] = next]
                  /\ next = Rest \/ (now < deadline /\ \E item : next = Head1(item, deadline - now))
  BY DEF Probed
<1>4. calls'[w] = next
  BY <1>3, Times DEF TimeInv, Clock
<1>5. ASSUME NEW item, now < deadline, next = Head1(item, deadline - now) PROVE InProbe(calls[w])'
  <2>1. deadline - now \in Nat /\ deadline - now <= ProbeTime /\ now \in Nat /\ deadline \in Nat
    BY <1>2, <1>5, Times DEF TimeInv, Clock, OnTime
  <2>2. Allowed(deadline - now) \in 0..ProbeTail /\ Allowed(deadline - now) <= deadline - now
    BY <2>1, Times DEF Allowed, Least, ProbeTail
  <2>3. /\ next.at = "head" /\ next.n = Allowed(deadline - now)
        /\ next.due = now + HeadLasts(Allowed(deadline - now))
    BY <1>5 DEF Head1, Call
  <2>4. HeadLasts(Allowed(deadline - now)) \in Nat
    BY <2>2, ProbeEnds
  <2>. HIDE DEF TimeInv
  <2>. QED BY <2>4, <1>1, <1>4, <2>1, <2>2, <2>3, Times DEF InProbe
<1>6. calls'[w].at = "rest" \/ InProbe(calls[w])'
  BY <1>3, <1>4, <1>5 DEF Rest, Call
<1>7. calls' = [calls EXCEPT ![w] = calls'[w]]
  BY <1>3, <1>4
<1>. QED BY <1>1, <1>2, <1>6, <1>7, WorkerInTime

LEMMA OverInTime == ASSUME TimeInv, PoolOver \/ FoundActive PROVE TimeInv'
<1>. USE DEF TimeInv, Clock, OnTime
<1>1. page'.pc \in {"find", "over"} /\ UNCHANGED <<now, calls, deadline>>
      /\ page' = [for |-> page'.for, pc |-> page'.pc, answer |-> page'.answer]
  BY DEF PoolOver, FoundActive, Answer, pool
<1>2. \A c \in Callers : ~Waiting(c)
  BY Times DEF PoolOver, FoundActive, Stopped, Waiting
<1>. QED BY <1>1, <1>2 DEF Stopped, Waiting

LEMMA TickInTime == ASSUME TimeInv, TimePasses PROVE TimeInv'
<1>. USE DEF TimeInv, Clock, OnTime
<1>1. /\ now' = now + 1 /\ UNCHANGED <<page, calls, deadline>> /\ page.pc \in {"ask", "pool"}
      /\ \A c \in Callers : Waiting(c) => now < calls[c].due
  BY DEF TimePasses, pool
<1>2. CASE page.pc = "ask"
  <2>1. InCall(calls[0], 0)'
    BY <1>1, <1>2, Times DEF InCall, Waiting
  <2>. QED BY <1>1, <1>2, <2>1 DEF Stopped
<1>3. CASE page.pc = "pool"
  <2>1. PICK c \in Workers : Waiting(c)
    BY <1>3, Times DEF TimePasses, Waiting
  <2>2. ASSUME NEW w \in Workers, Waiting(w) PROVE now + 1 <= calls[w].due
    <3>1. calls[w].due \in Nat
      BY <1>3, <2>2 DEF InCall, InProbe, Waiting
    <3>. QED BY <1>1, <2>2, <3>1, Times
  <2>3. Clock' /\ calls'[0].at = "rest"
    BY <1>1, <1>3
  <2>4. CASE page.for = "search"
    <3>1. InCall(calls[c], deadline)
      BY <1>3, <2>1, <2>4 DEF Waiting
    <3>2. now + 1 <= deadline + CallTime
      <4>1. calls[c].due <= deadline + CallTime
        BY <3>1, EndOfCall
      <4>2. now + 1 <= calls[c].due /\ now \in Nat /\ deadline \in Nat /\ calls[c].due \in Nat
        BY <2>1, <2>2, <3>1 DEF InCall
      <4>3. CallTime \in Nat
        BY Times
      <4>. HIDE DEF TimeInv, Clock, OnTime
      <4>. QED BY <4>1, <4>2, <4>3
    <3>3. ASSUME NEW w \in Workers PROVE calls'[w].at = "rest" \/ InCall(calls[w], deadline)'
      <4>1. calls[w].at = "rest" \/ (InCall(calls[w], deadline) /\ now + 1 <= calls[w].due)
        BY <1>3, <2>2, <2>4 DEF InCall, Waiting
      <4>. QED BY <1>1, <4>1 DEF InCall
    <3>. QED BY <1>1, <1>3, <2>3, <2>4, <3>2, <3>3 DEF Stopped
  <2>5. CASE page.for = "title"
    <3>1. InProbe(calls[c])
      BY <1>3, <2>1, <2>5 DEF Waiting
    <3>2. now + 1 <= deadline + ProbeOver
      <4>1. now + 1 <= calls[c].due /\ calls[c].n \in 0..ProbeTail /\ calls[c].due \in Nat
        BY <2>1, <2>2, <3>1 DEF InProbe
      <4>2. calls[c].due <= deadline + ProbeOver
        BY <3>1, ProbeEnds DEF InProbe
      <4>3. now \in Nat /\ deadline \in Nat /\ ProbeOver \in Nat
        BY ProbeEnds
      <4>. HIDE DEF TimeInv, Clock, OnTime
      <4>. QED BY <4>1, <4>2, <4>3
    <3>3. ASSUME NEW w \in Workers PROVE calls'[w].at = "rest" \/ InProbe(calls[w])'
      <4>1. calls[w].at = "rest" \/ (InProbe(calls[w]) /\ now + 1 <= calls[w].due)
        BY <1>3, <2>2, <2>5 DEF InProbe, Waiting
      <4>. QED BY <1>1, <4>1 DEF InProbe
    <3>4. deadline <= now + 1 + ProbeTime
      BY <1>3, <2>5, Times
    <3>5. OnTime'
      BY <1>1, <1>3, <2>3, <2>5, <3>2, <3>3, <3>4
    <3>. QED BY <1>1, <1>3, <2>3, <3>5 DEF Stopped
  <2>. QED BY <1>3, <2>4, <2>5
<1>. QED BY <1>1, <1>2, <1>3

LEMMA TimeInductive == TimeInv /\ [Next]_vars => TimeInv'
<1>1. ASSUME TimeInv, CatalogueNext PROVE TimeInv'
  BY <1>1, OpenInTime, SearchInTime, TitleInTime, OverInTime, TickInTime, AgainInTime, EnrichInTime,
     RefusedInTime, ProbedInTime DEF CatalogueNext
<1>2. ASSUME TimeInv, UNCHANGED catalogueVars PROVE TimeInv'
  BY <1>2 DEF TimeInv, Clock, OnTime, Stopped, InCall, InProbe, Waiting, catalogueVars, pool
<1>. QED BY <1>1, <1>2, CatalogueMoves

\* "A slow upstream just omits them" (routes/library.ts): the catalogue is asked within
\* the time of one call, and what it is asked for besides is over within one call
\* after the deadline of its pool; a title's sizes within ProbeOver, which has every
\* wait of a HEAD and of the ranged GET after it (probe.ts, httpClient.ts).
THEOREM InTime == Spec => []AnswersInTime
<1>1. TimeInv => AnswersInTime
  BY EndOfCall, Times DEF TimeInv, Clock, OnTime, InCall, AnswersInTime
<1>. QED BY TimeFirst, TimeInductive, <1>1, PTL DEF Spec


-----------------------------------------------------------------------------
(* The sizes that are shown.                                               *)

Addresses == UNION {ToSet(plan) : plan \in Plans}
Probing(w) == calls[w].at \in {"head", "range"}

\* An address that is asked again, or by two workers, is known to be.
DoublesKnown ==
    \A w \in Workers : Probing(w) =>
      /\ calls[w].item \in settled => calls[w].item \in doubled
      /\ \A o \in Workers \ {w} : Probing(o) /\ calls[o].item = calls[w].item => calls[w].item \in doubled

\* Before the pool nothing is known; what was seen has a result.
FoundFirst ==
    /\ page.pc \in {"idle", "ask"} => settled = {} /\ seen = {}
    /\ page.pc = "pool" /\ page.for = "title" => queue \in Seq(Addresses)
    /\ seen \subseteq settled

FoundShown == seen \ doubled \subseteq known

FoundInv == TimeInv /\ FoundFirst /\ DoublesKnown /\ FoundShown

\* The natural numbers are well-ordered.
LEMMA LeastNumber ==
  ASSUME NEW T \in SUBSET Nat, T # {}
  PROVE  \E x \in T : \A y \in T : x <= y
<1> DEFINE R == OpToRel(<, Nat)
<1>1. \E x \in T : \A y \in T : ~ (<<y, x>> \in R)
  BY WFMin, NatLessThanWellFounded
<1>2. ASSUME NEW x \in T, NEW y \in T, <<y, x>> \notin R PROVE x <= y
  BY <1>2 DEF OpToRel
<1>. QED BY <1>1, <1>2

\* What a worker takes next from the queue has no result yet.
LEMMA LeftUnanswered ==
  ASSUME NEW q \in Seq(Addresses), NEW results
  PROVE  /\ Unanswered(q, results) \in Seq(Addresses)
         /\ Unanswered(q, results) # <<>> => Head(Unanswered(q, results)) \notin results
<1> DEFINE left == {i \in DOMAIN q : q[i] \notin results}
           k == CHOOSE i \in left : \A j \in left : i <= j
<1>1. CASE left = {}
  BY <1>1 DEF Unanswered
<1>2. CASE left # {}
  <2>1. left \in SUBSET Nat /\ DOMAIN q = 1..Len(q) /\ Len(q) \in Nat
    OBVIOUS
  <2>2. \E i \in left : \A j \in left : i <= j
    BY <1>2, <2>1, LeastNumber
  <2>3. k \in left
    BY <2>2
  <2>4. k \in 1..Len(q) /\ q[k] \notin results
    BY <2>1, <2>3
  <2>5. Unanswered(q, results) = SubSeq(q, k, Len(q))
    BY <1>2 DEF Unanswered
  <2>. HIDE DEF k, left
  <2>6. Head(SubSeq(q, k, Len(q))) = q[k]
    BY <2>1, <2>4, HeadTailOfSubSeq
  <2>7. SubSeq(q, k, Len(q)) \in Seq(Addresses)
    BY <2>1, <2>4, SubSeqProperties, ElementOfSeq
  <2>. QED BY <2>4, <2>5, <2>6, <2>7
<1>. QED BY <1>1, <1>2

LEMMA FoundInitially == Init => FoundInv
<1>. SUFFICES ASSUME CatalogueInit, TimeInv PROVE FoundInv
  BY TimeFirst DEF Init
<1>. QED BY Times DEF CatalogueInit, FoundInv, FoundFirst, DoublesKnown, FoundShown, Probing, Rest, Call

\* Steps that leave the results as they are, and after which no worker probes but
\* what it probed before.
LEMMA FoundQuietly ==
  ASSUME FoundInv, UNCHANGED <<settled, seen, doubled>>, TimeInv', known \subseteq known',
         page'.pc \in {"idle", "ask"} => page.pc \in {"idle", "ask"},
         page'.pc = "pool" /\ page'.for = "title" => queue' \in Seq(Addresses),
         \A w \in Workers : calls'[w].at \in {"head", "range"} => Probing(w) /\ calls'[w].item = calls[w].item
  PROVE  FoundInv'
  BY DEF FoundInv, FoundFirst, DoublesKnown, FoundShown, Probing

\* The pool of a title begins: an address two workers begin with is known to be doubled.
LEMMA FoundBegins ==
  ASSUME FoundInv, TimeInv', page.pc = "ask", NEW items \in Seq(Addresses),
         page'.pc = "pool", UNCHANGED <<settled, known, seen>>,
         queue' = SubSeq(items, Concurrency + 1, Len(items)),
         calls' = [c \in Callers |-> IF c \in 1..Len(items) THEN Head1(items[c], ProbeTime) ELSE Rest],
         doubled' = {u \in ToSet(items) :
                      \E a, b \in 1..Least(Concurrency, Len(items)) : a # b /\ items[a] = u /\ items[b] = u}
  PROVE  FoundInv'
<1>1. settled = {} /\ seen = {}
  BY DEF FoundInv, FoundFirst
<1>2. queue' \in Seq(Addresses)
  <2>1. Concurrency + 1 \in Int /\ Len(items) \in Int /\ \A i \in Concurrency + 1 .. Len(items) : i \in 1..Len(items)
    BY Times
  <2>. QED BY <2>1, SubSeqProperties, ElementOfSeq
<1>3. ASSUME NEW w \in Workers, NEW o \in Workers \ {w}, Probing(w)', Probing(o)', calls'[o].item = calls'[w].item
      PROVE  calls'[w].item \in doubled'
  <2>1. w \in 1..Len(items) /\ o \in 1..Len(items)
    BY <1>3, Times DEF Probing, Rest, Call
  <2>2. calls'[w].item = items[w] /\ calls'[o].item = items[o]
    BY <2>1, Times DEF Head1, Call
  <2>3. w \in 1..Least(Concurrency, Len(items)) /\ o \in 1..Least(Concurrency, Len(items))
    BY <2>1, Times DEF Least, Workers
  <2>4. items[w] \in ToSet(items)
    BY <2>1 DEF ToSet
  <2>5. \E a, b \in 1..Least(Concurrency, Len(items)) : a # b /\ items[a] = items[w] /\ items[b] = items[w]
    <3>1. w # o /\ items[o] = items[w]
      BY <1>3, <2>2
    <3>. QED BY <2>3, <3>1
  <2>6. items[w] \in doubled'
    BY <2>4, <2>5
  <2>. QED BY <2>2, <2>6
<1>. QED BY <1>1, <1>2, <1>3 DEF FoundInv, FoundFirst, DoublesKnown, FoundShown

\* The handler's call is answered.
LEMMA FoundAtSearch == ASSUME FoundInv, TimeInv', SearchAnswered PROVE FoundInv'
<1>1. PICK d \in Outcomes(calls[0].n, "posts") :
         IF d.at = "ok"
         THEN /\ page' = [page EXCEPT !.pc = "pool"]
              /\ \E ids : Begin(ids, now + EnrichTime)
         ELSE /\ IF d.at = "delay" THEN UNCHANGED page ELSE Rethrow(d.at)
              /\ calls' = [calls EXCEPT ![0] = d]
              /\ UNCHANGED <<pool, history>>
  BY DEF SearchAnswered
<1>2. page.for = "search" /\ page.pc = "ask" /\ Clock
  BY DEF SearchAnswered, FoundInv, TimeInv
<1>3. CASE d.at = "ok"
  <2>1. PICK ids : Begin(ids, now + EnrichTime)
    BY <1>1, <1>3
  <2>2. /\ calls' = [c \in Callers |-> IF c \in 1..Len(ids) THEN Enrich(ids[c]) ELSE Rest]
        /\ UNCHANGED <<settled, known, seen>>
    BY <1>2, <2>1 DEF Begin, FirstCall
  <2>3. settled = {} /\ seen = {} /\ page'.pc = "pool" /\ page'.for = "search"
    BY <1>1, <1>2, <1>3 DEF FoundInv, FoundFirst, Clock
  <2>4. \A w \in Workers : ~Probing(w)'
    BY <2>2, Times DEF Probing, Enrich, Send, Rest, Call
  <2>. QED BY <2>2, <2>3, <2>4 DEF FoundInv, FoundFirst, DoublesKnown, FoundShown
<1>4. CASE d.at # "ok"
  <2>1. /\ page'.pc = "over" \/ page' = page
        /\ UNCHANGED <<settled, known, seen, doubled>>
    BY <1>1, <1>2, <1>4 DEF Rethrow, Answer, pool, history, Clock
  <2>2. \A w \in Workers : calls'[w] = calls[w]
    BY <1>1, <1>2, <1>4, Times DEF Clock
  <2>. QED BY <1>2, <2>1, <2>2, FoundQuietly DEF Probing
<1>. QED BY <1>3, <1>4

LEMMA FoundAtTitle == ASSUME FoundInv, TimeInv', TitleAnswered PROVE FoundInv'
<1>1. PICK d \in Outcomes(calls[0].n, "post") :
         IF d.at = "ok"
         THEN /\ page' = [page EXCEPT !.pc = "pool"]
              /\ \E plan \in Plans, probe \in BOOLEAN :
                   Begin(IF probe THEN plan ELSE <<>>, now + ProbeTime)
         ELSE /\ IF d.at = "delay" THEN UNCHANGED page ELSE Rethrow(d.at)
              /\ calls' = [calls EXCEPT ![0] = d]
              /\ UNCHANGED <<pool, history>>
  BY DEF TitleAnswered
<1>2. page.for = "title" /\ page.pc = "ask" /\ Clock
  BY DEF TitleAnswered, FoundInv, TimeInv
<1>3. CASE d.at = "ok"
  <2>1. PICK items \in Seq(Addresses) : Begin(items, now + ProbeTime)
    <3>1. PICK plan \in Plans, probe \in BOOLEAN :
             Begin(IF probe THEN plan ELSE <<>>, now + ProbeTime)
      BY <1>1, <1>3
    <3>2. plan \in Seq(Addresses)
      <4>1. plan \in Seq(ToSet(plan)) /\ ToSet(plan) \subseteq Addresses
        BY PlansAssumption DEF Addresses
      <4>. QED BY <4>1
    <3>3. (IF probe THEN plan ELSE <<>>) \in Seq(Addresses)
      BY <3>2
    <3>. QED BY <3>1, <3>3
  <2>2. /\ calls' = [c \in Callers |-> IF c \in 1..Len(items) THEN Head1(items[c], ProbeTime) ELSE Rest]
        /\ UNCHANGED <<settled, known, seen>>
        /\ queue' = SubSeq(items, Concurrency + 1, Len(items))
        /\ doubled' = {u \in ToSet(items) :
                         \E a, b \in 1..Least(Concurrency, Len(items)) : a # b /\ items[a] = u /\ items[b] = u}
    BY <1>2, <2>1 DEF Begin, FirstCall
  <2>3. page'.pc = "pool"
    BY <1>1, <1>2, <1>3 DEF Clock
  <2>. QED BY <1>2, <2>2, <2>3, FoundBegins
<1>4. CASE d.at # "ok"
  <2>1. /\ page'.pc = "over" \/ page' = page
        /\ UNCHANGED <<settled, known, seen, doubled>>
    BY <1>1, <1>2, <1>4 DEF Rethrow, Answer, pool, history, Clock
  <2>2. \A w \in Workers : calls'[w] = calls[w]
    BY <1>1, <1>2, <1>4, Times DEF Clock
  <2>. QED BY <1>2, <2>1, <2>2, FoundQuietly DEF Probing
<1>. QED BY <1>3, <1>4

LEMMA FoundAtEnrich ==
  ASSUME FoundInv, TimeInv', NEW w \in Workers, EnrichAnswered(w) PROVE FoundInv'
<1>1. /\ page.for = "search" /\ UNCHANGED <<page, settled, seen, doubled>>
      /\ known \subseteq known'
  BY DEF EnrichAnswered, history
<1>2. PICK next : calls' = [calls EXCEPT ![w] = next] /\ next.at \in {"sent", "delay", "rest"}
  <2>1. PICK d \in Outcomes(calls[w].n, calls[w].item) :
           \/ calls' = [calls EXCEPT ![w] = Enrich(Head(queue))]
           \/ d.at = "delay" /\ calls' = [calls EXCEPT ![w] = d]
           \/ calls' = [calls EXCEPT ![w] = Rest]
    BY DEF EnrichAnswered
  <2>2. Enrich(Head(queue)).at = "sent" /\ Rest.at = "rest"
    BY DEF Enrich, Send, Rest, Call
  <2>. QED BY <2>1, <2>2
<1>3. calls'[w] = next /\ \A o \in Workers \ {w} : calls'[o] = calls[o]
  BY <1>2, Times DEF FoundInv, TimeInv, Clock
<1>. QED BY <1>1, <1>2, <1>3, FoundQuietly DEF Probing

LEMMA FoundAtRefusal ==
  ASSUME FoundInv, TimeInv', NEW w \in Workers, HeadRefused(w) PROVE FoundInv'
<1>1. /\ calls[w].at = "head" /\ UNCHANGED <<page, queue, settled, known, seen, doubled>>
      /\ calls' = [calls EXCEPT ![w] = Call("range", calls[w].n, now + GetLasts(calls[w].n), calls[w].item)]
  BY DEF HeadRefused, pool, history
<1>2. calls = [c \in Callers |-> calls[c]] /\ w \in Callers
  BY Times DEF FoundInv, TimeInv, Clock
<1>3. calls'[w].item = calls[w].item /\ \A o \in Workers \ {w} : calls'[o] = calls[o]
  BY <1>1, <1>2 DEF Call
<1>. QED BY <1>1, <1>3, FoundQuietly DEF Probing, FoundInv, FoundFirst

\* A probe is over; its worker takes an address that has no result yet, or rests.
LEMMA FoundAtProbe ==
  ASSUME FoundInv, TimeInv', NEW w \in Workers, Probed(w) PROVE FoundInv'
<1> DEFINE u == calls[w].item
           q == Unanswered(queue, settled \cup {u})
           next == IF now < deadline /\ q # <<>> THEN Head1(Head(q), deadline - now) ELSE Rest
<1>1. PICK found \in BOOLEAN :
         /\ settled' = settled \cup {u}
         /\ known' = IF found THEN known \cup {u} ELSE known \ {u}
         /\ seen' = IF found THEN seen \cup {u} ELSE seen
         /\ queue' = IF now >= deadline THEN queue ELSE IF q = <<>> THEN q ELSE Tail(q)
         /\ calls' = [calls EXCEPT ![w] = next]
         /\ doubled' = doubled \cup {v \in {next.item} : \E o \in Workers \ {w} : Waiting(o) /\ calls[o].item = v}
  BY DEF Probed
<1>2. calls[w].at \in {"head", "range"} /\ UNCHANGED page
  BY DEF Probed
<1>3. page.pc = "pool" /\ page.for = "title" /\ queue \in Seq(Addresses)
  BY <1>2, ProbesForTitle DEF FoundInv, FoundFirst
<1>4. q \in Seq(Addresses) /\ (q # <<>> => Head(q) \notin settled \cup {u})
  BY <1>3, LeftUnanswered
<1>5. calls'[w] = next /\ \A o \in Workers \ {w} : calls'[o] = calls[o]
  BY <1>1, Times DEF FoundInv, TimeInv, Clock
<1>6. next.at \in {"head", "range"} => next.item \notin settled'
  BY <1>1, <1>4 DEF Head1, Rest, Call
<1>. HIDE DEF q, u, next
<1>7. FoundFirst'
  <2>1. queue' \in Seq(Addresses)
    BY <1>1, <1>3, <1>4, HeadTailProperties
  <2>2. seen' \subseteq settled'
    BY <1>1 DEF FoundInv, FoundFirst
  <2>. QED BY <1>2, <1>3, <2>1, <2>2 DEF FoundFirst
<1>8. FoundShown'
  <2>1. u \in seen => u \in doubled
    BY <1>2 DEF FoundInv, FoundFirst, DoublesKnown, Probing, u
  <2>2. doubled \subseteq doubled' /\ seen \ doubled \subseteq known
    BY <1>1 DEF FoundInv, FoundShown
  <2>. QED BY <1>1, <2>1, <2>2 DEF FoundShown
<1>9. DoublesKnown'
  <2>1. doubled \subseteq doubled' /\ settled' = settled \cup {u}
    BY <1>1
  <2>2. ASSUME NEW o \in Workers \ {w}, Probing(o) PROVE calls[o].item \in settled' => calls[o].item \in doubled'
    BY <1>2, <2>1, <2>2 DEF FoundInv, DoublesKnown, Probing, u
  <2>3. ASSUME NEW o \in Workers \ {w}, Probing(o), next.item = calls[o].item PROVE next.item \in doubled'
    BY <1>1, <2>3 DEF Waiting, Probing
  <2>4. ASSUME NEW o \in Workers \ {w}, NEW v \in Workers \ {w}, o # v, Probing(o), Probing(v),
               calls[o].item = calls[v].item
        PROVE  calls[o].item \in doubled'
    BY <2>1, <2>4 DEF FoundInv, DoublesKnown
  <2>. QED BY <1>5, <1>6, <2>2, <2>3, <2>4 DEF DoublesKnown, Probing
<1>. QED BY <1>7, <1>8, <1>9 DEF FoundInv

LEMMA FoundElsewhere ==
  ASSUME FoundInv, TimeInv',
         OpenSearch \/ OpenTitle \/ PoolOver \/ FoundActive \/ TimePasses \/ \E c \in Callers : SendAgain(c)
  PROVE  FoundInv'
<1>. USE DEF FoundInv, TimeInv, Clock
<1>1. UNCHANGED <<queue, settled, known, seen, doubled>>
  BY DEF OpenSearch, OpenTitle, PoolOver, FoundActive, TimePasses, SendAgain, pool, history
<1>2. /\ page'.pc \in {"idle", "ask"} => page.pc \in {"idle", "ask"}
      /\ page'.pc = "pool" => page' = page
  BY DEF OpenSearch, OpenTitle, PoolOver, FoundActive, TimePasses, SendAgain, Answer
<1>3. \A w \in Workers : calls'[w] = calls[w] \/ calls'[w].at = "sent"
  <2>1. CASE OpenSearch \/ OpenTitle
    <3>1. PICK c \in {"posts", "post"} : calls' = [calls EXCEPT ![0] = Send(1, c)]
      BY <2>1 DEF OpenSearch, OpenTitle
    <3>. QED BY <3>1, Times
  <2>2. CASE PoolOver \/ FoundActive \/ TimePasses
    BY <2>2 DEF PoolOver, FoundActive, TimePasses
  <2>3. ASSUME NEW c \in Callers, SendAgain(c) PROVE \A w \in Workers : calls'[w] = calls[w] \/ calls'[w].at = "sent"
    BY <2>3, Times DEF SendAgain, Send, Call
  <2>. QED BY <2>1, <2>2, <2>3
<1>. HIDE DEF FoundInv, TimeInv, Clock
<1>. QED BY <1>1, <1>2, <1>3, FoundQuietly DEF Probing, FoundInv, FoundFirst

LEMMA FoundInductive == FoundInv /\ [Next]_vars => FoundInv'
<1>1. FoundInv /\ [Next]_vars => TimeInv'
  BY TimeInductive DEF FoundInv
<1>2. ASSUME FoundInv, TimeInv', CatalogueNext PROVE FoundInv'
  BY <1>2, FoundAtSearch, FoundAtTitle, FoundAtEnrich, FoundAtRefusal, FoundAtProbe, FoundElsewhere DEF CatalogueNext
<1>3. ASSUME FoundInv, TimeInv', UNCHANGED catalogueVars PROVE FoundInv'
  BY <1>3 DEF FoundInv, FoundFirst, DoublesKnown, FoundShown, Probing, catalogueVars, pool, history
<1>. QED BY <1>1, <1>2, <1>3, CatalogueMoves

\* A size some probe found is on the page, unless two workers asked one address
\* at the same time (probe.ts: results.set, and the queue that passes over what has
\* a result).
THEOREM FoundIsShown == Spec => []ShownIfFound
<1>1. FoundInv => ShownIfFound
  BY DEF FoundInv, FoundShown, ShownIfFound
<1>. QED BY FoundInitially, FoundInductive, <1>1, PTL DEF Spec
=============================================================================
