----------------------------- MODULE PosterCache -----------------------------
(***************************************************************************)
(* The posters kept on disk (circleftp/imageCache.ts) and the handler that *)
(* serves them (routes/library.ts), for one poster asked for by several    *)
(* requests at once.  Each await is a step.                                *)
(*                                                                         *)
(* The temporary file is named after the process, so all requests share    *)
(* it: a writer keeps the file it opened while another moves that file     *)
(* under its final name.  Posters are named by a UUID, so the image behind *)
(* a name does not change; its type is not the default image/jpeg.         *)
(***************************************************************************)
EXTENDS Naturals

CONSTANTS
    Viewers,
    MaxCrashes,    \* bound: how often the process dies
    MaxFailures    \* bound: how often a write or a rename fails

ASSUME PosterBoundsAssumption == MaxCrashes \in Nat /\ MaxFailures \in Nat

VARIABLES
    temp, image, type,   \* the three files
    lastIn,              \* who truncated the temporary file, and the image, last
    fresh,               \* the image is younger than the time it is kept
    view,                \* what each request is doing, the file it has open, its answer
    crashes, failures,
    shared               \* history: one opened the temporary file another was using

files == <<temp, image, type, lastIn, fresh>>
bounds == <<crashes, failures>>
posterVars == <<files, view, bounds, shared>>

Bytes == {"absent", "half", "whole"}
Nobody == "nobody"
Unseen == [pc |-> "idle", open |-> "none", body |-> "none", type |-> "none"]

PosterInit ==
    /\ temp = "absent" /\ image = "absent" /\ type = "absent"
    /\ lastIn = [temp |-> Nobody, image |-> Nobody]
    /\ fresh = FALSE
    /\ view = [r \in Viewers |-> Unseen]
    /\ crashes = 0 /\ failures = 0 /\ shared = FALSE

At(r, pc) == view[r].pc = pc
Go(r, pc) == view' = [view EXCEPT ![r].pc = pc]
Serve(r, body, ctype) ==
    view' = [view EXCEPT ![r] = [pc |-> "served", open |-> "none", body |-> body, type |-> ctype]]

-----------------------------------------------------------------------------
\* readCache: the age, the image, then its type.
Stat(r) ==
    /\ At(r, "idle")
    /\ Go(r, IF image # "absent" /\ fresh THEN "read" ELSE "fetch")
    /\ UNCHANGED <<files, bounds, shared>>

ReadImage(r) ==
    /\ At(r, "read")
    /\ view' = [view EXCEPT ![r].pc = "readtype", ![r].body = image]
    /\ UNCHANGED <<files, bounds, shared>>

ReadType(r) ==
    /\ At(r, "readtype")
    /\ Serve(r, view[r].body, IF type = "whole" THEN "own" ELSE "default")
    /\ UNCHANGED <<files, bounds, shared>>

\* fetchUpstream: nothing when the host fails, the answer is no image of an
\* allowed type, or it is too large.
Fetch(r) ==
    /\ At(r, "fetch")
    /\ Serve(r, "none", "none") \/ Go(r, "open")
    /\ UNCHANGED <<files, bounds, shared>>

\* Mutant: the image is written in place.
OpenInPlace(r) ==
    /\ image' = "half"
    /\ lastIn' = [lastIn EXCEPT !.image = r]
    /\ view' = [view EXCEPT ![r].pc = "write", ![r].open = "image"]
    /\ UNCHANGED temp

\* writeFile empties the temporary file, whoever else has it open.
OpenTemp(r) ==
    /\ temp' = "half"
    /\ lastIn' = [lastIn EXCEPT !.temp = r]
    /\ view' = [view EXCEPT ![r].pc = "write", ![r].open = "temp"]
    /\ UNCHANGED image

Open(r) ==
    /\ At(r, "open")
    /\ OpenTemp(r)
    /\ shared' = (shared \/ \E o \in Viewers \ {r} : At(o, "write") \/ At(o, "rename"))
    /\ UNCHANGED <<type, fresh, bounds>>

\* What a file holds when r has written all of the image to it: what another
\* truncated since may lack its beginning until that one is done.
Written(bytes, last, r) == IF last = r THEN {"whole"} ELSE {bytes, "whole"}

Write(r) ==
    /\ At(r, "write")
    /\ temp' \in (IF view[r].open = "temp" THEN Written(temp, lastIn.temp, r) ELSE {temp})
    /\ image' \in (IF view[r].open = "image" THEN Written(image, lastIn.image, r) ELSE {image})
    /\ fresh' = (fresh \/ view[r].open = "image")
    /\ view' = [view EXCEPT ![r].pc = "rename", ![r].open = "none"]
    /\ UNCHANGED <<type, lastIn, bounds, shared>>

\* Who has the temporary file open goes on in the image, who had the image open
\* writes to a file that has no name.
Moved(open) == CASE open = "temp" -> "image" [] open = "image" -> "lost" [] OTHER -> open

\* Mutant: nothing is written of the type.
AfterRenameDone(r) == [view[r] EXCEPT !.pc = "served", !.body = "whole", !.type = "own"]

AfterRename(r) == [view[r] EXCEPT !.pc = "type"]

Rename(r) ==
    /\ At(r, "rename") /\ temp # "absent"
    /\ image' = temp /\ temp' = "absent"
    /\ lastIn' = [temp |-> Nobody, image |-> lastIn.temp]
    /\ fresh' = TRUE
    /\ view' = [o \in Viewers |->
         IF o = r THEN AfterRename(r) ELSE [view[o] EXCEPT !.open = Moved(@)]]
    /\ UNCHANGED <<type, bounds, shared>>

\* Another request renamed the file first: a warning, and the image is served.
RenameMissing(r) ==
    /\ At(r, "rename") /\ temp = "absent"
    /\ Serve(r, "whole", "own")
    /\ UNCHANGED <<files, bounds, shared>>

OpenType(r) ==
    /\ At(r, "type")
    /\ type' = "half" /\ Go(r, "typing")
    /\ UNCHANGED <<temp, image, lastIn, fresh, bounds, shared>>

WriteType(r) ==
    /\ At(r, "typing")
    /\ type' = "whole" /\ Serve(r, "whole", "own")
    /\ UNCHANGED <<temp, image, lastIn, fresh, bounds, shared>>

\* writeCache throws: the image is served all the same.
CacheFails(r) ==
    /\ view[r].pc \in {"open", "write", "rename", "type", "typing"}
    /\ failures < MaxFailures /\ failures' = failures + 1
    /\ Serve(r, "whole", "own")
    /\ UNCHANGED <<files, crashes, shared>>

Close(r) ==
    /\ At(r, "served")
    /\ view' = [view EXCEPT ![r] = Unseen]
    /\ UNCHANGED <<files, bounds, shared>>

\* A week passes.
Expire ==
    /\ image # "absent" /\ fresh
    /\ fresh' = FALSE
    /\ UNCHANGED <<temp, image, type, lastIn, view, bounds, shared>>

\* The next process may have the name of this one, and its temporary file.
Die ==
    /\ crashes < MaxCrashes /\ crashes' = crashes + 1
    /\ view' = [r \in Viewers |-> Unseen]
    /\ temp' \in {temp, "absent"}
    /\ lastIn' = [temp |-> Nobody, image |-> Nobody]
    /\ UNCHANGED <<image, type, fresh, failures, shared>>

PosterNext ==
    \/ \E r \in Viewers :
         \/ Stat(r) \/ ReadImage(r) \/ ReadType(r) \/ Fetch(r)
         \/ Open(r) \/ Write(r) \/ Rename(r) \/ RenameMissing(r)
         \/ OpenType(r) \/ WriteType(r) \/ CacheFails(r) \/ Close(r)
    \/ Expire \/ Die

-----------------------------------------------------------------------------
Interrupted == crashes > 0 \/ failures > 0

\* "Write-then-rename so a concurrent reader never sees a half-written file"
\* (imageCache.ts:92) holds of one writer.  Half an image is under the final
\* name only after two requests had the temporary file open together, and stays
\* there only if the process died, or a write failed, before the later one was
\* done with it.
HalfIsPassing ==
    image = "half" => shared /\ (Interrupted \/ \E r \in Viewers : At(r, "write") /\ view[r].open = "image")

\* An image in the cache has its own type beside it, unless a request is on its
\* way to write that or was stopped on it.
TypeFollows ==
    image # "absent" /\ type # "whole" =>
      Interrupted \/ \E r \in Viewers : view[r].pc \in {"type", "typing"}
=============================================================================
