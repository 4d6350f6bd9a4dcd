-------------------------------- MODULE Site --------------------------------
(***************************************************************************)
(* The site as its pages see it: the catalogue's pages, the posters on     *)
(* them, the page of a title, the jobs made from it and their cards, the   *)
(* session of the browser, and the pages of an administrator.  These parts *)
(* share no variable, so a step of one commutes with the steps of the      *)
(* others, and behaviours in which one part moves show what any shows.     *)
(***************************************************************************)
EXTENDS Catalogue, PosterCache, TitlePage, TitleJobs, WebSession, AdminPages

VARIABLE part    \* the part that moves

vars == <<part, catalogueVars, posterVars, titleVars, jobsVars, sessionVars, adminVars>>

\* Where a part stays that does not move.
TitleUnseen == post = CHOOSE p \in Posts : TRUE
SignedOut == jar = 0 /\ screen.route = "login"
NobodyElse == tab = "invites" /\ db.users = [u \in Accounts |-> IF u = Me THEN Enabled("ADMIN") ELSE Absent]
                              /\ db.invites = [i \in Codes |-> "none"]

Init ==
    /\ part \in {"catalogue", "poster", "title", "jobs", "session", "admin"}
    /\ CatalogueInit /\ PosterInit /\ TitleInit /\ JobsInit /\ SessionInit /\ AdminInit
    /\ part = "title" \/ TitleUnseen
    /\ part = "session" \/ SignedOut
    /\ part = "admin" \/ NobodyElse

Next ==
    /\ UNCHANGED part
    /\ \/ /\ part = "catalogue" /\ CatalogueNext
          /\ UNCHANGED <<posterVars, titleVars, jobsVars, sessionVars, adminVars>>
       \/ /\ part = "poster" /\ PosterNext
          /\ UNCHANGED <<catalogueVars, titleVars, jobsVars, sessionVars, adminVars>>
       \/ /\ part = "title" /\ TitleNext
          /\ UNCHANGED <<catalogueVars, posterVars, jobsVars, sessionVars, adminVars>>
       \/ /\ part = "jobs" /\ JobsNext
          /\ UNCHANGED <<catalogueVars, posterVars, titleVars, sessionVars, adminVars>>
       \/ /\ part = "session" /\ SessionNext
          /\ UNCHANGED <<catalogueVars, posterVars, titleVars, jobsVars, adminVars>>
       \/ /\ part = "admin" /\ AdminNext
          /\ UNCHANGED <<catalogueVars, posterVars, titleVars, jobsVars, sessionVars>>

Spec == Init /\ [][Next]_vars

-----------------------------------------------------------------------------
\* Types, and that a job has COMPLETED only files it wants.
TypeOK ==
    /\ now \in Nat /\ deadline \in Nat
    /\ page.for \in {"none", "search", "title"}
    /\ page.pc \in {"idle", "ask", "pool", "find", "over"}
    /\ page.answer \in {"none", "ok", "notfound", "upstream"}
    /\ \A c \in Callers : calls[c].at \in {"rest", "sent", "delay", "head", "range", "missing", "failed"}
    /\ known \subseteq settled \/ page.for = "search"
    /\ {temp, image, type} \subseteq Bytes
    /\ \A r \in Viewers : view[r].open \in {"none", "temp", "image", "lost"}
    /\ post \in Posts /\ active \in BOOLEAN /\ open \in BOOLEAN /\ ticked \in Selections
    /\ DOMAIN details = Selections
    /\ \A j \in Jobs : done[j] \subseteq wants[j] /\ wants[j] \subseteq Paths
    /\ disk \subseteq Paths /\ purged \subseteq Paths
    /\ card \in [Jobs -> {"idle", "cancel", "retry", "delete", "erase"}]
    /\ \A j \in Jobs : landing[j] \cup removing[j] \subseteq wants[j]
    /\ holder \in [Tokens -> People \cup {NoOne}] /\ jar \in Tokens \cup {0}
    /\ screen \in [route : Routes, user : People \cup {NoOne}, loading : BOOLEAN]
    /\ \A c \in Web : wait[c].at \in {"rest", "sent", "evicted", "over"}
    /\ \A u \in Accounts : db.users[u] = Absent \/ db.users[u] \in [role : {"ADMIN", "USER"}, off : BOOLEAN]
    /\ \A i \in Codes : db.invites[i] \in {"none", "pending", "used", "expired", "gone"}
    /\ \A f \in Forms : click[f].at \in {"rest", "sent", "checked", "done", "refused", "barred", "erased", "await"}
=============================================================================
