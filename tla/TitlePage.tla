------------------------------ MODULE TitlePage ------------------------------
(***************************************************************************)
(* The page of one title (web/src/pages/Title.tsx): seasons are ticked,    *)
(* the files of the selection are shown, "Add to Jellyfin" is clicked, and *)
(* the server plans the title a second time (downloads/service.ts,         *)
(* createDownload).  Between the two the catalogue may change, other users *)
(* may queue the same title, and the user may go on ticking.               *)
(*                                                                         *)
(* Answers are kept by selection and shown again at once while a newer one *)
(* is on its way (TanStack Query: external).  Left out: sizes, wording.    *)
(***************************************************************************)
EXTENDS TransferPlan

CONSTANTS
    Posts,         \* states of the title in the catalogue
    MaxChanges,    \* bound: how often the catalogue changes
    MaxTicks       \* bound: how often a season is ticked or unticked

VARIABLES
    post, changes,     \* what the catalogue holds, the number of its changes
    active,            \* the title has a job that is QUEUED or RUNNING
    open, ticked,      \* the page is shown; selectedSeasons
    details,           \* the answers the page keeps, by selection
    asking,            \* the request for the current selection
    add,               \* the mutation: its position and what it was started with
    made, ticks        \* the job that came of it

titleVars == <<post, changes, active, open, ticked, details, asking, add, made, ticks>>

Nothing == [at |-> "none"]
Names(p) == IF p.type = "series" THEN {p.seasons[i].name : i \in DOMAIN p.seasons} ELSE {}
Selections == SUBSET UNION {Names(p) : p \in Posts}

\* The plan of a post is a sequence of paths, whatever is selected.
ASSUME PostsAssumption ==
    \A p \in Posts, s \in Selections : IsListing(RawPaths(p, s))

TitleInit ==
    /\ post \in Posts /\ changes = 0
    /\ active = FALSE
    /\ open = FALSE /\ ticked = {}
    /\ details = [s \in Selections |-> Nothing]
    /\ asking = Nothing
    /\ add = Nothing /\ made = Nothing
    /\ ticks = 0

-----------------------------------------------------------------------------
(* Others.                                                                 *)

CatalogueChanges ==
    /\ changes < MaxChanges /\ changes' = changes + 1
    /\ post' \in Posts \ {post}
    /\ UNCHANGED <<active, open, ticked, details, asking, add, made, ticks>>

JobOfOthers ==
    /\ active' = ~active
    /\ UNCHANGED <<post, changes, open, ticked, details, asking, add, made, ticks>>

-----------------------------------------------------------------------------
(* The page.                                                               *)

Ask(s) == asking' = [at |-> "asked", for |-> s]

Visit ==
    /\ ~open
    /\ open' = TRUE /\ ticked' = {} /\ Ask({})
    /\ UNCHANGED <<post, changes, active, details, add, made, ticks>>

\* Left while nothing is being added.
Leave ==
    /\ open /\ add = Nothing
    /\ open' = FALSE /\ asking' = Nothing
    /\ UNCHANGED <<post, changes, active, ticked, details, add, made, ticks>>

Shown == details[ticked]

\* toggleSeason, on a season the shown answer lists.  The request of the former
\* selection is aborted.
Tick(name) ==
    /\ open /\ Shown # Nothing /\ name \in Shown.names
    /\ ticks < MaxTicks /\ ticks' = ticks + 1
    /\ ticked' = (ticked \ {name}) \cup ({name} \ ticked)
    /\ Ask(ticked')
    /\ UNCHANGED <<post, changes, active, open, details, add, made>>

\* The handler of /library/title fetches the post and plans the selection, as the
\* query string has it; after an error nothing is shown of that selection until it
\* is answered ...
DetailPlanned ==
    /\ asking.at = "asked"
    /\ \/ /\ asking' = [at |-> "planned", for |-> asking.for, names |-> Names(post),
                        files |-> Plan(post, Queried(asking.for)), seen |-> changes]
          /\ UNCHANGED details
       \/ /\ asking' = Nothing
          /\ details' = [details EXCEPT ![asking.for] = Nothing]
    /\ UNCHANGED <<post, changes, active, open, ticked, add, made, ticks>>

\* ... then looks for a job under way; the answer is kept.
DetailArrives ==
    /\ asking.at = "planned"
    /\ details' = [details EXCEPT ![asking.for] =
         [at |-> "kept", names |-> asking.names, files |-> asking.files,
          seen |-> asking.seen, queued |-> active]]
    /\ asking' = Nothing
    /\ UNCHANGED <<post, changes, active, open, ticked, add, made, ticks>>

\* Mutant: the seasons are not sent.
SentAll == {}

\* The body of the mutation.
Sent == ticked

Click ==
    /\ open /\ Shown # Nothing
    /\ add = Nothing /\ Shown.files # <<>> /\ ~Shown.queued
    /\ add' = [at |-> "check", wanted |-> Sent, ticked |-> ticked,
               shown |-> Shown.files, seen |-> Shown.seen]
    /\ UNCHANGED <<post, changes, active, open, ticked, details, asking, made, ticks>>

\* createDownload: one unfinished job of a title is enough; the page then goes
\* to the downloads.
CreateChecks ==
    /\ add.at = "check"
    /\ IF active THEN add' = Nothing /\ open' = FALSE /\ asking' = Nothing
       ELSE add' = [add EXCEPT !.at = "plan"] /\ UNCHANGED <<open, asking>>
    /\ UNCHANGED <<post, changes, active, ticked, details, made, ticks>>

\* The post is fetched and planned again; without a file there is no job.
CreatePlans ==
    /\ add.at = "plan"
    /\ \/ add' = Nothing    \* the catalogue fails
       \/ LET files == Plan(post, add.wanted) IN
            add' = IF files = <<>> THEN Nothing
                   ELSE [at |-> "insert", files |-> files, planned |-> changes,
                         ticked |-> add.ticked, shown |-> add.shown, seen |-> add.seen,
                         odd |-> ~Unsuffixed(RawPaths(post, add.wanted))]
    /\ UNCHANGED <<post, changes, active, open, ticked, details, asking, made, ticks>>

CreateInserts ==
    /\ add.at = "insert"
    /\ active' = TRUE
    /\ made' = add
    /\ add' = [at |-> "refresh"]
    /\ UNCHANGED <<post, changes, open, ticked, details, asking, ticks>>

\* onSuccess: refresh(), then the downloads page.
AddOver ==
    /\ add.at = "refresh"
    /\ add' = Nothing /\ open' = FALSE /\ asking' = Nothing
    /\ UNCHANGED <<post, changes, active, ticked, details, made, ticks>>

TitleNext ==
    \/ CatalogueChanges \/ JobOfOthers
    \/ Visit \/ Leave \/ DetailPlanned \/ DetailArrives \/ Click
    \/ \E name \in UNION Selections : Tick(name)
    \/ CreateChecks \/ CreatePlans \/ CreateInserts \/ AddOver

-----------------------------------------------------------------------------
Whole(wanted) == \A w \in wanted : PartsOf[w] = {w}

\* "Shows exactly what will be downloaded and where it will land before anything
\* is queued" (Title.tsx:4): the files of the job are those on the screen when
\* it was asked for, unless the catalogue changed between the two plans or the
\* name of a ticked season has a comma, which the query string takes apart and
\* the body of the creation does not.
ShownIsQueued ==
    made # Nothing /\ made.seen = made.planned /\ Whole(made.ticked) => made.files = made.shown

\* "So nothing silently overwrites anything" (plan.ts:138): no two files of a job
\* have one path, unless the host itself has a name that ends in a number in
\* parentheses.
NothingOverwritten ==
    made # Nothing => Distinct(made.files) \/ made.odd
=============================================================================
