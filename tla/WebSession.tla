----------------------------- MODULE WebSession -----------------------------
(***************************************************************************)
(* Who the browser thinks is signed in: AuthContext (web/src/auth), the    *)
(* pages that sign in, sign up, reset and sign out, the account page, the  *)
(* cookie the browser keeps, and the handlers of routes/auth.ts and        *)
(* routes/account.ts with the rows of Session.                             *)
(*                                                                         *)
(* A call takes the cookie along when it is sent, is served in one step or *)
(* two, and brings its Set-Cookie when its answer arrives; calls overlap.  *)
(* Left out: what is typed and shown, the list of devices (so "Sign out    *)
(* other devices" may be pressed whatever the list says), and the check of *)
(* a reset link, after which the link may be dead anyway.                  *)
(***************************************************************************)
EXTENDS Naturals, FiniteSets

CONSTANTS
    People, NoOne,
    MaxSessions,   \* bound: sessions ever issued
    MaxLoads,      \* bound: how often the page is loaded again
    MaxCalls,      \* bound: calls under way at once
    MaxBroken      \* bound: how many calls fail

ASSUME SessionAssumption ==
    /\ People # {} /\ NoOne \notin People
    /\ {MaxSessions, MaxLoads, MaxCalls, MaxBroken} \subseteq Nat /\ MaxSessions # 0

VARIABLES
    holder, issued,   \* rows of Session: whose each is; how many there were
    jar,              \* the session of the cookie, 0 for none
    screen,           \* the route; user and loading of AuthContext
    wait,             \* each call: its position, what it took along, its answer
    loads, broken,
    mixed, lost       \* history: see PageTellsSession

rowsOfSession == <<holder, issued>>
sessionVars == <<rowsOfSession, jar, screen, wait, loads, broken, mixed, lost>>

Tokens == 1..MaxSessions
Keep == MaxSessions + 1     \* an answer without Set-Cookie
Routes == {"login", "invite", "reset", "app"}

\* "me" is asked on load, "refresh" by refreshUser; "others" is revoke-others.
Issuing == {"login", "redeem", "reset", "password", "others"}
Changing == Issuing \cup {"logout"}
Web == Changing \cup {"me", "refresh", "profile"}

Unsent == [at |-> "rest", cookie |-> 0, as |-> NoOne, late |-> FALSE,
           says |-> "none", whom |-> NoOne, puts |-> Keep]
SentBy(p) == [Unsent EXCEPT !.at = "sent", !.cookie = jar, !.as = p]
UnderWay == {c \in Web : wait[c].at # "rest"}
HolderOf(s) == IF s \in Tokens THEN holder[s] ELSE NoOne

\* The browser has a session or none; people are interchangeable, so its holder is
\* fixed.
SessionInit ==
    /\ \E p \in {CHOOSE q \in People : TRUE, NoOne} :
         /\ holder = [s \in Tokens |-> IF s = 1 THEN p ELSE NoOne]
         /\ jar = IF p = NoOne THEN 0 ELSE 1
    /\ issued = 1
    /\ \E r \in Routes : screen = [route |-> r, user |-> NoOne, loading |-> TRUE]
    /\ wait = [c \in Web |-> IF c = "me" THEN [Unsent EXCEPT !.at = "sent", !.cookie = jar] ELSE Unsent]
    /\ loads = 0 /\ broken = 0 /\ mixed = FALSE /\ lost = FALSE

-----------------------------------------------------------------------------
(* The pages.                                                              *)

\* Where ProtectedShell, LoginPage and InvitePage send the browser on.
Routed(s) ==
    IF s.route = "app" /\ ~s.loading /\ s.user = NoOne THEN [s EXCEPT !.route = "login"]
    ELSE IF s.user # NoOne /\ (s.route = "invite" \/ (s.route = "login" /\ ~s.loading))
         THEN [s EXCEPT !.route = "app"]
    ELSE s

\* Of two calls under way at once, one changes the session and the other reads
\* or changes it.
Mixes(c) ==
    \E d \in UnderWay \ {c} : "profile" \notin {c, d} /\ (c \in Changing \/ d \in Changing)

MaySend(c) ==
    /\ wait[c].at = "rest" /\ Cardinality(UnderWay) < MaxCalls
    /\ c \in Issuing => issued + Cardinality(UnderWay \cap Issuing) < MaxSessions

SendWeb(c, p) ==
    /\ MaySend(c)
    /\ wait' = [wait EXCEPT ![c] = SentBy(p)]
    /\ mixed' = (mixed \/ Mixes(c))
    /\ UNCHANGED <<rowsOfSession, jar, screen, loads, broken, lost>>

\* The forms: a button waits for its own call.  The one for an invite does not
\* wait for the first /auth/me, and the one for a reset does not ask who is
\* signed in.
SignIn(p) == screen.route = "login" /\ ~screen.loading /\ SendWeb("login", p)
Join(p) == screen.route = "invite" /\ SendWeb("redeem", p)
ResetPassword(p) == screen.route = "reset" /\ SendWeb("reset", p)

InApp == screen.route = "app" /\ ~screen.loading
SignOut == InApp /\ SendWeb("logout", NoOne)
SaveName == InApp /\ wait["refresh"].at = "rest" /\ SendWeb("profile", NoOne)
NewPassword == InApp /\ SendWeb("password", NoOne)
SignOthersOut == InApp /\ SendWeb("others", NoOne)

FollowLink ==
    /\ \E link \in {<<"invite", "login">>, <<"reset", "login">>, <<"login", "invite">>} :
         /\ screen.route = link[1]
         /\ screen' = Routed([screen EXCEPT !.route = link[2]])
    /\ UNCHANGED <<rowsOfSession, jar, wait, loads, broken, mixed, lost>>

\* The page is loaded again, from a link or not; what it asked for goes on.
Load ==
    /\ loads < MaxLoads /\ wait["me"].at = "rest"
    /\ loads' = loads + 1
    /\ \E r \in Routes : screen' = [route |-> r, user |-> NoOne, loading |-> TRUE]
    /\ wait' = [c \in Web |-> IF c = "me" THEN SentBy(NoOne)
                              ELSE IF c \in UnderWay THEN [wait[c] EXCEPT !.late = TRUE] ELSE Unsent]
    /\ mixed' = (UnderWay \cap Changing # {}) /\ lost' = FALSE
    /\ UNCHANGED <<rowsOfSession, jar, broken>>

-----------------------------------------------------------------------------
(* The server.                                                             *)

\* resolveSession.
Who(c) == HolderOf(wait[c].cookie)

Says(c, says, whom, puts) ==
    wait' = [wait EXCEPT ![c] = [Unsent EXCEPT !.at = "over", !.late = wait[c].late,
                                               !.says = says, !.whom = whom, !.puts = puts]]

Refused(c) == Says(c, "refused", NoOne, Keep) /\ UNCHANGED rowsOfSession

\* issueSession.
IssueTo(c, p) ==
    /\ issued' = issued + 1
    /\ holder' = [holder EXCEPT ![issued + 1] = p]
    /\ Says(c, "ok", p, issued + 1)

\* /auth/me and /account/profile.
ServeSigned(c) ==
    IF Who(c) = NoOne THEN Refused(c)
    ELSE Says(c, "ok", Who(c), Keep) /\ UNCHANGED rowsOfSession

\* /auth/login and /auth/redeem.
ServeCredentials(c) == Refused(c) \/ IssueTo(c, wait[c].as)

\* /auth/logout, and its clearCookie.
ServeLogout ==
    /\ holder' = [s \in Tokens |-> IF s = wait["logout"].cookie THEN NoOne ELSE holder[s]]
    /\ Says("logout", "ok", NoOne, 0) /\ UNCHANGED issued

Ended(p) == [s \in Tokens |-> IF holder[s] = p THEN NoOne ELSE holder[s]]

\* /account/reset, /account/password and revoke-others end the account's sessions,
\* then issue one; "others" has nothing that may be wrong.
ServeEviction(c) ==
    LET p == IF c = "reset" THEN wait[c].as ELSE Who(c) IN
      \/ /\ p = NoOne \/ c # "others"
         /\ Refused(c)
      \/ /\ p # NoOne
         /\ holder' = Ended(p)
         /\ wait' = [wait EXCEPT ![c].at = "evicted", ![c].as = p, ![c].cookie = 0]
         /\ UNCHANGED issued

ServeWeb(c) ==
    /\ \/ /\ wait[c].at = "sent"
          /\ \/ c \in {"me", "refresh", "profile"} /\ ServeSigned(c)
             \/ c \in {"login", "redeem"} /\ ServeCredentials(c)
             \/ c = "logout" /\ ServeLogout
             \/ c \in {"reset", "password", "others"} /\ ServeEviction(c)
       \/ wait[c].at = "evicted" /\ IssueTo(c, wait[c].as)
    /\ UNCHANGED <<jar, screen, loads, broken, mixed, lost>>

\* The call never arrives, ends in a 500, or its answer is lost.
Break(c) ==
    /\ broken < MaxBroken /\ broken' = broken + 1
    /\ wait[c].at # "rest" /\ wait[c].says # "failed"
    /\ Says(c, "failed", NoOne, Keep)
    /\ lost' = (lost \/ c \in {"me", "logout"} \/ (c \in Changing /\ wait[c].at # "sent"))
    /\ UNCHANGED <<rowsOfSession, jar, screen, loads, mixed>>

\* An administrator, another device or time ends the sessions of an account.
EndElsewhere ==
    /\ \E p \in People : holder' = Ended(p) /\ holder' # holder
    /\ lost' = TRUE
    /\ UNCHANGED <<issued, jar, screen, wait, loads, broken, mixed>>

-----------------------------------------------------------------------------
(* The answers.                                                            *)

\* Mutant: the page of a reset leaves the user to the next load.
AdoptedNotReset(c, w) ==
    IF w.says = "ok" /\ c \in {"me", "refresh", "login", "redeem"} THEN w.whom
    ELSE IF c \in {"me", "logout"} \/ (c = "refresh" /\ w.says = "refused") THEN NoOne
    ELSE screen.user

\* The user after the answer w to c.  Whatever goes wrong with the first /auth/me
\* or a logout, nobody is signed in; refreshUser looks for a 401.
Adopted(c, w) ==
    IF w.says = "ok" /\ c \in {"me", "refresh", "login", "redeem", "reset"} THEN w.whom
    ELSE IF c \in {"me", "logout"} \/ (c = "refresh" /\ w.says = "refused") THEN NoOne
    ELSE screen.user

\* A page that was left gets no answer; its cookie may still have been kept.
Receive(c) ==
    LET w == wait[c]
        renamed == c = "profile" /\ w.says = "ok" /\ ~w.late
    IN  /\ w.at = "over"
        /\ \/ w.puts # Keep /\ jar' = w.puts
           \/ (w.puts = Keep \/ w.late) /\ UNCHANGED jar
        /\ screen' = IF w.late THEN screen ELSE
               Routed([route |-> IF c = "reset" /\ w.says = "ok" THEN "app" ELSE screen.route,
                       user |-> Adopted(c, w),
                       loading |-> screen.loading /\ c # "me"])
        /\ wait' = [d \in Web |-> IF d = c THEN Unsent
                                  ELSE IF d = "refresh" /\ renamed THEN SentBy(NoOne) ELSE wait[d]]
        /\ mixed' = (mixed \/ (renamed /\ UnderWay \cap Changing # {}))
    /\ UNCHANGED <<rowsOfSession, loads, broken, lost>>

SessionNext ==
    \/ \E p \in People : SignIn(p) \/ Join(p) \/ ResetPassword(p)
    \/ SignOut \/ SaveName \/ NewPassword \/ SignOthersOut
    \/ FollowLink \/ Load \/ EndElsewhere
    \/ \E c \in Web : ServeWeb(c) \/ Break(c) \/ Receive(c)

-----------------------------------------------------------------------------
\* "Am I signed in?" is answered as the server would: with no call under way, the
\* user of the page is the account of the session the cookie names, unless, since
\* the page was loaded, calls that read or change the session overlapped, an
\* answer was lost, or a session ended elsewhere.
PageTellsSession == UnderWay = {} /\ ~mixed /\ ~lost => screen.user = HolderOf(jar)
=============================================================================
