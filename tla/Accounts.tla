------------------------------ MODULE Accounts ------------------------------
(***************************************************************************)
(* Accounts, invites, reset links and sessions (auth/*.ts and the routes   *)
(* auth, account and admin), with the command line (cli/manage.ts) as one  *)
(* more client of the same tables.                                         *)
(*                                                                         *)
(* A handler is a sequence of database calls with anything in between; a   *)
(* $transaction is one step.  Of the open sessions of u, sessions[u] tells *)
(* whether there are some that were opened since the password last changed *)
(* ("new") and some that were open then ("old"); how many is left out, and *)
(* so are names, addresses (each account has its own) and handlers that    *)
(* only read.  A PATCH of an account changes one thing about it.           *)
(***************************************************************************)
CONSTANTS
    Users,      \* rows of User, each used once
    Invites, Links, Requests,
    Nobody

ASSUME NobodyAssumption == Nobody \notin Users \cup Invites

VARIABLES
    role, disabled,        \* the columns of User
    sessions, invite, link,
    req,                   \* the requests at work
    origin                 \* history: the invite a live account came from

accounts == <<role, disabled>>
tables == <<accounts, sessions, invite, link>>
vars == <<tables, req, origin>>

Kinds == {"new", "old"}
Roles == {"USER", "ADMIN"}
Live(u) == role[u] \in Roles
Active(u) == role[u] = "ADMIN" /\ ~disabled[u]

\* Signed(u): a request of u passes requireAuth.
Signed(u) == Live(u) /\ ~disabled[u] /\ sessions[u] # {}
Administers(u) == Signed(u) /\ role[u] = "ADMIN"

\* "stale": another request wrote since this one read (for AdminRemains only).
Free == [pc |-> "idle", act |-> "none", on |-> Nobody, stale |-> FALSE]
Idle(r) == req[r].pc = "idle"
At(r, pc) == req[r].pc = pc
Goto(r, pc) == req' = [req EXCEPT ![r].pc = pc]
End(r) == req' = [req EXCEPT ![r] = Free]

NoInvite == [state |-> "none", role |-> "USER", by |-> Nobody]
NoLink == [state |-> "none", on |-> Nobody]

\* Expired, revoked, or spent for good; whether the row was pruned is the same.
Over == [NoInvite EXCEPT !.state = "over"]
OverLink == [NoLink EXCEPT !.state = "over"]

Init ==
    /\ role = [u \in Users |-> "none"] /\ disabled = [u \in Users |-> FALSE]
    /\ sessions = [u \in Users |-> {}]
    /\ invite = [i \in Invites |-> NoInvite]
    /\ link = [l \in Links |-> NoLink]
    /\ req = [r \in Requests |-> Free]
    /\ origin = [u \in Users |-> Nobody]

-----------------------------------------------------------------------------
(* New accounts and invites.                                               *)

\* requireAdmin.
AdminAsks == \E a \in Users : Administers(a)

\* createUser, for an administrator or the command line (at any time).
AddUser(u, as) ==
    /\ role[u] = "none"
    /\ role' = [role EXCEPT ![u] = as]
    /\ UNCHANGED <<disabled, sessions, invite, link, req, origin>>

\* createInvite, likewise.
CreateInvite(i, as) ==
    /\ invite[i].state = "none"
    /\ invite' = [invite EXCEPT ![i] = [state |-> "open", role |-> as, by |-> Nobody]]
    /\ UNCHANGED <<accounts, sessions, link, req, origin>>

\* Mutant: whether the code was used is not looked at.
UnspentAlways(i) == TRUE

\* usedById is null.
Unspent(i) == invite[i].by = Nobody

\* redeemInvite; a session is issued next.
RedeemInvite(r, i, u) ==
    /\ Idle(r) /\ role[u] = "none"
    /\ invite[i].state = "open" /\ Unspent(i)
    /\ role' = [role EXCEPT ![u] = invite[i].role]
    /\ invite' = [invite EXCEPT ![i].by = u]
    /\ origin' = [origin EXCEPT ![u] = i]
    /\ req' = [req EXCEPT ![r] = [Free EXCEPT !.pc = "issue", !.on = u]]
    /\ UNCHANGED <<disabled, sessions, link>>

\* revokeInvite: the read, then the delete.
RevokeRead(r, i) ==
    /\ Idle(r) /\ AdminAsks
    /\ invite[i].state = "open" /\ invite[i].by = Nobody
    /\ req' = [req EXCEPT ![r] = [Free EXCEPT !.pc = "revoke", !.on = i]]
    /\ UNCHANGED <<tables, origin>>

RevokeDelete(r) ==
    /\ At(r, "revoke")
    /\ invite' = [invite EXCEPT ![req[r].on] = Over]
    /\ End(r)
    /\ UNCHANGED <<accounts, sessions, link, origin>>

-----------------------------------------------------------------------------
(* Sessions and passwords.                                                 *)

\* The password was right and the account enabled when it was read.
Login(r, u) ==
    /\ Idle(r) /\ Live(u) /\ ~disabled[u]
    /\ req' = [req EXCEPT ![r] = [Free EXCEPT !.pc = "issue", !.on = u]]
    /\ UNCHANGED <<tables, origin>>

\* Mutant: foreign keys are off, the default of SQLite.
MayIssueAny(u) == TRUE

\* The foreign key of a session (configureSqlite turns them on).
MayIssue(u) == Live(u)

\* issueSession.
Issue(r) ==
    /\ At(r, "issue")
    /\ LET u == req[r].on IN
         \/ MayIssue(u) /\ sessions' = [sessions EXCEPT ![u] = @ \cup {"new"}]
         \/ ~MayIssue(u) /\ UNCHANGED sessions
    /\ End(r)
    /\ UNCHANGED <<accounts, invite, link, origin>>

\* What the open sessions become when the password changes.
Aged(kinds) == IF kinds = {} THEN {} ELSE {"old"}

\* Logging out, or a session that expired: perhaps one of several.
Logout(u) ==
    /\ \E k \in sessions[u] : sessions' = [sessions EXCEPT ![u] = @ \ {k}]
    /\ UNCHANGED <<accounts, invite, link, req, origin>>

\* /account/password once the current one was verified, or user:passwd.
ChangePassword(r, u) ==
    /\ Idle(r) /\ Live(u)
    /\ \E act \in {"change", "cli"} :
         /\ act = "change" => Signed(u)
         /\ req' = [req EXCEPT ![r] = [Free EXCEPT !.pc = "set", !.act = act, !.on = u]]
    /\ UNCHANGED <<tables, origin>>

SetPassword(r) ==
    /\ At(r, "set")
    /\ LET u == req[r].on IN
         \/ /\ Live(u)
            /\ sessions' = [sessions EXCEPT ![u] = Aged(@)]
            /\ Goto(r, "evict")
         \/ ~Live(u) /\ UNCHANGED sessions /\ End(r)
    /\ UNCHANGED <<accounts, invite, link, origin>>

\* revoke-others keeps the device it was asked from.
RevokeOthers(r, u) ==
    /\ Idle(r) /\ Signed(u)
    /\ req' = [req EXCEPT ![r] = [Free EXCEPT !.pc = "evict", !.act = "others", !.on = u]]
    /\ UNCHANGED <<tables, origin>>

\* The device that asked gets a session of its own again.
Reissues == {"change", "others"}

\* destroyAllSessions, and the same delete of updateUser and revokeSessions.
Evict(r) ==
    /\ At(r, "evict")
    /\ sessions' = [sessions EXCEPT ![req[r].on] = {}]
    /\ IF req[r].act \in Reissues THEN Goto(r, "issue") ELSE End(r)
    /\ UNCHANGED <<accounts, invite, link, origin>>

-----------------------------------------------------------------------------
(* Reset links.                                                            *)

LinkRead(r, u) ==
    /\ Idle(r) /\ AdminAsks /\ Live(u)
    /\ req' = [req EXCEPT ![r] = [Free EXCEPT !.pc = "link", !.on = u]]
    /\ UNCHANGED <<tables, origin>>

\* Mutant: a second link leaves the first one open.
SupersededNone(u) == link

\* The unused links of u are deleted.
Superseded(u) == [l \in Links |-> IF link[l].on = u THEN OverLink ELSE link[l]]

CreateLink(r, l) ==
    /\ At(r, "link") /\ link[l].state = "none"
    /\ LET u == req[r].on IN
         link' = IF Live(u) THEN [Superseded(u) EXCEPT ![l] = [state |-> "open", on |-> u]] ELSE link
    /\ End(r)
    /\ UNCHANGED <<accounts, sessions, invite, origin>>

\* Mutant: the devices stay signed in.
ResetEvictsNone(u) == [sessions EXCEPT ![u] = Aged(@)]

ResetEvicts(u) == [sessions EXCEPT ![u] = {}]

\* redeemPasswordReset; a session is issued next.
RedeemLink(r, l) ==
    /\ Idle(r) /\ link[l].state = "open"
    /\ LET u == link[l].on IN
         /\ ~disabled[u]
         /\ link' = [link EXCEPT ![l] = OverLink]
         /\ sessions' = ResetEvicts(u)
         /\ req' = [req EXCEPT ![r] = [Free EXCEPT !.pc = "issue", !.on = u]]
    /\ UNCHANGED <<accounts, invite, origin>>

\* The time of an invite or of a link runs out.
Expire ==
    /\ \/ \E i \in Invites : /\ invite[i].state = "open" /\ invite[i].by = Nobody
                             /\ invite' = [invite EXCEPT ![i] = Over] /\ UNCHANGED link
       \/ \E l \in Links : link[l].state = "open" /\ UNCHANGED invite
                           /\ link' = [link EXCEPT ![l] = OverLink]
    /\ UNCHANGED <<accounts, sessions, req, origin>>

-----------------------------------------------------------------------------
(* Administration of accounts: read, check twice, write.                   *)

Demotions == {"demote", "disable", "delete"}
Changes == Demotions \cup {"promote", "enable", "revoke"}

\* No administrator disables or deletes the account they use.
AskChange(r, a, act, u) ==
    /\ Idle(r) /\ Administers(a)
    /\ act \in {"disable", "delete"} => a # u
    /\ req' = [req EXCEPT ![r] = [Free EXCEPT !.pc = "read", !.act = act, !.on = u]]
    /\ UNCHANGED <<tables, origin>>

\* Where the read of the row leads.
AfterRead(act, u) ==
    IF act = "revoke" THEN "evict"
    ELSE IF act \in {"disable", "delete"} \/ (act = "demote" /\ role[u] = "ADMIN") THEN "check"
    ELSE "write"

ReadTarget(r) ==
    /\ At(r, "read")
    /\ LET u == req[r].on IN
         IF Live(u) THEN Goto(r, AfterRead(req[r].act, u)) ELSE End(r)
    /\ UNCHANGED <<tables, origin>>

\* assertNotLastAdmin: the account, then the others.
CheckTarget(r) ==
    /\ At(r, "check")
    /\ Goto(r, IF Active(req[r].on) THEN "count" ELSE "write")
    /\ UNCHANGED <<tables, origin>>

\* Mutant: the account itself is counted.
OtherAdminsAll(u) == {a \in Users : Active(a)}

OtherAdmins(u) == {a \in Users \ {u} : Active(a)}

CountOthers(r) ==
    /\ At(r, "count")
    /\ IF OtherAdmins(req[r].on) # {} THEN Goto(r, "write") ELSE End(r)
    /\ UNCHANGED <<tables, origin>>

\* A request that has read something and will write on the strength of it.
Deciding(r) == req[r].pc \in {"check", "count", "write"}

\* r becomes rec; what the requests that are deciding have read is stale.
After(r, rec) ==
    req' = [q \in Requests |-> IF q = r THEN rec
                               ELSE IF Deciding(q) THEN [req[q] EXCEPT !.stale = TRUE] ELSE req[q]]

WriteChange(r) ==
    /\ At(r, "write") /\ req[r].act # "delete"
    /\ LET u == req[r].on act == req[r].act IN
         \/ /\ Live(u)
            /\ role' = IF act = "demote" THEN [role EXCEPT ![u] = "USER"]
                       ELSE IF act = "promote" THEN [role EXCEPT ![u] = "ADMIN"] ELSE role
            /\ disabled' = IF act \in {"disable", "enable"}
                           THEN [disabled EXCEPT ![u] = (act = "disable")] ELSE disabled
            /\ After(r, IF act = "disable" THEN [Free EXCEPT !.pc = "evict", !.on = u] ELSE Free)
         \/ ~Live(u) /\ UNCHANGED <<role, disabled>> /\ End(r)
    /\ UNCHANGED <<sessions, invite, link, origin>>

\* Sessions and links go with the account; an invite forgets who used it.
DeleteUser(r) ==
    /\ At(r, "write") /\ req[r].act = "delete"
    /\ LET u == req[r].on IN
         \/ /\ Live(u)
            /\ role' = [role EXCEPT ![u] = "gone"]
            /\ disabled' = [disabled EXCEPT ![u] = FALSE]
            /\ sessions' = [sessions EXCEPT ![u] = {}]
            /\ invite' = [i \in Invites |-> IF invite[i].by = u THEN [invite[i] EXCEPT !.by = Nobody]
                                            ELSE invite[i]]
            /\ link' = Superseded(u)
            /\ origin' = [origin EXCEPT ![u] = Nobody]
            /\ After(r, Free)
         \/ ~Live(u) /\ UNCHANGED <<tables, origin>> /\ End(r)

-----------------------------------------------------------------------------
Invitation(r) == \/ \E i \in Invites : RevokeRead(r, i) \/ \E u \in Users : RedeemInvite(r, i, u)
                 \/ RevokeDelete(r)
Session(r) == (\E u \in Users : Login(r, u) \/ ChangePassword(r, u) \/ RevokeOthers(r, u))
              \/ Issue(r) \/ SetPassword(r) \/ Evict(r)
Reset(r) == (\E u \in Users : LinkRead(r, u)) \/ \E l \in Links : CreateLink(r, l) \/ RedeemLink(r, l)
Administration(r) ==
    \/ \E a, u \in Users, act \in Changes : AskChange(r, a, act, u)
    \/ ReadTarget(r) \/ CheckTarget(r) \/ CountOthers(r) \/ WriteChange(r) \/ DeleteUser(r)

Next ==
    \/ \E as \in Roles : (\E u \in Users : AddUser(u, as)) \/ \E i \in Invites : CreateInvite(i, as)
    \/ \E r \in Requests : Invitation(r) \/ Session(r) \/ Reset(r) \/ Administration(r)
    \/ (\E u \in Users : Logout(u)) \/ Expire

Spec == Init /\ [][Next]_vars

-----------------------------------------------------------------------------
Pc == {"idle", "issue", "revoke", "set", "evict", "link", "read", "check", "count", "write"}

\* Types, and that a row of a session or of an open link is that of an account.
TypeOK ==
    /\ role \in [Users -> Roles \cup {"none", "gone"}] /\ disabled \in [Users -> BOOLEAN]
    /\ sessions \in [Users -> SUBSET Kinds]
    /\ invite \in [Invites -> [state : {"none", "open", "over"}, role : Roles,
                               by : Users \cup {Nobody}]]
    /\ link \in [Links -> [state : {"none", "open", "over"},
                           on : Users \cup {Nobody}]]
    /\ req \in [Requests -> [pc : Pc, act : Changes \cup Reissues \cup {"none", "cli"},
                             on : Users \cup Invites \cup {Nobody}, stale : BOOLEAN]]
    /\ origin \in [Users -> Invites \cup {Nobody}]
    /\ \A u \in Users : ~Live(u) => sessions[u] = {}
    /\ \A l \in Links : link[l].state = "open" => link[l].on \in Users /\ Live(link[l].on)

\* One code makes one account: no two accounts that exist came from one invite
\* (redeemInvite claims the code in the transaction that makes the account).
OneAccountPerInvite ==
    \A u, v \in Users : Live(u) /\ Live(v) /\ origin[u] # Nobody /\ origin[u] = origin[v] => u = v

\* "An admin clicking twice does not leave two working links".
OneOpenLink ==
    \A k, l \in Links :
        link[k].state = "open" /\ link[l].state = "open" /\ link[k].on = link[l].on => k = l

\* "A changed password actually evicts whoever else was signed in": sessions that
\* were open when it changed are about to be deleted, or are.
SessionsFollowPassword ==
    \A u \in Users : "old" \in sessions[u] => \E r \in Requests : At(r, "evict") /\ req[r].on = u

\* The rules "stop an admin locking everyone out": a change decided on what is
\* still true leaves an active administrator.
AdminRemains ==
    [][(\E a \in Users : Active(a)) => \/ (\E a \in Users : Active(a))'
                                      \/ \E r \in Requests : At(r, "write") /\ req[r].stale]_vars
=============================================================================
