----------------------------- MODULE AdminPages -----------------------------
(***************************************************************************)
(* The two tabs of an administrator's page (web/src/pages/admin), as the   *)
(* administrator Me has them open, the handlers of routes/admin.ts behind  *)
(* them, and what everybody else does to the same rows meanwhile.          *)
(*                                                                         *)
(* Accounts has the steps of a handler; here one is a step, but for the    *)
(* revocation of an invite.  The queries and mutations are those of        *)
(* TanStack Query: invalidateQueries cancels the fetch under way and       *)
(* starts another, or joins the fetch if the list was never loaded, and a  *)
(* mutation is pending until what its onSuccess returns is settled.  The   *)
(* tabs share nothing on the page, so one of them is open throughout.      *)
(***************************************************************************)
EXTENDS Naturals, FiniteSets

CONSTANTS
    Me, Others,    \* accounts
    Codes,         \* of invites
    MaxWrites,     \* bound: how often a row changes
    MaxErrors      \* bound: how many fetches and calls fail

ASSUME AdminAssumption == Me \notin Others /\ {MaxWrites, MaxErrors} \subseteq Nat

VARIABLES
    tab,             \* the list that is shown
    db,              \* the rows, by list
    sheet,           \* each list: what the page has of it, and its fetch
    click,           \* each mutation: its position and what it was started with
    unseen, blind,   \* history: see OwnChangeShown
    writes, errors

adminHistory == <<unseen, blind, writes, errors>>
adminVars == <<tab, db, sheet, click, adminHistory>>

Accounts == {Me} \cup Others
Tables == {"users", "invites"}
Absent == [role |-> "none", off |-> FALSE]
Enabled(role) == [role |-> role, off |-> FALSE]
IsActive(row) == row = Enabled("ADMIN")
Actives(rows) == {u \in DOMAIN rows : IsActive(rows[u])}

\* "change" is update, remove, revoke and issueReset of Users.tsx, one at a time.
Forms == {"change", "addUser", "revoke", "addInvite"}
TableOf(f) == IF f \in {"change", "addUser"} THEN "users" ELSE "invites"
Unclicked == [at |-> "rest", act |-> "none", on |-> Me, stale |-> FALSE]
AtServer(f) == click[f].at \in {"sent", "checked"}

NoRows == [users |-> [u \in Accounts |-> Absent], invites |-> [i \in Codes |-> "none"]]
Fetching(s) == [s EXCEPT !.fetch = "sent", !.error = s.error /\ s.loaded, !.new = FALSE]
Unfetched(l) == [rows |-> NoRows[l], loaded |-> FALSE, error |-> FALSE, fetch |-> "idle",
                 got |-> NoRows[l], new |-> FALSE]

AdminInit ==
    /\ tab \in Tables
    /\ \E present \in SUBSET Others, role \in {"ADMIN", "USER"}, unused \in SUBSET Codes :
         /\ tab = "users" => unused = {}
         /\ db = [users |-> [u \in Accounts |-> IF u = Me THEN Enabled("ADMIN")
                                                ELSE IF u \in present THEN Enabled(role) ELSE Absent],
                  invites |-> [i \in Codes |-> IF i \in unused THEN "pending" ELSE "none"]]
    /\ sheet = [l \in Tables |-> Unfetched(l)]
    /\ click = [f \in Forms |-> Unclicked]
    /\ unseen = {} /\ blind = {} /\ writes = 0 /\ errors = 0

-----------------------------------------------------------------------------
(* The lists.                                                              *)

\* The tab is opened, or opened again.
OpenTab(l) ==
    /\ sheet[l].fetch = "idle"
    /\ sheet' = [sheet EXCEPT ![l] = Fetching(@)]
    /\ UNCHANGED <<db, click, adminHistory>>

Administers == IsActive(db.users[Me])

FetchReads(l) ==
    /\ sheet[l].fetch = "sent" /\ Administers
    /\ sheet' = [sheet EXCEPT ![l].fetch = "read", ![l].got = db[l], ![l].new = TRUE]
    /\ UNCHANGED <<db, click, adminHistory>>

\* A mutation that awaits the fetch of l is settled with it.
Settled(l) ==
    [f \in Forms |-> IF TableOf(f) = l /\ click[f].at = "await" THEN Unclicked ELSE click[f]]

FetchArrives(l) ==
    /\ sheet[l].fetch = "read"
    /\ sheet' = [sheet EXCEPT ![l] = [Unfetched(l) EXCEPT !.rows = sheet[l].got, !.loaded = TRUE]]
    /\ click' = Settled(l)
    /\ unseen' = IF sheet[l].new THEN unseen \ {l} ELSE unseen
    /\ blind' = IF sheet[l].new THEN blind \ {l} ELSE blind
    /\ UNCHANGED <<db, writes, errors>>

\* It was refused, or failed as often as it is tried.
FetchFails(l) ==
    /\ sheet[l].fetch # "idle"
    /\ IF Administers THEN errors < MaxErrors /\ errors' = errors + 1 ELSE UNCHANGED errors
    /\ sheet' = [sheet EXCEPT ![l].fetch = "idle", ![l].error = TRUE,
                              ![l].got = NoRows[l], ![l].new = FALSE]
    /\ click' = Settled(l)
    /\ blind' = blind \cup {l}
    /\ UNCHANGED <<db, unseen, writes>>

-----------------------------------------------------------------------------
(* The buttons.                                                            *)

\* Mutant: disabled administrators are counted too.
IsLastAdminOfAll(rows, u) ==
    IsActive(rows[u]) /\ Cardinality({v \in DOMAIN rows : rows[v].role = "ADMIN"}) <= 1

IsLastAdmin(rows, u) == IsActive(rows[u]) /\ Cardinality(Actives(rows)) <= 1

\* What can be pressed in the row of u.  Sessions are not counted, so "Sign out" is
\* never greyed.
Offered(rows, u) ==
    IF rows[u] = Absent THEN {}
    ELSE {"signout", "link"}
         \cup {act \in {"demote"} : rows[u].role = "ADMIN" /\ ~IsLastAdmin(rows, u)}
         \cup {act \in {"promote"} : rows[u].role = "USER"}
         \cup {act \in {"disable", "delete"} : u # Me /\ ~IsLastAdmin(rows, u) /\ (act = "disable" => ~rows[u].off)}
         \cup {act \in {"enable"} : u # Me /\ rows[u].off}

Press(f, act, on) ==
    /\ TableOf(f) = tab /\ click[f].at = "rest"
    /\ click' = [click EXCEPT ![f] = [at |-> "sent", act |-> act, on |-> on,
                                      stale |-> sheet[TableOf(f)].rows # db[TableOf(f)]]]
    /\ UNCHANGED <<db, sheet, adminHistory>>

\* The users are not shown after an error; the invites are.
ClickUser ==
    /\ sheet["users"].loaded /\ ~sheet["users"].error
    /\ \E u \in Accounts : \E act \in Offered(sheet["users"].rows, u) : Press("change", act, u)

ClickRevoke == \E i \in Codes : sheet["invites"].rows[i] = "pending" /\ Press("revoke", "revoke", i)

\* CreateUserModal.
ClickAddUser == \E u \in Accounts, role \in {"ADMIN", "USER"} : Press("addUser", role, u)

\* CreateInviteModal.
ClickAddInvite == \E i \in Codes : db.invites[i] = "none" /\ Press("addInvite", "none", i)

-----------------------------------------------------------------------------
(* The server.                                                             *)

\* What the actions of administrator a are refused for: the target is gone, is a
\* (of a disable or delete), or is the last active administrator.
Permits(a, act, u) ==
    /\ db.users[u] # Absent
    /\ act \in {"disable", "delete"} => u # a
    /\ act \in {"demote", "disable", "delete"} /\ IsActive(db.users[u]) => Actives(db.users) # {u}

AfterAct(act, row) ==
    CASE act = "demote" -> [row EXCEPT !.role = "USER"]
      [] act = "promote" -> [row EXCEPT !.role = "ADMIN"]
      [] act \in {"disable", "enable"} -> [row EXCEPT !.off = (act = "disable")]
      [] act = "delete" -> Absent
      [] OTHER -> row

\* A row is written: the clicks that were made, or checked, on the list before are
\* stale, and a fetch that has read it does not have this.
Writes(l, on, value, ended) ==
    /\ writes < MaxWrites /\ writes' = writes + 1
    /\ db' = [db EXCEPT ![l][on] = value]
    /\ click' = [f \in Forms |-> IF f \in DOMAIN ended THEN [click[f] EXCEPT !.at = ended[f]]
                                 ELSE IF TableOf(f) = l /\ AtServer(f) THEN [click[f] EXCEPT !.stale = TRUE]
                                 ELSE click[f]]
    /\ UNCHANGED <<blind, errors>>

WritesMine(f, value, at) ==
    /\ Writes(TableOf(f), click[f].on, value, [g \in {f} |-> at])
    /\ sheet' = [sheet EXCEPT ![TableOf(f)].new = FALSE]
    /\ unseen' = unseen \cup {TableOf(f)}

Ends(f, at) ==
    /\ click' = [click EXCEPT ![f].at = at]
    /\ UNCHANGED <<db, sheet, adminHistory>>

\* requireAdmin.
Barred(f) == click[f].at = "sent" /\ ~Administers /\ Ends(f, "barred")

\* updateUser, deleteUser, revokeSessions, createPasswordReset.
ServeChange ==
    LET c == click["change"] IN
      /\ c.at = "sent" /\ Administers
      /\ \/ ~Permits(Me, c.act, c.on) /\ Ends("change", "refused")
         \/ Permits(Me, c.act, c.on) /\ c.act = "link" /\ Ends("change", "done")
         \/ /\ Permits(Me, c.act, c.on) /\ c.act # "link"
            /\ WritesMine("change", AfterAct(c.act, db.users[c.on]), "done")

\* createUser: the address may be taken.
ServeAddUser ==
    /\ click["addUser"].at = "sent" /\ Administers
    /\ LET u == click["addUser"].on IN
         \/ db.users[u] # Absent /\ Ends("addUser", "refused")
         \/ db.users[u] = Absent /\ WritesMine("addUser", Enabled(click["addUser"].act), "done")

\* createInvite.
ServeAddInvite ==
    click["addInvite"].at = "sent" /\ Administers /\ WritesMine("addInvite", "pending", "done")

\* Mutant: a code that was used may be revoked.
RevocableAny(state) == state \in {"pending", "expired", "used"}

Revocable(state) == state \in {"pending", "expired"}

\* revokeInvite: the read, and the delete of a row that may have changed since.
ServeRevoke ==
    LET c == click["revoke"] IN
      \/ /\ c.at = "sent" /\ Administers
         /\ IF Revocable(db.invites[c.on])
            THEN click' = [click EXCEPT !["revoke"].at = "checked", !["revoke"].stale = FALSE]
            ELSE click' = [click EXCEPT !["revoke"].at = "refused"]
         /\ UNCHANGED <<db, sheet, adminHistory>>
      \/ /\ c.at = "checked"
         /\ \/ db.invites[c.on] = "gone" /\ Ends("revoke", "refused")
            \/ /\ db.invites[c.on] # "gone"
               /\ WritesMine("revoke", "gone", IF db.invites[c.on] = "used" THEN "erased" ELSE "done")

\* Another administrator, somebody who signs up, or time.
Elsewhere ==
    /\ \/ \E o \in Actives(db.users) \ {Me} : \E u \in Accounts :
            \E act \in {"demote", "promote", "disable", "enable", "delete"} :
              /\ Permits(o, act, u) /\ AfterAct(act, db.users[u]) # db.users[u]
              /\ Writes("users", u, AfterAct(act, db.users[u]), <<>>)
       \/ tab = "invites" /\ \E i \in Codes, to \in {"used", "expired", "gone"} :
            db.invites[i] = "pending" /\ Writes("invites", i, to, <<>>)
    /\ UNCHANGED <<sheet, unseen>>

-----------------------------------------------------------------------------
(* The answers.                                                            *)

\* Mutant: the table is not read again after a deletion.
RefreshesNotDelete(f) == click[f].act \notin {"link", "delete"}

\* Every onSuccess but that of a reset link invalidates its list.
Refreshes(f) == click[f].act # "link"

Succeeds(f) ==
    LET l == TableOf(f)
        s == sheet[l]
        joins == ~s.loaded /\ s.fetch # "idle"
    IN  /\ click[f].at \in {"done", "erased"}
        /\ IF Refreshes(f)
           THEN /\ sheet' = IF joins THEN sheet ELSE [sheet EXCEPT ![l] = Fetching(@)]
                /\ blind' = IF joins /\ s.fetch = "read" THEN blind \cup {l} ELSE blind
                /\ click' = [click EXCEPT ![f] =
                      IF f \in {"change", "revoke"} THEN [Unclicked EXCEPT !.at = "await"] ELSE Unclicked]
           ELSE click' = [click EXCEPT ![f] = Unclicked] /\ UNCHANGED <<sheet, blind>>
        /\ UNCHANGED <<db, unseen, writes, errors>>

\* onError: the server refused.
Errs(f) ==
    /\ click[f].at \in {"refused", "barred"}
    /\ click' = [click EXCEPT ![f] = Unclicked]
    /\ UNCHANGED <<db, sheet, adminHistory>>

\* onError too: a 500, or the call or its answer is lost.
CallFails(f) ==
    /\ click[f].at \in {"sent", "checked", "done", "erased"}
    /\ errors < MaxErrors /\ errors' = errors + 1
    /\ click' = [click EXCEPT ![f] = Unclicked]
    /\ blind' = IF AtServer(f) THEN blind ELSE blind \cup {TableOf(f)}
    /\ UNCHANGED <<db, sheet, unseen, writes>>

AdminNext ==
    /\ UNCHANGED tab
    /\ \/ OpenTab(tab) \/ FetchReads(tab) \/ FetchArrives(tab) \/ FetchFails(tab)
       \/ ClickUser \/ ClickRevoke \/ ClickAddUser \/ ClickAddInvite
       \/ ServeChange \/ ServeAddUser \/ ServeAddInvite \/ ServeRevoke \/ Elsewhere
       \/ \E f \in Forms : Barred(f) \/ Succeeds(f) \/ Errs(f) \/ CallFails(f)

-----------------------------------------------------------------------------
\* The buttons are "the friendly half of that pair": a click is refused, and a
\* redeemed invite deleted with the record "of how an account was created", only
\* if the list changed since it was last looked at.
OnlyStaleGoesWrong ==
    \A f \in {"change", "revoke"} : click[f].at \in {"refused", "erased"} => click[f].stale

\* With nothing under way, a list shows what was changed from its own page, unless
\* the answer was lost, the list could not be read again, or it was first being
\* read then.
OwnChangeShown ==
    \A l \in unseen : \/ l \in blind \/ sheet[l].fetch # "idle"
                      \/ \E f \in Forms : TableOf(f) = l /\ click[f].at # "rest"
=============================================================================
