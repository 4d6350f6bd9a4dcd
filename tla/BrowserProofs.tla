---------------------------- MODULE BrowserProofs ----------------------------
(***************************************************************************)
(* Proofs about the pages of an administrator and the session of the       *)
(* browser, for any number of accounts, invites, changes and failures.     *)
(***************************************************************************)
EXTENDS Site, FiniteSetTheorems, TLAPS

-----------------------------------------------------------------------------
(* The administrator's page.                                               *)

\* A step of the site is a step of the administrator's page or leaves it alone.
LEMMA AdminMoves == [Next]_vars => AdminNext \/ UNCHANGED adminVars
  BY DEF Next, vars

AdminTyped ==
    /\ tab \in Tables
    /\ db = [users |-> db.users, invites |-> db.invites]
    /\ sheet = [l \in Tables |-> sheet[l]]
    /\ \A l \in Tables :
         /\ sheet[l] = [rows |-> sheet[l].rows, loaded |-> sheet[l].loaded, error |-> sheet[l].error,
                        fetch |-> sheet[l].fetch, got |-> sheet[l].got, new |-> sheet[l].new]
         /\ sheet[l].fetch \in {"idle", "sent", "read"}
    /\ click = [f \in Forms |-> click[f]]
    /\ \A f \in Forms :
         /\ click[f] = [at |-> click[f].at, act |-> click[f].act, on |-> click[f].on, stale |-> click[f].stale]
         /\ f # "change" => click[f].act # "link"
    /\ unseen \subseteq Tables /\ blind \subseteq Tables

\* A click on a list that has not changed since is granted, and so is what was found
\* revocable.
FreshIsGranted ==
    /\ click["change"].at = "sent" /\ ~click["change"].stale =>
         Permits(Me, click["change"].act, click["change"].on)
    /\ click["revoke"].at \in {"sent", "checked"} /\ ~click["revoke"].stale =>
         Revocable(db.invites[click["revoke"].on])

\* A change that is not shown yet is being read, or its answer will have it read.
ChangeFollowed ==
    \A l \in unseen \ blind :
      \/ sheet[l].fetch = "sent"
      \/ sheet[l].fetch = "read" /\ sheet[l].new
      \/ \E f \in Forms : TableOf(f) = l /\ click[f].at \in {"done", "erased"} /\ Refreshes(f)

AdminInv == AdminTyped /\ FreshIsGranted /\ OnlyStaleGoesWrong /\ ChangeFollowed

LEMMA FormTables ==
  /\ Tables = {"users", "invites"} /\ Forms = {"change", "addUser", "revoke", "addInvite"}
  /\ \A f \in Forms : TableOf(f) \in Tables
  /\ TableOf("change") = "users" /\ TableOf("addUser") = "users"
  /\ TableOf("revoke") = "invites" /\ TableOf("addInvite") = "invites"
  BY DEF Tables, Forms, TableOf

\* What a row offers, the server permits.
LEMMA OfferedIsGranted ==
  ASSUME NEW u, NEW act \in Offered(db.users, u) PROVE Permits(Me, act, u)
<1>1. db.users[u] # Absent
  BY DEF Offered
<1>2. act \in {"disable", "delete"} => u # Me
  BY DEF Offered
<1>3. ASSUME act \in {"demote", "disable", "delete"}, IsActive(db.users[u]), Actives(db.users) = {u}
      PROVE  FALSE
  <2>1. ~IsLastAdmin(db.users, u)
    BY <1>3 DEF Offered
  <2>2. Cardinality({u}) = 1
    BY FS_Singleton
  <2>. QED BY <1>3, <2>1, <2>2 DEF IsLastAdmin
<1>. QED BY <1>1, <1>2, <1>3 DEF Permits

\* What a step of the page does to one click.
LEMMA OneClick ==
  ASSUME AdminTyped, NEW f \in Forms, NEW k, click' = [click EXCEPT ![f] = k]
  PROVE  click'[f] = k /\ (\A g \in Forms \ {f} : click'[g] = click[g]) /\ click' = [g \in Forms |-> click'[g]]
  BY DEF AdminTyped

LEMMA AdminTypedFirst == AdminInit => AdminTyped
<1>. SUFFICES ASSUME AdminInit PROVE AdminTyped
  OBVIOUS
<1>. QED BY FormTables DEF AdminInit, AdminTyped, Unfetched, Unclicked

\* A row of list l is written.
LEMMA WrittenRows ==
  ASSUME AdminTyped, NEW l \in Tables, NEW on, NEW value, NEW ended, Writes(l, on, value, ended)
  PROVE  /\ db' = [users |-> db'.users, invites |-> db'.invites]
         /\ \A m \in Tables \ {l} : db'[m] = db[m]
         /\ click' = [f \in Forms |-> click'[f]]
         /\ \A f \in Forms :
              /\ f \in DOMAIN ended => click'[f] = [click[f] EXCEPT !.at = ended[f]]
              /\ f \notin DOMAIN ended /\ ~(TableOf(f) = l /\ AtServer(f)) => click'[f] = click[f]
              /\ f \notin DOMAIN ended /\ TableOf(f) = l /\ AtServer(f) =>
                   click'[f] = [click[f] EXCEPT !.stale = TRUE]
<1>1. db' = [db EXCEPT ![l][on] = value]
  BY DEF Writes
<1>2. DOMAIN db = {"users", "invites"}
  BY DEF AdminTyped
<1>3. \A m \in Tables \ {l} : db'[m] = db[m]
  BY <1>1, <1>2 DEF Tables
<1>4. db' = [users |-> db'.users, invites |-> db'.invites]
  BY <1>1 DEF AdminTyped, Tables
<1>. QED BY <1>3, <1>4 DEF Writes


\* A fetch begins, reads or ends; a mutation that awaited it is settled.
LEMMA AdminFetches ==
  ASSUME AdminInv, OpenTab(tab) \/ FetchReads(tab) \/ FetchArrives(tab) \/ FetchFails(tab), UNCHANGED tab
  PROVE  AdminInv'
<1>. USE DEF AdminInv
<1> DEFINE Same(k) == k = [rows |-> k.rows, loaded |-> k.loaded, error |-> k.error,
                           fetch |-> k.fetch, got |-> k.got, new |-> k.new]
           Lands(k) == /\ sheet' = [sheet EXCEPT ![tab] = k] /\ Same(k)
                       /\ \/ k.fetch = "sent" \/ (k.fetch = "read" /\ k.new)
                          \/ /\ k.fetch = "idle"
                             /\ \/ tab \in blind'
                                \/ sheet[tab].new /\ tab \notin unseen'
                                \/ ~sheet[tab].new /\ sheet[tab].fetch = "read"
<1>1. \E k : Lands(k)
  <2>1. Same(sheet[tab])
    BY DEF AdminTyped
  <2>3. CASE OpenTab(tab)
    <3>1. PICK k : k = Fetching(sheet[tab])
      OBVIOUS
    <3>2. Same(k) /\ k.fetch = "sent"
      BY <2>1, <3>1 DEF Fetching
    <3>3. sheet' = [sheet EXCEPT ![tab] = k]
      BY <2>3, <3>1 DEF OpenTab
    <3>. QED BY <3>2, <3>3
  <2>4. CASE FetchReads(tab)
    <3>1. PICK k : k = [sheet[tab] EXCEPT !.fetch = "read", !.got = db[tab], !.new = TRUE]
      OBVIOUS
    <3>2. Same(k) /\ k.fetch = "read" /\ k.new
      BY <2>1, <3>1
    <3>3. sheet' = [sheet EXCEPT ![tab] = k]
      BY <2>1, <2>4, <3>1 DEF FetchReads, AdminTyped
    <3>. QED BY <3>2, <3>3
  <2>5. CASE FetchArrives(tab)
    <3>1. PICK k : k = [Unfetched(tab) EXCEPT !.rows = sheet[tab].got, !.loaded = TRUE]
      OBVIOUS
    <3>2. Same(k) /\ k.fetch = "idle"
      BY <3>1 DEF Unfetched
    <3>3. sheet' = [sheet EXCEPT ![tab] = k] /\ sheet[tab].fetch = "read"
      BY <2>5, <3>1 DEF FetchArrives
    <3>4. sheet[tab].new => tab \notin unseen'
      BY <2>5 DEF FetchArrives
    <3>. QED BY <3>2, <3>3, <3>4
  <2>6. CASE FetchFails(tab)
    <3>1. PICK k : k = [sheet[tab] EXCEPT !.fetch = "idle", !.error = TRUE, !.got = NoRows[tab], !.new = FALSE]
      OBVIOUS
    <3>2. Same(k) /\ k.fetch = "idle"
      BY <2>1, <3>1
    <3>3. sheet' = [sheet EXCEPT ![tab] = k] /\ tab \in blind'
      BY <2>1, <2>6, <3>1 DEF FetchFails, AdminTyped
    <3>. QED BY <3>2, <3>3
  <2>. QED BY <2>3, <2>4, <2>5, <2>6
<1>0. PICK s : Lands(s)
  BY <1>1
<1>2. /\ UNCHANGED db /\ unseen' \subseteq unseen
      /\ blind' \subseteq blind \cup {tab} /\ blind \ {tab} \subseteq blind' /\ unseen \ {tab} \subseteq unseen'
      /\ tab \in unseen' => (tab \in blind => tab \in blind')
  BY DEF OpenTab, FetchReads, FetchArrives, FetchFails, adminHistory
<1>3. /\ click' = [f \in Forms |-> click'[f]]
      /\ \A f \in Forms : click'[f] = click[f] \/ (click[f].at = "await" /\ click'[f] = Unclicked)
  BY DEF OpenTab, FetchReads, FetchArrives, FetchFails, Settled, AdminTyped
<1>4. sheet'[tab] = s /\ \A l \in Tables \ {tab} : sheet'[l] = sheet[l]
  BY <1>0 DEF AdminTyped
<1>5. Unclicked = [at |-> "rest", act |-> "none", on |-> Me, stale |-> FALSE]
  BY DEF Unclicked
<1>6. AdminTyped'
  <2>1. sheet' = [l \in Tables |-> sheet'[l]]
    BY <1>0 DEF AdminTyped
  <2>2. \A l \in Tables :
          /\ sheet'[l] = [rows |-> sheet'[l].rows, loaded |-> sheet'[l].loaded, error |-> sheet'[l].error,
                          fetch |-> sheet'[l].fetch, got |-> sheet'[l].got, new |-> sheet'[l].new]
          /\ sheet'[l].fetch \in {"idle", "sent", "read"}
    BY <1>0, <1>4 DEF AdminTyped
  <2>3. \A f \in Forms :
          /\ click'[f] = [at |-> click'[f].at, act |-> click'[f].act, on |-> click'[f].on, stale |-> click'[f].stale]
          /\ f # "change" => click'[f].act # "link"
    BY <1>3, <1>5 DEF AdminTyped
  <2>4. unseen' \subseteq Tables /\ blind' \subseteq Tables /\ tab' \in Tables
    BY <1>2 DEF AdminTyped
  <2>. QED BY <1>2, <1>3, <2>1, <2>2, <2>3, <2>4 DEF AdminTyped
<1>7. FreshIsGranted' /\ OnlyStaleGoesWrong'
  <2>1. click'["change"] = click["change"] \/ click'["change"].at = "rest"
    BY <1>3, <1>5 DEF Forms
  <2>2. click'["revoke"] = click["revoke"] \/ click'["revoke"].at = "rest"
    BY <1>3, <1>5 DEF Forms
  <2>. QED BY <1>2, <2>1, <2>2 DEF FreshIsGranted, OnlyStaleGoesWrong, Permits
<1>8. ChangeFollowed'
  <2>1. ASSUME NEW f \in Forms, click[f].at \in {"done", "erased"} PROVE click'[f] = click[f]
    BY <1>3, <2>1
  <2>2. ASSUME NEW l \in unseen' \ blind', NEW f \in Forms, TableOf(f) = l,
               click[f].at \in {"done", "erased"}, Refreshes(f)
        PROVE  \E g \in Forms : TableOf(g) = l /\ click'[g].at \in {"done", "erased"} /\ Refreshes(g)'
    BY <2>1, <2>2 DEF Refreshes
  <2>3. ASSUME NEW l \in unseen' \ blind', l # tab
        PROVE  \/ sheet'[l].fetch = "sent" \/ (sheet'[l].fetch = "read" /\ sheet'[l].new)
               \/ \E g \in Forms : TableOf(g) = l /\ click'[g].at \in {"done", "erased"} /\ Refreshes(g)'
    <3>1. l \in unseen \ blind /\ sheet'[l] = sheet[l]
      BY <1>2, <1>4, <2>3 DEF AdminTyped
    <3>. QED BY <2>2, <2>3, <3>1 DEF ChangeFollowed
  <2>4. ASSUME tab \in unseen' \ blind'
        PROVE  \/ sheet'[tab].fetch = "sent" \/ (sheet'[tab].fetch = "read" /\ sheet'[tab].new)
               \/ \E g \in Forms : TableOf(g) = tab /\ click'[g].at \in {"done", "erased"} /\ Refreshes(g)'
    <3>1. CASE s.fetch = "sent" \/ (s.fetch = "read" /\ s.new)
      BY <1>4, <3>1
    <3>2. CASE ~sheet[tab].new /\ sheet[tab].fetch = "read"
      <4>1. tab \in unseen \ blind
        BY <1>2, <2>4
      <4>. QED BY <2>2, <2>4, <3>2, <4>1 DEF ChangeFollowed
    <3>. QED BY <1>0, <2>4, <3>1, <3>2
  <2>. QED BY <2>3, <2>4 DEF ChangeFollowed
<1>. QED BY <1>6, <1>7, <1>8


\* One click moves on, and nothing else does.
LEMMA AdminClick ==
  ASSUME AdminInv, NEW f \in Forms, NEW k, click' = [click EXCEPT ![f] = k],
         UNCHANGED <<tab, db, sheet, unseen>>, blind \subseteq blind', blind' \subseteq Tables,
         k = [at |-> k.at, act |-> k.act, on |-> k.on, stale |-> k.stale],
         f # "change" => k.act # "link",
         f = "change" /\ k.at = "sent" /\ ~k.stale => Permits(Me, k.act, k.on),
         f = "revoke" /\ k.at \in {"sent", "checked"} /\ ~k.stale => Revocable(db.invites[k.on]),
         f \in {"change", "revoke"} /\ k.at \in {"refused", "erased"} => k.stale,
         click[f].at \in {"done", "erased"} /\ Refreshes(f) => TableOf(f) \in blind'
  PROVE  AdminInv'
<1>. USE DEF AdminInv
<1>1. click'[f] = k /\ (\A g \in Forms \ {f} : click'[g] = click[g]) /\ click' = [g \in Forms |-> click'[g]]
  BY OneClick
<1>2. AdminTyped'
  BY <1>1 DEF AdminTyped
<1>3. FreshIsGranted'
  <2>1. f = "change" \/ click'["change"] = click["change"]
    BY <1>1 DEF Forms
  <2>2. f = "revoke" \/ click'["revoke"] = click["revoke"]
    BY <1>1 DEF Forms
  <2>3. UNCHANGED db
    OBVIOUS
  <2>4. click'["change"].at = "sent" /\ ~click'["change"].stale =>
           Permits(Me, click'["change"].act, click'["change"].on)
    BY <1>1, <2>1 DEF FreshIsGranted
  <2>5. click'["revoke"].at \in {"sent", "checked"} /\ ~click'["revoke"].stale =>
           Revocable(db.invites[click'["revoke"].on])
    BY <1>1, <2>2 DEF FreshIsGranted
  <2>. QED BY <2>3, <2>4, <2>5 DEF FreshIsGranted, Permits
<1>4. OnlyStaleGoesWrong'
  BY <1>1 DEF OnlyStaleGoesWrong, Forms
<1>5. ChangeFollowed'
  <2>1. ASSUME NEW l \in unseen' \ blind'
        PROVE  \/ sheet'[l].fetch = "sent" \/ (sheet'[l].fetch = "read" /\ sheet'[l].new)
               \/ \E g \in Forms : TableOf(g) = l /\ click'[g].at \in {"done", "erased"} /\ Refreshes(g)'
    <3>1. l \in unseen \ blind
      BY <2>1
    <3>2. ASSUME NEW g \in Forms, TableOf(g) = l, click[g].at \in {"done", "erased"}, Refreshes(g)
          PROVE  click'[g] = click[g]
      BY <1>1, <2>1, <3>2
    <3>. QED BY <3>1, <3>2 DEF ChangeFollowed, Refreshes
  <2>. QED BY <2>1 DEF ChangeFollowed
<1>. QED BY <1>2, <1>3, <1>4, <1>5

LEMMA AdminPress ==
  ASSUME AdminInv, NEW f \in Forms, NEW act, NEW on, Press(f, act, on), UNCHANGED tab,
         f # "change" => act # "link",
         f = "change" /\ sheet["users"].rows = db["users"] => Permits(Me, act, on),
         f = "revoke" /\ sheet["invites"].rows = db["invites"] => Revocable(db.invites[on])
  PROVE  AdminInv'
<1>1. PICK k : k = [at |-> "sent", act |-> act, on |-> on, stale |-> sheet[TableOf(f)].rows # db[TableOf(f)]]
  OBVIOUS
<1>2. /\ click[f].at = "rest" /\ click' = [click EXCEPT ![f] = k]
      /\ UNCHANGED <<db, sheet, unseen, blind>>
  BY <1>1 DEF Press, adminHistory
<1>3. f = "change" /\ ~k.stale => Permits(Me, k.act, k.on)
  BY <1>1 DEF TableOf
<1>4. f = "revoke" /\ ~k.stale => Revocable(db.invites[k.on])
  BY <1>1 DEF TableOf
<1>5. /\ k = [at |-> k.at, act |-> k.act, on |-> k.on, stale |-> k.stale] /\ k.at = "sent"
      /\ f # "change" => k.act # "link"
  BY <1>1
<1>6. blind' \subseteq Tables
  BY <1>2 DEF AdminInv, AdminTyped
<1>. QED BY <1>2, <1>3, <1>4, <1>5, <1>6, AdminClick

LEMMA AdminPresses ==
  ASSUME AdminInv, ClickUser \/ ClickRevoke \/ ClickAddUser \/ ClickAddInvite, UNCHANGED tab
  PROVE  AdminInv'
<1>1. CASE ClickUser
  <2>1. PICK u \in Accounts : \E act \in Offered(sheet["users"].rows, u) : Press("change", act, u)
    BY <1>1 DEF ClickUser
  <2>2. PICK act \in Offered(sheet["users"].rows, u) : Press("change", act, u)
    BY <2>1
  <2>3. sheet["users"].rows = db["users"] => Permits(Me, act, u)
    BY <2>2, OfferedIsGranted
  <2>. QED BY <2>2, <2>3, FormTables, AdminPress
<1>2. CASE ClickRevoke
  <2>1. PICK i \in Codes : sheet["invites"].rows[i] = "pending" /\ Press("revoke", "revoke", i)
    BY <1>2 DEF ClickRevoke
  <2>2. sheet["invites"].rows = db["invites"] => Revocable(db.invites[i])
    BY <2>1 DEF Revocable
  <2>. QED BY <2>1, <2>2, FormTables, AdminPress
<1>3. CASE ClickAddUser
  <2>1. PICK u \in Accounts, role \in {"ADMIN", "USER"} : Press("addUser", role, u)
    BY <1>3 DEF ClickAddUser
  <2>. QED BY <2>1, FormTables, AdminPress
<1>4. CASE ClickAddInvite
  <2>1. PICK i \in Codes : Press("addInvite", "none", i)
    BY <1>4 DEF ClickAddInvite
  <2>. QED BY <2>1, FormTables, AdminPress
<1>. QED BY <1>1, <1>2, <1>3, <1>4

\* Ends: the call is answered without a row being written.
LEMMA AdminEnds ==
  ASSUME AdminInv, NEW f \in Forms, NEW at \in {"barred", "refused", "done"}, Ends(f, at), UNCHANGED tab,
         click[f].at \notin {"done", "erased"},
         at = "refused" /\ f \in {"change", "revoke"} => click[f].stale
  PROVE  AdminInv'
<1>1. PICK k : k = [click[f] EXCEPT !.at = at]
  OBVIOUS
<1>2. click[f] = [at |-> click[f].at, act |-> click[f].act, on |-> click[f].on, stale |-> click[f].stale]
  BY DEF AdminInv, AdminTyped
<1>3. k = [at |-> at, act |-> click[f].act, on |-> click[f].on, stale |-> click[f].stale]
  BY <1>1, <1>2
<1>4. click' = [click EXCEPT ![f] = k] /\ UNCHANGED <<db, sheet, unseen, blind>>
  BY <1>1 DEF Ends, adminHistory, AdminInv, AdminTyped
<1>5. /\ k = [at |-> k.at, act |-> k.act, on |-> k.on, stale |-> k.stale]
      /\ k.at = at /\ k.act = click[f].act /\ k.stale = click[f].stale
  BY <1>3
<1>6. blind' \subseteq Tables /\ (f # "change" => click[f].act # "link")
  BY <1>4 DEF AdminInv, AdminTyped
<1>. QED BY <1>4, <1>5, <1>6, AdminClick


\* A row of list l is written, by the click that ends as ended says, or elsewhere.
LEMMA AdminWrite ==
  ASSUME AdminInv, NEW l \in Tables, NEW on, NEW value, NEW ended, Writes(l, on, value, ended), UNCHANGED tab,
         \A f \in Forms \cap DOMAIN ended :
           /\ ended[f] \in {"done", "erased"} /\ TableOf(f) = l /\ Refreshes(f)
           /\ f \in {"change", "revoke"} /\ ended[f] = "erased" => click[f].stale,
         \/ UNCHANGED <<sheet, unseen>>
         \/ /\ sheet' = [sheet EXCEPT ![l].new = FALSE] /\ unseen' = unseen \cup {l}
            /\ Forms \cap DOMAIN ended # {}
  PROVE  AdminInv'
<1>. USE DEF AdminInv
<1>0. \A f \in Forms :
        /\ f \in DOMAIN ended => click'[f] = [click[f] EXCEPT !.at = ended[f]]
        /\ f \notin DOMAIN ended /\ ~(TableOf(f) = l /\ AtServer(f)) => click'[f] = click[f]
        /\ f \notin DOMAIN ended /\ TableOf(f) = l /\ AtServer(f) => click'[f] = [click[f] EXCEPT !.stale = TRUE]
  BY WrittenRows
<1>1. /\ db' = [users |-> db'.users, invites |-> db'.invites]
      /\ \A m \in Tables \ {l} : db'[m] = db[m]
      /\ click' = [f \in Forms |-> click'[f]]
      /\ UNCHANGED blind
  <2>1. UNCHANGED blind
    BY DEF Writes
  <2>. QED BY <2>1, WrittenRows
<1>2. ASSUME NEW f \in Forms
      PROVE  /\ click'[f] = [at |-> click'[f].at, act |-> click'[f].act, on |-> click'[f].on, stale |-> click'[f].stale]
             /\ click'[f].act = click[f].act /\ click'[f].on = click[f].on
             /\ f \in DOMAIN ended => click'[f].at = ended[f] /\ click'[f].stale = click[f].stale
             /\ f \notin DOMAIN ended => click'[f].at = click[f].at
             /\ f \notin DOMAIN ended /\ ~AtServer(f) => click'[f].stale = click[f].stale
             /\ f \notin DOMAIN ended /\ TableOf(f) # l => click'[f].stale = click[f].stale
             /\ f \notin DOMAIN ended /\ AtServer(f) /\ TableOf(f) = l => click'[f].stale = TRUE
  <2>1. click[f] = [at |-> click[f].at, act |-> click[f].act, on |-> click[f].on, stale |-> click[f].stale]
    BY DEF AdminTyped
  <2>2. CASE f \in DOMAIN ended
    <3>1. click'[f] = [click[f] EXCEPT !.at = ended[f]]
      BY <1>0, <2>2
    <3>2. click'[f] = [at |-> ended[f], act |-> click[f].act, on |-> click[f].on, stale |-> click[f].stale]
      BY <2>1, <3>1
    <3>. QED BY <2>2, <3>2
  <2>3. CASE f \notin DOMAIN ended /\ TableOf(f) = l /\ AtServer(f)
    <3>1. click'[f] = [click[f] EXCEPT !.stale = TRUE]
      BY <1>0, <2>3
    <3>2. click'[f] = [at |-> click[f].at, act |-> click[f].act, on |-> click[f].on, stale |-> TRUE]
      BY <2>1, <3>1
    <3>3. click'[f].stale = TRUE /\ click'[f].at = click[f].at
      BY <3>2
    <3>4. /\ click'[f] = [at |-> click'[f].at, act |-> click'[f].act, on |-> click'[f].on, stale |-> click'[f].stale]
          /\ click'[f].act = click[f].act /\ click'[f].on = click[f].on
      BY <3>2
    <3>. QED BY <2>3, <3>3, <3>4
  <2>4. CASE f \notin DOMAIN ended /\ ~(TableOf(f) = l /\ AtServer(f))
    <3>1. click'[f] = click[f]
      BY <1>0, <2>4
    <3>. QED BY <2>1, <2>4, <3>1
  <2>. QED BY <2>2, <2>3, <2>4
<1>3. /\ sheet' = [m \in Tables |-> sheet'[m]]
      /\ \A m \in Tables :
           /\ sheet'[m] = [rows |-> sheet'[m].rows, loaded |-> sheet'[m].loaded, error |-> sheet'[m].error,
                           fetch |-> sheet[m].fetch, got |-> sheet'[m].got, new |-> sheet'[m].new]
           /\ m # l => sheet'[m] = sheet[m]
  <2>1. CASE UNCHANGED sheet
    BY <2>1 DEF AdminTyped
  <2>2. CASE sheet' = [sheet EXCEPT ![l].new = FALSE]
    <3>1. PICK k : k = [sheet[l] EXCEPT !.new = FALSE]
      OBVIOUS
    <3>2. sheet' = [sheet EXCEPT ![l] = k]
      BY <2>2, <3>1
    <3>3. k = [rows |-> k.rows, loaded |-> k.loaded, error |-> k.error, fetch |-> sheet[l].fetch, got |-> k.got, new |-> k.new]
      <4>1. sheet[l] = [rows |-> sheet[l].rows, loaded |-> sheet[l].loaded, error |-> sheet[l].error,
                        fetch |-> sheet[l].fetch, got |-> sheet[l].got, new |-> sheet[l].new]
        BY DEF AdminTyped
      <4>2. k = [rows |-> sheet[l].rows, loaded |-> sheet[l].loaded, error |-> sheet[l].error,
                 fetch |-> sheet[l].fetch, got |-> sheet[l].got, new |-> FALSE]
        BY <3>1, <4>1
      <4>. QED BY <4>2
    <3>4. sheet'[l] = k /\ \A m \in Tables \ {l} : sheet'[m] = sheet[m]
      BY <3>2 DEF AdminTyped
    <3>5. sheet' = [m \in Tables |-> sheet'[m]]
      BY <3>2 DEF AdminTyped
    <3>. QED BY <3>3, <3>4, <3>5 DEF AdminTyped
  <2>. QED BY <2>1, <2>2
<1>4. AdminTyped'
  <2>1. \A f \in Forms :
          /\ click'[f] = [at |-> click'[f].at, act |-> click'[f].act, on |-> click'[f].on, stale |-> click'[f].stale]
          /\ f # "change" => click'[f].act # "link"
    <3>. SUFFICES ASSUME NEW f \in Forms
                  PROVE  /\ click'[f] = [at |-> click'[f].at, act |-> click'[f].act,
                                         on |-> click'[f].on, stale |-> click'[f].stale]
                         /\ f # "change" => click'[f].act # "link"
      OBVIOUS
    <3>1. f # "change" => click[f].act # "link"
      BY DEF AdminTyped
    <3>. QED BY <1>2, <3>1
  <2>2. \A m \in Tables :
         /\ sheet'[m] = [rows |-> sheet'[m].rows, loaded |-> sheet'[m].loaded, error |-> sheet'[m].error,
                        fetch |-> sheet'[m].fetch, got |-> sheet'[m].got, new |-> sheet'[m].new]
         /\ sheet'[m].fetch \in {"idle", "sent", "read"}
    BY <1>3 DEF AdminTyped
  <2>3. unseen' \subseteq Tables /\ blind' \subseteq Tables /\ tab' \in Tables
    BY <1>1 DEF AdminTyped
  <2>. QED BY <1>1, <1>3, <2>1, <2>2, <2>3 DEF AdminTyped
<1>5. FreshIsGranted'
  <2>1. ASSUME click'["change"].at = "sent", ~click'["change"].stale
        PROVE  Permits(Me, click["change"].act, click["change"].on)' /\ click'["change"].act = click["change"].act
               /\ click'["change"].on = click["change"].on
    <3>1. "change" \in Forms /\ TableOf("change") = "users"
      BY FormTables
    <3>2. "change" \notin DOMAIN ended /\ click["change"].at = "sent" /\ AtServer("change")
      BY <1>2, <2>1, <3>1 DEF AtServer
    <3>3. l # "users" /\ ~click["change"].stale
      BY <1>2, <2>1, <3>1, <3>2
    <3>4. db'["users"] = db["users"]
      BY <1>1, <3>3 DEF Tables
    <3>5. click'["change"].act = click["change"].act /\ click'["change"].on = click["change"].on
      BY <1>2, <3>1
    <3>. QED BY <3>2, <3>3, <3>4, <3>5 DEF FreshIsGranted, Permits
  <2>2. ASSUME click'["revoke"].at \in {"sent", "checked"}, ~click'["revoke"].stale
        PROVE  Revocable(db'.invites[click'["revoke"].on])
    <3>1. "revoke" \in Forms /\ TableOf("revoke") = "invites"
      BY FormTables
    <3>2. "revoke" \notin DOMAIN ended /\ click["revoke"].at \in {"sent", "checked"} /\ AtServer("revoke")
      BY <1>2, <2>2, <3>1 DEF AtServer
    <3>3. l # "invites" /\ ~click["revoke"].stale
      BY <1>2, <2>2, <3>1, <3>2
    <3>4. db'["invites"] = db["invites"]
      BY <1>1, <3>3 DEF Tables
    <3>5. click'["revoke"].on = click["revoke"].on
      BY <1>2, <3>1
    <3>. QED BY <3>2, <3>3, <3>4, <3>5 DEF FreshIsGranted
  <2>. QED BY <2>1, <2>2 DEF FreshIsGranted, Permits
<1>6. OnlyStaleGoesWrong'
  <2>1. ASSUME NEW f \in {"change", "revoke"}, click'[f].at \in {"refused", "erased"} PROVE click'[f].stale
    <3>1. f \in Forms
      BY FormTables
    <3>2. CASE f \in DOMAIN ended
      BY <1>2, <2>1, <3>1, <3>2
    <3>3. CASE f \notin DOMAIN ended
      <4>1. click[f].stale /\ ~AtServer(f)
        BY <1>2, <2>1, <3>1, <3>3 DEF OnlyStaleGoesWrong, AtServer
      <4>. QED BY <1>2, <3>1, <3>3, <4>1
    <3>. QED BY <3>2, <3>3
  <2>. QED BY <2>1 DEF OnlyStaleGoesWrong
<1>7. ChangeFollowed'
  <2>1. ASSUME NEW f \in Forms, click[f].at \in {"done", "erased"}, Refreshes(f) \/ f \in DOMAIN ended
        PROVE  click'[f].at \in {"done", "erased"} /\ Refreshes(f)'
    BY <1>2, <2>1 DEF Refreshes
  <2>2. ASSUME NEW m \in unseen' \ blind'
        PROVE  \/ sheet'[m].fetch = "sent" \/ (sheet'[m].fetch = "read" /\ sheet'[m].new)
               \/ \E g \in Forms : TableOf(g) = m /\ click'[g].at \in {"done", "erased"} /\ Refreshes(g)'
    <3>1. CASE Forms \cap DOMAIN ended # {} /\ m = l
      <4>1. PICK f \in Forms \cap DOMAIN ended : TRUE
        BY <3>1
      <4>2. click'[f].at \in {"done", "erased"} /\ Refreshes(f)' /\ TableOf(f) = m
        BY <1>2, <3>1, <4>1 DEF Refreshes
      <4>. QED BY <4>1, <4>2
    <3>2. CASE UNCHANGED <<sheet, unseen>> \/ m # l
      <4>1. m \in unseen \ blind /\ m \in Tables
        BY <1>1, <2>2, <3>2 DEF AdminTyped
      <4>2. sheet'[m] = sheet[m]
        BY <1>3, <3>2, <4>1
      <4>. QED BY <2>1, <4>1, <4>2 DEF ChangeFollowed
    <3>. QED BY <3>1, <3>2
  <2>. QED BY <2>2 DEF ChangeFollowed
<1>. QED BY <1>4, <1>5, <1>6, <1>7


\* The server writes a row for a click of this page.
LEMMA AdminServes ==
  ASSUME AdminInv, NEW f \in Forms, NEW value, NEW at \in {"done", "erased"}, WritesMine(f, value, at),
         UNCHANGED tab, Refreshes(f), f \in {"change", "revoke"} /\ at = "erased" => click[f].stale
  PROVE  AdminInv'
<1>1. PICK ended : ended = [g \in {f} |-> at]
  OBVIOUS
<1>2. DOMAIN ended = {f} /\ ended[f] = at
  BY <1>1
<1>3. /\ Writes(TableOf(f), click[f].on, value, ended)
      /\ sheet' = [sheet EXCEPT ![TableOf(f)].new = FALSE]
      /\ unseen' = unseen \cup {TableOf(f)}
  BY <1>1 DEF WritesMine
<1>4. TableOf(f) \in Tables
  BY FormTables
<1>5. Forms \cap DOMAIN ended # {}
  BY <1>2
<1>6. \A g \in Forms \cap DOMAIN ended :
        /\ ended[g] \in {"done", "erased"} /\ TableOf(g) = TableOf(f) /\ Refreshes(g)
        /\ g \in {"change", "revoke"} /\ ended[g] = "erased" => click[g].stale
  BY <1>2
<1>. QED BY <1>3, <1>4, <1>5, <1>6, AdminWrite

LEMMA AdminServer ==
  ASSUME AdminInv, ServeChange \/ ServeAddUser \/ ServeAddInvite \/ ServeRevoke, UNCHANGED tab
  PROVE  AdminInv'
<1>1. CASE ServeChange
  <2>1. "change" \in Forms /\ click["change"].at = "sent"
    BY <1>1, FormTables DEF ServeChange
  <2>2. CASE ~Permits(Me, click["change"].act, click["change"].on) /\ Ends("change", "refused")
    <3>1. click["change"].stale
      BY <2>1, <2>2 DEF AdminInv, FreshIsGranted
    <3>. QED BY <2>1, <2>2, <3>1, AdminEnds
  <2>3. CASE Ends("change", "done")
    BY <2>1, <2>3, AdminEnds
  <2>4. CASE click["change"].act # "link"
             /\ WritesMine("change", AfterAct(click["change"].act, db.users[click["change"].on]), "done")
    BY <2>1, <2>4, AdminServes DEF Refreshes
  <2>. QED BY <1>1, <2>2, <2>3, <2>4 DEF ServeChange
<1>2. CASE ServeAddUser
  <2>1. "addUser" \in Forms /\ click["addUser"].at = "sent" /\ Refreshes("addUser")
    BY <1>2, FormTables DEF ServeAddUser, Refreshes, AdminInv, AdminTyped
  <2>2. \/ Ends("addUser", "refused")
        \/ WritesMine("addUser", Enabled(click["addUser"].act), "done")
    BY <1>2 DEF ServeAddUser
  <2>. QED BY <2>1, <2>2, AdminEnds, AdminServes
<1>3. CASE ServeAddInvite
  <2>1. "addInvite" \in Forms /\ Refreshes("addInvite")
    BY FormTables DEF Refreshes, AdminInv, AdminTyped
  <2>2. WritesMine("addInvite", "pending", "done")
    BY <1>3 DEF ServeAddInvite
  <2>. QED BY <2>1, <2>2, AdminServes
<1>4. CASE ServeRevoke
  <2> DEFINE c == click["revoke"]
  <2>1. "revoke" \in Forms /\ Refreshes("revoke")
    BY FormTables DEF Refreshes, AdminInv, AdminTyped
  <2>2. /\ c.at = "sent" \/ c.at = "checked"
        /\ ~c.stale => Revocable(db.invites[c.on])
    BY <1>4 DEF ServeRevoke, AdminInv, FreshIsGranted
  <2>3. CASE c.at = "sent" /\ Revocable(db.invites[c.on])
    <3>1. PICK k : k = [click["revoke"] EXCEPT !.at = "checked", !.stale = FALSE]
      OBVIOUS
    <3>2. c = [at |-> c.at, act |-> c.act, on |-> c.on, stale |-> c.stale] /\ click = [f \in Forms |-> click[f]]
      BY <2>1 DEF AdminInv, AdminTyped
    <3>3. click' = [click EXCEPT !["revoke"].at = "checked", !["revoke"].stale = FALSE]
          /\ UNCHANGED <<db, sheet, unseen, blind>>
      BY <1>4, <2>3 DEF ServeRevoke, adminHistory
    <3>4. k = [at |-> "checked", act |-> c.act, on |-> c.on, stale |-> FALSE]
      BY <3>1, <3>2
    <3>5. click' = [click EXCEPT !["revoke"] = k]
      BY <2>1, <3>1, <3>2, <3>3
    <3>6. /\ k = [at |-> k.at, act |-> k.act, on |-> k.on, stale |-> k.stale]
          /\ k.at = "checked" /\ k.act = c.act /\ k.on = c.on
      BY <3>4
    <3>7. blind' \subseteq Tables /\ c.act # "link"
      BY <2>1, <3>3 DEF AdminInv, AdminTyped
    <3>. QED BY <2>1, <2>3, <3>3, <3>5, <3>6, <3>7, AdminClick
  <2>4. CASE c.at = "sent" /\ ~Revocable(db.invites[c.on])
    <3>1. Ends("revoke", "refused") /\ c.stale
      BY <1>4, <2>2, <2>4 DEF ServeRevoke, Ends
    <3>. QED BY <2>1, <2>4, <3>1, AdminEnds
  <2>5. CASE c.at = "checked"
    <3>1. \/ db.invites[c.on] = "gone" /\ Ends("revoke", "refused")
          \/ WritesMine("revoke", "gone", IF db.invites[c.on] = "used" THEN "erased" ELSE "done")
      BY <1>4, <2>5 DEF ServeRevoke
    <3>2. db.invites[c.on] \in {"gone", "used"} => c.stale
      BY <2>2 DEF Revocable
    <3>3. CASE db.invites[c.on] = "gone" /\ Ends("revoke", "refused")
      BY <2>1, <2>5, <3>2, <3>3, AdminEnds
    <3>4. CASE db.invites[c.on] = "used" /\ WritesMine("revoke", "gone", "erased")
      BY <2>1, <3>2, <3>4, AdminServes
    <3>5. CASE WritesMine("revoke", "gone", "done")
      BY <2>1, <3>5, AdminServes
    <3>. QED BY <3>1, <3>3, <3>4, <3>5
  <2>. QED BY <2>2, <2>3, <2>4, <2>5
<1>. QED BY <1>1, <1>2, <1>3, <1>4

LEMMA AdminElsewhere == ASSUME AdminInv, Elsewhere, UNCHANGED tab PROVE AdminInv'
<1>1. PICK l \in Tables : \E on, value : Writes(l, on, value, <<>>)
  BY DEF Elsewhere, Tables
<1>2. PICK on, value : Writes(l, on, value, <<>>)
  BY <1>1
<1>3. DOMAIN <<>> = {} /\ UNCHANGED <<sheet, unseen>>
  BY DEF Elsewhere
<1>. QED BY <1>2, <1>3, AdminWrite


\* onSuccess: the list is read again, or the click is over without.
LEMMA AdminSucceeds == ASSUME AdminInv, NEW f \in Forms, Succeeds(f), UNCHANGED tab PROVE AdminInv'
<1>. USE DEF AdminInv
<1> DEFINE l == TableOf(f)
<1>1. l \in Tables /\ click[f].at \in {"done", "erased"} /\ UNCHANGED <<db, unseen>>
  BY FormTables DEF Succeeds
<1>2. Unclicked = [at |-> "rest", act |-> "none", on |-> Me, stale |-> FALSE]
  BY DEF Unclicked
<1>3. CASE ~Refreshes(f)
  <2>1. click' = [click EXCEPT ![f] = Unclicked] /\ UNCHANGED <<sheet, blind>>
    BY <1>3 DEF Succeeds
  <2>2. blind' \subseteq Tables
    BY <2>1 DEF AdminTyped
  <2>. HIDE DEF AdminInv
  <2>. QED BY <1>1, <1>2, <1>3, <2>1, <2>2, AdminClick
<1>4. CASE Refreshes(f)
  <2>1. PICK k : /\ click' = [click EXCEPT ![f] = k]
                 /\ k = [at |-> k.at, act |-> "none", on |-> k.on, stale |-> FALSE] /\ k.at \in {"rest", "await"}
    <3>1. PICK k : k = IF f \in {"change", "revoke"} THEN [Unclicked EXCEPT !.at = "await"] ELSE Unclicked
      OBVIOUS
    <3>2. click' = [click EXCEPT ![f] = k]
      BY <1>4, <3>1 DEF Succeeds
    <3>3. k = [at |-> k.at, act |-> "none", on |-> k.on, stale |-> FALSE] /\ k.at \in {"rest", "await"}
      BY <1>2, <3>1
    <3>. QED BY <3>2, <3>3
  <2>2. click'[f] = k /\ (\A g \in Forms \ {f} : click'[g] = click[g]) /\ click' = [g \in Forms |-> click'[g]]
    BY <2>1, OneClick
  <2>3. /\ sheet' = [m \in Tables |-> sheet'[m]]
        /\ \A m \in Tables \ {l} : sheet'[m] = sheet[m]
        /\ sheet'[l] = [rows |-> sheet'[l].rows, loaded |-> sheet'[l].loaded, error |-> sheet'[l].error,
                        fetch |-> sheet'[l].fetch, got |-> sheet'[l].got, new |-> sheet'[l].new]
        /\ sheet'[l].fetch = "sent" \/ (l \in blind' /\ sheet'[l].fetch = "read")
    <3>1. sheet[l] = [rows |-> sheet[l].rows, loaded |-> sheet[l].loaded, error |-> sheet[l].error,
                      fetch |-> sheet[l].fetch, got |-> sheet[l].got, new |-> sheet[l].new]
          /\ sheet[l].fetch \in {"idle", "sent", "read"}
      BY <1>1 DEF AdminTyped
    <3>2. CASE ~sheet[l].loaded /\ sheet[l].fetch # "idle"
      <4>1. UNCHANGED sheet /\ (sheet[l].fetch = "read" => l \in blind')
        BY <1>4, <3>2 DEF Succeeds
      <4>. QED BY <3>1, <3>2, <4>1 DEF AdminTyped
    <3>3. CASE ~(~sheet[l].loaded /\ sheet[l].fetch # "idle")
      <4>1. PICK s : s = Fetching(sheet[l])
        OBVIOUS
      <4>2. sheet' = [sheet EXCEPT ![l] = s]
        BY <1>4, <3>3, <4>1 DEF Succeeds
      <4>3. s = [rows |-> s.rows, loaded |-> s.loaded, error |-> s.error, fetch |-> s.fetch, got |-> s.got, new |-> s.new]
            /\ s.fetch = "sent"
        BY <3>1, <4>1 DEF Fetching
      <4>4. sheet'[l] = s /\ (\A m \in Tables \ {l} : sheet'[m] = sheet[m]) /\ sheet' = [m \in Tables |-> sheet'[m]]
        BY <1>1, <4>2 DEF AdminTyped
      <4>. QED BY <4>3, <4>4
    <3>. QED BY <3>2, <3>3
  <2>4. blind \subseteq blind' /\ blind' \subseteq blind \cup {l}
    BY <1>4 DEF Succeeds
  <2>5. AdminTyped'
    <3>1. \A g \in Forms :
            /\ click'[g] = [at |-> click'[g].at, act |-> click'[g].act, on |-> click'[g].on, stale |-> click'[g].stale]
            /\ g # "change" => click'[g].act # "link"
      BY <2>1, <2>2 DEF AdminTyped
    <3>2. \A m \in Tables :
            /\ sheet'[m] = [rows |-> sheet'[m].rows, loaded |-> sheet'[m].loaded, error |-> sheet'[m].error,
                            fetch |-> sheet'[m].fetch, got |-> sheet'[m].got, new |-> sheet'[m].new]
            /\ sheet'[m].fetch \in {"idle", "sent", "read"}
      BY <2>3 DEF AdminTyped
    <3>3. unseen' \subseteq Tables /\ blind' \subseteq Tables
      BY <1>1, <2>4 DEF AdminTyped
    <3>. QED BY <1>1, <2>2, <2>3, <3>1, <3>2, <3>3 DEF AdminTyped
  <2>6. FreshIsGranted' /\ OnlyStaleGoesWrong'
    <3>1. click'["change"] = click["change"] \/ click'["change"].at \in {"rest", "await"}
      BY <2>1, <2>2 DEF Forms
    <3>2. click'["revoke"] = click["revoke"] \/ click'["revoke"].at \in {"rest", "await"}
      BY <2>1, <2>2 DEF Forms
    <3>. QED BY <1>1, <3>1, <3>2 DEF FreshIsGranted, OnlyStaleGoesWrong, Permits
  <2>7. ChangeFollowed'
    <3>1. ASSUME NEW m \in unseen' \ blind', m # l
          PROVE  \/ sheet'[m].fetch = "sent" \/ (sheet'[m].fetch = "read" /\ sheet'[m].new)
                 \/ \E g \in Forms : TableOf(g) = m /\ click'[g].at \in {"done", "erased"} /\ Refreshes(g)'
      <4>1. m \in unseen \ blind /\ m \in Tables
        BY <1>1, <2>4, <3>1 DEF AdminTyped
      <4>2. \A g \in Forms : TableOf(g) = m => click'[g] = click[g]
        BY <2>2, <3>1
      <4>. QED BY <2>3, <3>1, <4>1, <4>2 DEF ChangeFollowed, Refreshes
    <3>. QED BY <2>3, <3>1 DEF ChangeFollowed
  <2>. QED BY <2>5, <2>6, <2>7
<1>. QED BY <1>3, <1>4

\* Refusals, and calls that fail.
LEMMA AdminRefusals ==
  ASSUME AdminInv, NEW f \in Forms, Barred(f) \/ Errs(f) \/ CallFails(f), UNCHANGED tab
  PROVE  AdminInv'
<1>1. Unclicked = [at |-> "rest", act |-> "none", on |-> Me, stale |-> FALSE]
  BY DEF Unclicked
<1>2. CASE Barred(f)
  BY <1>2, AdminEnds DEF Barred
<1>3. CASE Errs(f)
  <2>1. click[f].at \in {"refused", "barred"} /\ click' = [click EXCEPT ![f] = Unclicked]
        /\ UNCHANGED <<db, sheet, unseen, blind>>
    BY <1>3 DEF Errs, adminHistory
  <2>2. blind' \subseteq Tables
    BY <2>1 DEF AdminInv, AdminTyped
  <2>. QED BY <1>1, <2>1, <2>2, AdminClick
<1>4. CASE CallFails(f)
  <2>1. click' = [click EXCEPT ![f] = Unclicked] /\ UNCHANGED <<db, sheet, unseen>>
    BY <1>4 DEF CallFails
  <2>2. /\ blind' = blind \/ blind' = blind \cup {TableOf(f)}
        /\ click[f].at \in {"done", "erased"} => TableOf(f) \in blind'
    BY <1>4 DEF CallFails, AtServer
  <2>3. blind \subseteq blind' /\ blind' \subseteq Tables
    BY <2>2, FormTables DEF AdminInv, AdminTyped
  <2>. QED BY <1>1, <2>1, <2>2, <2>3, AdminClick
<1>. QED BY <1>2, <1>3, <1>4

LEMMA AdminFirst == Init => AdminInv
<1>. SUFFICES ASSUME AdminInit PROVE AdminInv
  BY DEF Init
<1>1. unseen = {} /\ \A f \in Forms : click[f].at = "rest"
  BY DEF AdminInit, Unclicked
<1>. QED BY <1>1, AdminTypedFirst, FormTables DEF AdminInv, FreshIsGranted, OnlyStaleGoesWrong, ChangeFollowed

LEMMA AdminInductive == AdminInv /\ [Next]_vars => AdminInv'
<1>1. ASSUME AdminInv, AdminNext PROVE AdminInv'
  BY <1>1, AdminFetches, AdminPresses, AdminServer, AdminElsewhere, AdminSucceeds, AdminRefusals DEF AdminNext
<1>2. ASSUME AdminInv, UNCHANGED adminVars PROVE AdminInv'
  <2>1. UNCHANGED <<tab, db, sheet, click, unseen, blind>>
    BY <1>2 DEF adminVars, adminHistory
  <2>. QED BY <1>2, <2>1 DEF AdminInv, AdminTyped, FreshIsGranted, OnlyStaleGoesWrong, ChangeFollowed, Permits, Refreshes
<1>. QED BY <1>1, <1>2, AdminMoves

\* "The friendly half of that pair" (Users.tsx: isLastAdmin, admin.ts: assertNotLastAdmin):
\* a button that can be pressed is refused, or deletes a redeemed invite, only if the list
\* changed since the page read it.
THEOREM ButtonsAreGranted == Spec => []OnlyStaleGoesWrong
<1>1. AdminInv => OnlyStaleGoesWrong
  BY DEF AdminInv
<1>. QED BY AdminFirst, AdminInductive, <1>1, PTL DEF Spec

\* invalidateQueries in every onSuccess: the list of a page shows what was changed from
\* it, or is being read, or a call is under way, unless an answer was lost or came at the
\* first reading.
THEOREM ChangesAreShown == Spec => []OwnChangeShown
<1>1. AdminInv => OwnChangeShown
  <2>. SUFFICES ASSUME AdminInv, NEW l \in unseen, l \notin blind
                PROVE  sheet[l].fetch # "idle" \/ \E f \in Forms : TableOf(f) = l /\ click[f].at # "rest"
    BY DEF OwnChangeShown
  <2>. QED BY DEF AdminInv, ChangeFollowed
<1>. QED BY AdminFirst, AdminInductive, <1>1, PTL DEF Spec


-----------------------------------------------------------------------------
(* The session of the browser.                                             *)

\* A step of the site is a step of the browser's session or leaves it alone.
LEMMA SessionMoves == [Next]_vars => SessionNext \/ UNCHANGED sessionVars
  BY DEF Next, vars

Formed(w) == w = [at |-> w.at, cookie |-> w.cookie, as |-> w.as, late |-> w.late,
                  says |-> w.says, whom |-> w.whom, puts |-> w.puts] /\ w.late \in BOOLEAN

SessionTyped ==
    /\ holder = [s \in Tokens |-> holder[s]] /\ issued \in Nat
    /\ screen = [route |-> screen.route, user |-> screen.user, loading |-> screen.loading]
    /\ wait = [c \in Web |-> wait[c]]
    /\ \A c \in Web : Formed(wait[c]) /\ wait[c].at \in {"rest", "sent", "evicted", "over"}
    /\ \A c \in Web : wait[c].at = "evicted" => c \in {"reset", "password", "others"}
    /\ \A c \in Web \ Changing : wait[c].puts = Keep
    /\ ~wait["me"].late /\ mixed \in BOOLEAN /\ lost \in BOOLEAN

\* A call that changes the session has no other beside it, but for a new name, and
\* its page waits for it.
ChangesAlone ==
    ~mixed => \A c \in Changing : wait[c].at # "rest" =>
      /\ \A d \in Web \ {c, "profile"} : wait[d].at = "rest"
      /\ ~wait[c].late

Unchanged(w) == w.at = "over" /\ w.says \in {"refused", "failed"}

\* What a call that reads the session was told, or will be.
ReadTold(c) ==
    ~wait[c].late =>
      /\ wait[c].at = "sent" => wait[c].cookie = jar
      /\ wait[c].at = "over" =>
           \/ wait[c].says = "ok" /\ wait[c].whom = HolderOf(jar)
           \/ wait[c].says = "refused" /\ HolderOf(jar) = NoOne
           \/ wait[c].says = "failed" /\ c = "refresh"

\* What a call that changes the session has done, or will do.
ChangeTold(c) ==
    /\ wait[c].at = "sent" =>
         wait[c].cookie = jar /\ wait[c].puts = Keep /\ (c \in Issuing => issued < MaxSessions)
    /\ wait[c].at = "evicted" =>
         issued < MaxSessions /\ (c # "reset" => screen.user = wait[c].as)
    /\ wait[c].at = "over" =>
         \/ Unchanged(wait[c]) /\ wait[c].puts = Keep /\ c # "logout"
         \/ wait[c].says = "ok" /\ c = "logout" /\ wait[c].puts = 0
         \/ /\ wait[c].says = "ok" /\ c \in Issuing
            /\ wait[c].puts \in Tokens /\ holder[wait[c].puts] = wait[c].whom
            /\ c \in {"password", "others"} => screen.user = wait[c].whom

ReadsHolder == \A c \in {"me", "refresh"} : ReadTold(c)
ChangesHolder == \A c \in Changing : ChangeTold(c)

\* Unless the page is loading, or a change was made whose answer it has not seen, it
\* shows who is signed in.
ShowsHolder ==
    wait["me"].at = "rest" /\ (\A c \in Changing : wait[c].at \in {"rest", "sent"} \/ Unchanged(wait[c]))
      => screen.user = HolderOf(jar)

Told == ReadsHolder /\ ChangesHolder /\ ShowsHolder

SessionInv == SessionTyped /\ ChangesAlone /\ (~mixed /\ ~lost => Told)

LEMMA WebCalls ==
  /\ Web = {"login", "redeem", "reset", "password", "others", "logout", "me", "refresh", "profile"}
  /\ Issuing = {"login", "redeem", "reset", "password", "others"}
  /\ Changing = {"login", "redeem", "reset", "password", "others", "logout"}
  /\ Web \ Changing = {"me", "refresh", "profile"}
  /\ Tokens = 1..MaxSessions /\ Keep = MaxSessions + 1 /\ MaxSessions \in Nat /\ Keep \notin Tokens
  /\ 0 \notin Tokens /\ 0 # Keep
  BY SessionAssumption DEF Web, Issuing, Changing, Tokens, Keep

\* A call that is not under way, and one that is sent.
LEMMA SentCall ==
  /\ Unsent.at = "rest" /\ Unsent.puts = Keep /\ ~Unsent.late /\ Formed(Unsent)
  /\ \A p : /\ SentBy(p).at = "sent" /\ SentBy(p).cookie = jar /\ SentBy(p).puts = Keep
            /\ ~SentBy(p).late /\ Formed(SentBy(p))
<1>1. Unsent.at = "rest" /\ Unsent.puts = Keep /\ ~Unsent.late /\ Formed(Unsent)
  BY DEF Unsent, Formed
<1>2. ASSUME NEW p
      PROVE  /\ SentBy(p).at = "sent" /\ SentBy(p).cookie = jar /\ SentBy(p).puts = Keep
             /\ ~SentBy(p).late /\ Formed(SentBy(p))
  <2>1. PICK w : w = SentBy(p)
    OBVIOUS
  <2>2. w = [Unsent EXCEPT !.at = "sent", !.cookie = jar, !.as = p]
    BY <2>1 DEF SentBy
  <2>3. w.at = "sent" /\ w.cookie = jar /\ w.puts = Keep /\ ~w.late /\ Formed(w)
    BY <2>2 DEF Unsent, Formed
  <2>. QED BY <2>1, <2>3
<1>. QED BY <1>1, <1>2

\* The router leaves the user alone.
LEMMA RoutedUser ==
  ASSUME NEW s, s = [route |-> s.route, user |-> s.user, loading |-> s.loading]
  PROVE  /\ Routed(s).user = s.user
         /\ Routed(s) = [route |-> Routed(s).route, user |-> Routed(s).user, loading |-> Routed(s).loading]
  BY DEF Routed

\* A call of which some fields change has the others.
LEMMA ChangedCall ==
  ASSUME NEW w, Formed(w)
  PROVE  /\ \E v : /\ v = [w EXCEPT !.late = TRUE] /\ v.at = w.at /\ v.puts = w.puts
                   /\ v.late = TRUE /\ Formed(v)
         /\ \A p : \E v : /\ v = [w EXCEPT !.at = "evicted", !.as = p, !.cookie = 0]
                         /\ v.at = "evicted" /\ v.as = p /\ v.late = w.late /\ Formed(v)
<1>1. PICK at, cookie, as, late, says, whom, puts :
        w = [at |-> at, cookie |-> cookie, as |-> as, late |-> late, says |-> says, whom |-> whom, puts |-> puts]
  BY DEF Formed
<1>2. w.late \in BOOLEAN /\ w.late = late
  BY <1>1 DEF Formed
<1>3. \E v : /\ v = [w EXCEPT !.late = TRUE] /\ v.at = w.at /\ v.puts = w.puts
            /\ v.late = TRUE /\ Formed(v)
  <2>1. PICK v : v = [w EXCEPT !.late = TRUE]
    OBVIOUS
  <2>2. v = [at |-> at, cookie |-> cookie, as |-> as, late |-> TRUE, says |-> says, whom |-> whom, puts |-> puts]
    BY <1>1, <2>1
  <2>3. v.at = w.at /\ v.puts = w.puts /\ v.late = TRUE
    BY <1>1, <2>2
  <2>4. Formed(v)
    BY <2>2 DEF Formed
  <2>. QED BY <2>1, <2>3, <2>4
<1>4. ASSUME NEW p
      PROVE  \E v : /\ v = [w EXCEPT !.at = "evicted", !.as = p, !.cookie = 0]
                   /\ v.at = "evicted" /\ v.as = p /\ v.late = w.late /\ Formed(v)
  <2>1. PICK v : v = [w EXCEPT !.at = "evicted", !.as = p, !.cookie = 0]
    OBVIOUS
  <2>2. v = [at |-> "evicted", cookie |-> 0, as |-> p, late |-> late, says |-> says, whom |-> whom, puts |-> puts]
    BY <1>1, <2>1
  <2>3. v.at = "evicted" /\ v.as = p /\ v.late = w.late
    BY <1>1, <2>2
  <2>4. Formed(v)
    BY <1>2, <2>2 DEF Formed
  <2>. QED BY <2>1, <2>3, <2>4
<1>. QED BY <1>3, <1>4

LEMMA OneCall ==
  ASSUME SessionTyped, NEW c \in Web, NEW w, wait' = [wait EXCEPT ![c] = w]
  PROVE  wait'[c] = w /\ (\A d \in Web \ {c} : wait'[d] = wait[d]) /\ wait' = [d \in Web |-> wait'[d]]
  BY DEF SessionTyped

LEMMA SaidCall ==
  ASSUME SessionTyped, NEW c \in Web, NEW says, NEW whom, NEW puts, Says(c, says, whom, puts)
  PROVE  /\ Formed(wait'[c]) /\ wait'[c].at = "over" /\ wait'[c].late = wait[c].late
         /\ wait'[c].says = says /\ wait'[c].whom = whom /\ wait'[c].puts = puts
         /\ \A d \in Web \ {c} : wait'[d] = wait[d]
         /\ wait' = [d \in Web |-> wait'[d]]
<1>1. PICK w : w = [Unsent EXCEPT !.at = "over", !.late = wait[c].late, !.says = says, !.whom = whom, !.puts = puts]
  OBVIOUS
<1>2. wait[c].late \in BOOLEAN
  BY DEF SessionTyped, Formed
<1>3. /\ Formed(w) /\ w.at = "over" /\ w.late = wait[c].late
      /\ w.says = says /\ w.whom = whom /\ w.puts = puts
  BY <1>1, <1>2 DEF Unsent, Formed
<1>4. wait' = [wait EXCEPT ![c] = w]
  BY <1>1 DEF Says
<1>. QED BY <1>3, <1>4, OneCall

LEMMA SessionFirst == Init => SessionInv
<1>. SUFFICES ASSUME SessionInit PROVE SessionInv
  BY DEF Init
<1>1. /\ wait = [c \in Web |-> wait[c]] /\ issued = 1 /\ mixed = FALSE /\ lost = FALSE
      /\ holder = [s \in Tokens |-> holder[s]]
      /\ screen = [route |-> screen.route, user |-> screen.user, loading |-> screen.loading]
  BY DEF SessionInit
<1>2. /\ \A c \in Web \ {"me"} : wait[c] = Unsent
      /\ Formed(wait["me"]) /\ wait["me"].at = "sent" /\ wait["me"].cookie = jar
      /\ wait["me"].puts = Keep /\ ~wait["me"].late
  <2>1. PICK w : w = [Unsent EXCEPT !.at = "sent", !.cookie = jar]
    OBVIOUS
  <2>2. Formed(w) /\ w.at = "sent" /\ w.cookie = jar /\ w.puts = Keep /\ ~w.late
    BY <2>1 DEF Unsent, Formed
  <2>3. wait = [c \in Web |-> IF c = "me" THEN w ELSE Unsent]
    BY <2>1 DEF SessionInit
  <2>4. "me" \in Web
    BY WebCalls
  <2>. QED BY <2>2, <2>3, <2>4
<1>3. SessionTyped
  BY <1>1, <1>2, SentCall, WebCalls DEF SessionTyped
<1>4. ChangesAlone
  BY <1>2, SentCall, WebCalls DEF ChangesAlone
<1>5. Told
  BY <1>2, SentCall, WebCalls DEF Told, ReadsHolder, ReadTold, ChangesHolder, ChangeTold, ShowsHolder
<1>. QED BY <1>3, <1>4, <1>5 DEF SessionInv

\* A form is sent.
LEMMA SessionSends ==
  ASSUME SessionInv, NEW c \in Changing \cup {"profile"}, NEW p, SendWeb(c, p)
  PROVE  SessionInv'
<1>. USE DEF SessionInv
<1>1. /\ MaySend(c) /\ wait' = [wait EXCEPT ![c] = SentBy(p)] /\ mixed' = (mixed \/ Mixes(c))
      /\ UNCHANGED <<holder, issued, jar, screen, lost>>
  BY DEF SendWeb, rowsOfSession
<1>2. c \in Web \ {"me", "refresh"} /\ wait[c].at = "rest"
  BY <1>1, WebCalls DEF MaySend
<1>3. wait'[c] = SentBy(p) /\ (\A d \in Web \ {c} : wait'[d] = wait[d]) /\ wait' = [d \in Web |-> wait'[d]]
  BY <1>1, <1>2, OneCall
<1>4. SessionTyped'
  <2>1. \A d \in Web :
          /\ Formed(wait'[d]) /\ wait'[d].at \in {"rest", "sent", "evicted", "over"}
          /\ wait'[d].at = "evicted" => d \in {"reset", "password", "others"}
          /\ d \notin Changing => wait'[d].puts = Keep
    BY <1>3, SentCall DEF SessionTyped
  <2>2. ~wait'["me"].late
    BY <1>2, <1>3, WebCalls DEF SessionTyped
  <2>3. screen' = [route |-> screen'.route, user |-> screen'.user, loading |-> screen'.loading]
    <3>1. UNCHANGED screen
      BY <1>1
    <3>. QED BY <3>1 DEF SessionTyped
  <2>4. mixed' \in BOOLEAN /\ lost' \in BOOLEAN /\ issued' \in Nat /\ holder' = [s \in Tokens |-> holder'[s]]
    BY <1>1 DEF SessionTyped
  <2>. QED BY <1>3, <2>1, <2>2, <2>3, <2>4 DEF SessionTyped
<1>5. ~mixed' => ~mixed /\ \A d \in Web \ {c, "profile"} :
                    wait[d].at # "rest" /\ (c \in Changing \/ d \in Changing) => c = "profile"
  BY <1>1 DEF Mixes, UnderWay, SessionTyped
<1>6. ChangesAlone'
  <2>. SUFFICES ASSUME ~mixed', NEW a \in Changing, wait'[a].at # "rest"
                PROVE  (\A d \in Web \ {a, "profile"} : wait'[d].at = "rest") /\ ~wait'[a].late
    BY DEF ChangesAlone
  <2>1. CASE a = c
    BY <1>3, <1>5, <2>1, SentCall, WebCalls
  <2>2. CASE a # c
    <3>1. wait'[a] = wait[a]
      BY <1>3, <2>2, WebCalls
    <3>2. (\A d \in Web \ {a, "profile"} : wait[d].at = "rest") /\ ~wait[a].late
      BY <1>5, <3>1 DEF ChangesAlone
    <3>3. c = "profile"
      BY <1>2, <1>5, <2>2, <3>1, WebCalls
    <3>. QED BY <1>3, <3>1, <3>2, <3>3
  <2>. QED BY <2>1, <2>2
<1>7. ASSUME ~mixed', ~lost' PROVE Told'
  <2>1. Told
    BY <1>1, <1>5, <1>7
  <2>2. \A s : HolderOf(s)' = HolderOf(s)
    BY <1>1 DEF HolderOf
  <2>3. ReadsHolder'
    <3>1. wait'["me"] = wait["me"] /\ wait'["refresh"] = wait["refresh"]
      BY <1>2, <1>3, WebCalls
    <3>. QED BY <1>1, <2>1, <3>1 DEF Told, ReadsHolder, ReadTold, HolderOf
  <2>4. c \in Issuing => issued < MaxSessions
    <3>1. IsFiniteSet(UnderWay \cap Issuing)
      <4>1. IsFiniteSet({"login"} \cup {"redeem"} \cup {"reset"} \cup {"password"} \cup {"others"})
        BY FS_Singleton, FS_Union
      <4>. QED BY <4>1, WebCalls, FS_Subset
    <3>2. Cardinality(UnderWay \cap Issuing) \in Nat
      BY <3>1, FS_CardinalityType
    <3>. QED BY <1>1, <3>2, WebCalls DEF MaySend, SessionTyped
  <2>5. ChangesHolder'
    <3>. SUFFICES ASSUME NEW a \in Changing, a # c
                  PROVE  wait'[a] = wait[a]
      BY <1>1, <1>3, <2>1, <2>4, SentCall DEF Told, ChangesHolder, ChangeTold, Unchanged
    <3>. QED BY <1>3, WebCalls
  <2>6. ShowsHolder'
    BY <1>1, <1>2, <1>3, <2>1, WebCalls DEF Told, ShowsHolder, Unchanged, HolderOf
  <2>. QED BY <2>3, <2>5, <2>6 DEF Told
<1>. QED BY <1>4, <1>6, <1>7


\* Nothing but the route changes.
LEMMA SessionFollows == ASSUME SessionInv, FollowLink PROVE SessionInv'
<1>. USE DEF SessionInv
<1>1. UNCHANGED <<holder, issued, jar, wait, mixed, lost>>
  BY DEF FollowLink, rowsOfSession
<1>2. /\ screen'.user = screen.user
      /\ screen' = [route |-> screen'.route, user |-> screen'.user, loading |-> screen'.loading]
  <2>0. PICK link \in {<<"invite", "login">>, <<"reset", "login">>, <<"login", "invite">>} :
           screen' = Routed([screen EXCEPT !.route = link[2]])
    BY DEF FollowLink
  <2>1. PICK s : s = [screen EXCEPT !.route = link[2]] /\ screen' = Routed(s)
    BY <2>0
  <2>2. s = [route |-> s.route, user |-> s.user, loading |-> s.loading] /\ s.user = screen.user
    BY <2>1 DEF SessionTyped
  <2>. QED BY <2>1, <2>2, RoutedUser
<1>3. SessionTyped' /\ ChangesAlone'
  BY <1>1, <1>2 DEF SessionTyped, ChangesAlone, Formed
<1>4. Told => Told'
  BY <1>1, <1>2 DEF Told, ReadsHolder, ReadTold, ChangesHolder, ChangeTold, ShowsHolder, Unchanged, HolderOf
<1>. QED BY <1>1, <1>3, <1>4

LEMMA SessionLoads == ASSUME SessionInv, Load PROVE SessionInv'
<1>. USE DEF SessionInv
<1>1. /\ UNCHANGED <<holder, issued, jar>> /\ lost' = FALSE
      /\ mixed' = (UnderWay \cap Changing # {}) /\ wait["me"].at = "rest"
      /\ \E r \in Routes : screen' = [route |-> r, user |-> NoOne, loading |-> TRUE]
      /\ wait' = [c \in Web |-> IF c = "me" THEN SentBy(NoOne)
                                ELSE IF c \in UnderWay THEN [wait[c] EXCEPT !.late = TRUE] ELSE Unsent]
  BY DEF Load, rowsOfSession
<1>2. /\ wait'["me"] = SentBy(NoOne)
      /\ \A c \in Web \ {"me"} :
           /\ wait[c].at = "rest" => wait'[c] = Unsent
           /\ wait[c].at # "rest" => /\ wait'[c].late /\ Formed(wait'[c])
                                     /\ wait'[c].at = wait[c].at /\ wait'[c].puts = wait[c].puts
  <2>1. ASSUME NEW c \in Web \ {"me"}, wait[c].at # "rest"
        PROVE  wait'[c].late /\ Formed(wait'[c]) /\ wait'[c].at = wait[c].at /\ wait'[c].puts = wait[c].puts
    <3>1. PICK w : /\ w = [wait[c] EXCEPT !.late = TRUE]
                   /\ w.late = TRUE /\ Formed(w) /\ w.at = wait[c].at /\ w.puts = wait[c].puts
      BY ChangedCall DEF SessionTyped
    <3>3. wait'[c] = w
      BY <1>1, <2>1, <3>1 DEF UnderWay
    <3>. QED BY <3>1, <3>3
  <2>. QED BY <1>1, <2>1, WebCalls DEF UnderWay
<1>3. SessionTyped'
  <2>1. \A d \in Web :
          /\ Formed(wait'[d]) /\ wait'[d].at \in {"rest", "sent", "evicted", "over"}
          /\ wait'[d].at = "evicted" => d \in {"reset", "password", "others"}
          /\ d \notin Changing => wait'[d].puts = Keep
    BY <1>2, SentCall DEF SessionTyped
  <2>2. wait' = [d \in Web |-> wait'[d]] /\ mixed' \in BOOLEAN /\ lost' \in BOOLEAN
    BY <1>1
  <2>3. screen' = [route |-> screen'.route, user |-> screen'.user, loading |-> screen'.loading]
    BY <1>1
  <2>. QED BY <1>1, <1>2, <2>1, <2>2, <2>3, SentCall DEF SessionTyped
<1>4. ~mixed' => \A c \in Changing : wait[c].at = "rest" /\ wait'[c] = Unsent
  BY <1>1, <1>2, WebCalls DEF UnderWay
<1>5. ChangesAlone'
  BY <1>4, SentCall DEF ChangesAlone
<1>6. ~mixed' => Told'
  BY <1>1, <1>2, <1>4, SentCall, WebCalls DEF Told, ReadsHolder, ReadTold, ChangesHolder, ChangeTold, ShowsHolder
<1>. QED BY <1>3, <1>5, <1>6

LEMMA SessionElsewhere == ASSUME SessionInv, EndElsewhere PROVE SessionInv'
<1>1. /\ UNCHANGED <<issued, jar, screen, wait, mixed>> /\ lost' = TRUE
      /\ holder' = [s \in Tokens |-> holder'[s]]
  BY DEF EndElsewhere, Ended
<1>. QED BY <1>1 DEF SessionInv, SessionTyped, ChangesAlone, Formed

\* The server, or a failure, answers a call or does a part of it.
LEMMA SessionServed ==
  ASSUME SessionInv, NEW c \in Web, wait[c].at # "rest", UNCHANGED <<jar, screen, mixed>>,
         lost' \in BOOLEAN, lost => lost', issued' \in Nat, holder' = [s \in Tokens |-> holder'[s]],
         wait' = [d \in Web |-> wait'[d]], \A d \in Web \ {c} : wait'[d] = wait[d],
         Formed(wait'[c]), wait'[c].late = wait[c].late, wait'[c].at \in {"evicted", "over"},
         wait'[c].at = "evicted" => c \in {"reset", "password", "others"},
         c \notin Changing => UNCHANGED <<holder, issued>> /\ wait'[c].puts = Keep,
         ~mixed /\ ~lost' /\ c \in {"me", "refresh"} => ReadTold(c)',
         ~mixed /\ ~lost' /\ c \in Changing =>
           /\ ChangeTold(c)'
           /\ Unchanged(wait'[c]) => wait[c].at = "sent" /\ UNCHANGED holder
  PROVE  SessionInv'
<1>. USE DEF SessionInv
<1>1. SessionTyped'
  <2>1. \A d \in Web :
          /\ Formed(wait'[d]) /\ wait'[d].at \in {"rest", "sent", "evicted", "over"}
          /\ wait'[d].at = "evicted" => d \in {"reset", "password", "others"}
          /\ d \notin Changing => wait'[d].puts = Keep
    BY DEF SessionTyped
  <2>2. ~wait'["me"].late /\ mixed' \in BOOLEAN
    BY WebCalls DEF SessionTyped
  <2>3. screen' = [route |-> screen'.route, user |-> screen'.user, loading |-> screen'.loading]
    BY DEF SessionTyped
  <2>. QED BY <2>1, <2>2, <2>3 DEF SessionTyped
<1>2. \A d \in Web : wait'[d].at = "rest" <=> wait[d].at = "rest"
  OBVIOUS
<1>3. \A d \in Web : wait'[d].late = wait[d].late
  OBVIOUS
<1>4. ChangesAlone'
  BY <1>2, <1>3, WebCalls DEF ChangesAlone
<1>5. ASSUME ~mixed', ~lost' PROVE Told'
  <2>1. Told /\ ~mixed /\ ~lost
    BY <1>5 DEF SessionTyped
  <2>2. c \in Changing => \A d \in Web \ {c, "profile"} : wait[d].at = "rest"
    BY <2>1 DEF ChangesAlone
  <2>3. c \notin Changing => \A s : HolderOf(s)' = HolderOf(s)
    BY DEF HolderOf
  <2>4. ReadsHolder'
    <3>. SUFFICES ASSUME NEW d \in {"me", "refresh"}, d # c PROVE ReadTold(d)'
      BY <1>5, <2>1 DEF ReadsHolder
    <3>1. wait'[d] = wait[d] /\ UNCHANGED jar
      BY WebCalls
    <3>2. CASE c \in Changing
      BY <2>2, <3>1, <3>2, WebCalls DEF ReadTold
    <3>3. CASE c \notin Changing
      BY <2>1, <2>3, <3>1, <3>3 DEF Told, ReadsHolder, ReadTold
    <3>. QED BY <3>2, <3>3
  <2>5. ChangesHolder'
    <3>. SUFFICES ASSUME NEW d \in Changing, d # c PROVE ChangeTold(d)'
      BY <1>5, <2>1 DEF ChangesHolder
    <3>1. wait'[d] = wait[d] /\ UNCHANGED <<jar, screen>>
      BY WebCalls
    <3>2. CASE c \in Changing
      BY <2>2, <3>1, <3>2, WebCalls DEF ChangeTold
    <3>3. CASE c \notin Changing
      <4>1. UNCHANGED <<holder, issued>> /\ ChangeTold(d)
        BY <2>1, <3>3 DEF Told, ChangesHolder
      <4>. QED BY <3>1, <4>1 DEF ChangeTold, Unchanged
    <3>. QED BY <3>2, <3>3
  <2>6. ShowsHolder'
    <3>. SUFFICES ASSUME wait'["me"].at = "rest",
                         \A a \in Changing : wait'[a].at \in {"rest", "sent"} \/ Unchanged(wait'[a])
                  PROVE  screen'.user = HolderOf(jar)'
      BY DEF ShowsHolder, Unchanged
    <3>1. wait["me"].at = "rest"
      BY <1>2, WebCalls
    <3>2. ASSUME NEW a \in Changing PROVE wait[a].at \in {"rest", "sent"} \/ Unchanged(wait[a])
      <4>1. CASE a = c
        BY <2>1, <1>5, <4>1
      <4>2. CASE a # c
        <5>1. wait'[a] = wait[a]
          BY <4>2, WebCalls
        <5>. QED BY <5>1
      <4>. QED BY <4>1, <4>2
    <3>3. UNCHANGED holder
      BY <1>5, <2>1
    <3>4. screen.user = HolderOf(jar)
      BY <2>1, <3>1, <3>2 DEF Told, ShowsHolder
    <3>. QED BY <3>3, <3>4 DEF HolderOf
  <2>. QED BY <2>4, <2>5, <2>6 DEF Told
<1>. QED BY <1>1, <1>4, <1>5


\* issueSession, for a call c whose account is p.
LEMMA IssuedTo ==
  ASSUME SessionInv, NEW c \in Issuing, NEW p, IssueTo(c, p), UNCHANGED <<jar, screen, lost, mixed>>,
         wait[c].at # "rest",
         ~mixed /\ ~lost => issued < MaxSessions /\ (c \in {"password", "others"} => screen.user = p)
  PROVE  SessionInv'
<1>1. /\ issued' = issued + 1 /\ holder' = [holder EXCEPT ![issued + 1] = p]
      /\ Says(c, "ok", p, issued + 1)
  BY DEF IssueTo
<1>2. c \in Web /\ c \in Changing
  BY WebCalls
<1>3. /\ Formed(wait'[c]) /\ wait'[c].at = "over" /\ wait'[c].late = wait[c].late
      /\ wait'[c].says = "ok" /\ wait'[c].whom = p /\ wait'[c].puts = issued + 1
      /\ \A d \in Web \ {c} : wait'[d] = wait[d]
      /\ wait' = [d \in Web |-> wait'[d]]
  BY <1>1, <1>2, SaidCall DEF SessionInv
<1>4. issued' \in Nat /\ holder' = [s \in Tokens |-> holder'[s]] /\ lost' \in BOOLEAN
  BY <1>1 DEF SessionInv, SessionTyped
<1>5. ~Unchanged(wait'[c])
  BY <1>3 DEF Unchanged
<1>6. ASSUME ~mixed, ~lost PROVE ChangeTold(c)'
  <2>1. issued + 1 \in Tokens
    <3>1. issued < MaxSessions /\ issued \in Nat
      BY <1>6 DEF SessionInv, SessionTyped
    <3>. QED BY <3>1, WebCalls
  <2>2. holder'[issued + 1] = p
    BY <1>1, <2>1 DEF SessionInv, SessionTyped
  <2>3. c \in {"password", "others"} => screen'.user = p
    BY <1>6
  <2>. QED BY <1>3, <2>1, <2>2, <2>3 DEF ChangeTold
<1>. QED BY <1>2, <1>3, <1>4, <1>5, <1>6, WebCalls, SessionServed

\* A call is refused, or reads who is signed in.
LEMMA SessionReads ==
  ASSUME SessionInv, NEW c \in Web, UNCHANGED <<jar, screen, lost, mixed>>, wait[c].at = "sent",
         \/ Refused(c) /\ c \in Issuing
         \/ ServeSigned(c) /\ c \notin Changing
  PROVE  SessionInv'
<1>1. PICK says, whom :
        /\ Says(c, says, whom, Keep) /\ says \in {"ok", "refused"}
        /\ says = "ok" => whom = HolderOf(wait[c].cookie) /\ c \notin Changing
        /\ says = "refused" => HolderOf(wait[c].cookie) = NoOne \/ c \in Issuing
  BY DEF Refused, ServeSigned, Who
<1>2. UNCHANGED <<holder, issued>>
  BY DEF Refused, ServeSigned, rowsOfSession
<1>3. /\ Formed(wait'[c]) /\ wait'[c].at = "over" /\ wait'[c].late = wait[c].late
      /\ wait'[c].says = says /\ wait'[c].whom = whom /\ wait'[c].puts = Keep
      /\ \A d \in Web \ {c} : wait'[d] = wait[d]
      /\ wait' = [d \in Web |-> wait'[d]]
  BY <1>1, SaidCall DEF SessionInv
<1>4. issued' \in Nat /\ holder' = [s \in Tokens |-> holder'[s]] /\ lost' \in BOOLEAN
  BY <1>2 DEF SessionInv, SessionTyped
<1>5. ASSUME ~mixed, ~lost, c \in {"me", "refresh"} PROVE ReadTold(c)'
  <2>1. ReadTold(c)
    BY <1>5 DEF SessionInv, Told, ReadsHolder
  <2>2. c \notin Issuing /\ HolderOf(jar)' = HolderOf(jar)
    BY <1>2, <1>5, WebCalls DEF HolderOf
  <2>3. ~wait[c].late => wait[c].cookie = jar
    BY <2>1 DEF ReadTold
  <2>. QED BY <1>1, <1>3, <2>2, <2>3 DEF ReadTold
<1>6. c \in Changing => ChangeTold(c)'
  BY <1>1, <1>3, WebCalls DEF ChangeTold, Unchanged
<1>. QED BY <1>2, <1>3, <1>4, <1>5, <1>6, WebCalls, SessionServed

\* The sessions of an account end; one for this browser follows.
LEMMA SessionEvicts ==
  ASSUME SessionInv, NEW c \in {"reset", "password", "others"}, wait[c].at = "sent",
         ServeEviction(c), UNCHANGED <<jar, screen, lost, mixed>>
  PROVE  SessionInv'
<1>1. c \in Issuing /\ c \in Web /\ c \in Changing
  BY WebCalls
<1>2. CASE Refused(c)
  BY <1>1, <1>2, SessionReads
<1>3. CASE ~Refused(c)
  <2> DEFINE p == IF c = "reset" THEN wait[c].as ELSE Who(c)
  <2>1. /\ holder' = Ended(p) /\ UNCHANGED issued
        /\ wait' = [wait EXCEPT ![c].at = "evicted", ![c].as = p, ![c].cookie = 0]
    BY <1>3 DEF ServeEviction
  <2>. HIDE DEF p
  <2>2. PICK w : /\ w = [wait[c] EXCEPT !.at = "evicted", !.as = p, !.cookie = 0]
                 /\ w.at = "evicted" /\ w.as = p /\ w.late = wait[c].late /\ Formed(w)
    <3>1. Formed(wait[c])
      BY <1>1 DEF SessionInv, SessionTyped
    <3>2. \A q : \E v : /\ v = [wait[c] EXCEPT !.at = "evicted", !.as = q, !.cookie = 0]
                      /\ v.at = "evicted" /\ v.as = q /\ v.late = wait[c].late /\ Formed(v)
      BY <3>1, ChangedCall
    <3>. QED BY <3>2
  <2>3. wait' = [wait EXCEPT ![c] = w]
    <3>1. wait = [d \in Web |-> wait[d]]
      BY DEF SessionInv, SessionTyped
    <3>. QED BY <1>1, <2>1, <2>2, <3>1
  <2>5. wait'[c] = w /\ (\A d \in Web \ {c} : wait'[d] = wait[d]) /\ wait' = [d \in Web |-> wait'[d]]
    BY <1>1, <2>3, OneCall DEF SessionInv
  <2>6. issued' \in Nat /\ holder' = [s \in Tokens |-> holder'[s]] /\ lost' \in BOOLEAN
    BY <2>1 DEF SessionInv, SessionTyped, Ended
  <2>7. ~Unchanged(wait'[c])
    BY <2>2, <2>5 DEF Unchanged
  <2>8. ASSUME ~mixed, ~lost PROVE ChangeTold(c)'
    <3>1. wait[c].cookie = jar /\ issued < MaxSessions
      BY <1>1, <2>8 DEF SessionInv, Told, ChangesHolder, ChangeTold
    <3>2. \A d \in Web \ {c, "profile"} : wait[d].at = "rest"
      BY <1>1, <2>8 DEF SessionInv, ChangesAlone
    <3>3. screen.user = HolderOf(jar)
      BY <2>8, <3>2, WebCalls DEF SessionInv, Told, ShowsHolder
    <3>4. c # "reset" => p = HolderOf(jar)
      BY <3>1 DEF p, Who
    <3>. QED BY <2>1, <2>2, <2>5, <3>1, <3>3, <3>4 DEF ChangeTold
  <2>. QED BY <1>1, <2>2, <2>5, <2>6, <2>7, <2>8, WebCalls, SessionServed
<1>. QED BY <1>2, <1>3

LEMMA SessionLogsOut ==
  ASSUME SessionInv, ServeLogout, wait["logout"].at = "sent", UNCHANGED <<jar, screen, lost, mixed>>
  PROVE  SessionInv'
<1>1. Says("logout", "ok", NoOne, 0) /\ UNCHANGED issued /\ "logout" \in Web /\ "logout" \in Changing
      /\ "logout" \notin Issuing
  BY WebCalls DEF ServeLogout
<1>2. /\ Formed(wait'["logout"]) /\ wait'["logout"].at = "over" /\ wait'["logout"].late = wait["logout"].late
      /\ wait'["logout"].says = "ok" /\ wait'["logout"].whom = NoOne /\ wait'["logout"].puts = 0
      /\ \A d \in Web \ {"logout"} : wait'[d] = wait[d]
      /\ wait' = [d \in Web |-> wait'[d]]
  BY <1>1, SaidCall DEF SessionInv
<1>3. issued' \in Nat /\ holder' = [s \in Tokens |-> holder'[s]] /\ lost' \in BOOLEAN
  BY <1>1 DEF SessionInv, SessionTyped, ServeLogout
<1>4. ~Unchanged(wait'["logout"]) /\ ChangeTold("logout")'
  BY <1>2 DEF Unchanged, ChangeTold
<1>. QED BY <1>1, <1>2, <1>3, <1>4, WebCalls, SessionServed

LEMMA SessionServes == ASSUME SessionInv, NEW c \in Web, ServeWeb(c) PROVE SessionInv'
<1>1. UNCHANGED <<jar, screen, lost, mixed>>
  BY DEF ServeWeb
<1>2. CASE wait[c].at = "sent" /\ c \in {"me", "refresh", "profile"} /\ ServeSigned(c)
  BY <1>1, <1>2, WebCalls, SessionReads
<1>3. CASE wait[c].at = "sent" /\ c \in {"login", "redeem"} /\ ServeCredentials(c)
  <2>1. c \in Issuing /\ c \in Changing
    BY <1>3, WebCalls
  <2>2. CASE Refused(c)
    BY <1>1, <1>3, <2>1, <2>2, SessionReads
  <2>3. CASE IssueTo(c, wait[c].as)
    <3>1. ~mixed /\ ~lost => issued < MaxSessions
      BY <1>3, <2>1 DEF SessionInv, Told, ChangesHolder, ChangeTold
    <3>2. c \notin {"password", "others"} /\ wait[c].at # "rest"
      BY <1>3
    <3>. QED BY <1>1, <2>1, <2>3, <3>1, <3>2, IssuedTo
  <2>. QED BY <1>3, <2>2, <2>3 DEF ServeCredentials
<1>4. CASE wait[c].at = "sent" /\ c = "logout" /\ ServeLogout
  BY <1>1, <1>4, SessionLogsOut
<1>5. CASE wait[c].at = "sent" /\ c \in {"reset", "password", "others"} /\ ServeEviction(c)
  BY <1>1, <1>5, SessionEvicts
<1>6. CASE wait[c].at = "evicted" /\ IssueTo(c, wait[c].as)
  <2>1. c \in Issuing /\ c \in Changing
    BY <1>6, WebCalls DEF SessionInv, SessionTyped
  <2>2. ~mixed /\ ~lost => issued < MaxSessions /\ (c \in {"password", "others"} => screen.user = wait[c].as)
    BY <1>6, <2>1 DEF SessionInv, Told, ChangesHolder, ChangeTold
  <2>3. wait[c].at # "rest"
    BY <1>6
  <2>. QED BY <1>1, <1>6, <2>1, <2>2, <2>3, IssuedTo
<1>. QED BY <1>2, <1>3, <1>4, <1>5, <1>6 DEF ServeWeb

LEMMA SessionBreaks == ASSUME SessionInv, NEW c \in Web, Break(c) PROVE SessionInv'
<1>1. /\ wait[c].at # "rest" /\ Says(c, "failed", NoOne, Keep)
      /\ lost' = (lost \/ c \in {"me", "logout"} \/ (c \in Changing /\ wait[c].at # "sent"))
      /\ UNCHANGED <<holder, issued, jar, screen, mixed>>
  BY DEF Break, rowsOfSession
<1>2. /\ Formed(wait'[c]) /\ wait'[c].at = "over" /\ wait'[c].late = wait[c].late
      /\ wait'[c].says = "failed" /\ wait'[c].whom = NoOne /\ wait'[c].puts = Keep
      /\ \A d \in Web \ {c} : wait'[d] = wait[d]
      /\ wait' = [d \in Web |-> wait'[d]]
  BY <1>1, SaidCall DEF SessionInv
<1>3. lost' \in BOOLEAN /\ (lost => lost') /\ issued' \in Nat /\ holder' = [s \in Tokens |-> holder'[s]]
  BY <1>1 DEF SessionInv, SessionTyped
<1>4. ~lost' => c \notin {"me", "logout"} /\ (c \in Changing => wait[c].at = "sent")
  BY <1>1
<1>5. c = "refresh" => ReadTold(c)'
  BY <1>2 DEF ReadTold
<1>6. c # "logout" => ChangeTold(c)'
  BY <1>2 DEF ChangeTold, Unchanged
<1>. QED BY <1>1, <1>2, <1>3, <1>4, <1>5, <1>6, SessionServed


\* An answer arrives, and its cookie if the page that asked is still there.
LEMMA SessionReceives == ASSUME SessionInv, NEW c \in Web, Receive(c) PROVE SessionInv'
<1>. USE DEF SessionInv
<1> DEFINE w == wait[c]
           renamed == c = "profile" /\ w.says = "ok" /\ ~w.late
<1>1. /\ w.at = "over" /\ UNCHANGED <<holder, issued, lost>>
      /\ (w.puts # Keep /\ jar' = w.puts) \/ ((w.puts = Keep \/ w.late) /\ UNCHANGED jar)
      /\ mixed' = (mixed \/ (renamed /\ UnderWay \cap Changing # {}))
      /\ wait' = [d \in Web |-> IF d = c THEN Unsent
                                ELSE IF d = "refresh" /\ renamed THEN SentBy(NoOne) ELSE wait[d]]
  BY DEF Receive, rowsOfSession
<1>2. /\ screen' = [route |-> screen'.route, user |-> screen'.user, loading |-> screen'.loading]
      /\ screen'.user = IF w.late THEN screen.user ELSE Adopted(c, w)
  <2>1. CASE w.late
    BY <2>1 DEF Receive, SessionTyped
  <2>2. CASE ~w.late
    <3>1. PICK s : /\ s = [route |-> s.route, user |-> s.user, loading |-> s.loading]
                   /\ s.user = Adopted(c, w) /\ screen' = Routed(s)
      <4>1. PICK s : /\ s = [route |-> IF c = "reset" /\ w.says = "ok" THEN "app" ELSE screen.route,
                             user |-> Adopted(c, w), loading |-> screen.loading /\ c # "me"]
                     /\ screen' = Routed(s)
        BY <2>2 DEF Receive
      <4>2. s = [route |-> s.route, user |-> s.user, loading |-> s.loading] /\ s.user = Adopted(c, w)
        BY <4>1
      <4>. QED BY <4>1, <4>2
    <3>. QED BY <2>2, <3>1, RoutedUser
  <2>. QED BY <2>1, <2>2
<1>3. /\ wait'[c] = Unsent
      /\ renamed => wait'["refresh"] = SentBy(NoOne)
      /\ \A d \in Web \ {c} : wait'[d] = wait[d] \/ (d = "refresh" /\ renamed)
      /\ wait' = [d \in Web |-> wait'[d]]
  BY <1>1, WebCalls
<1>4. SessionTyped'
  <2>1. \A d \in Web :
          /\ Formed(wait'[d]) /\ wait'[d].at \in {"rest", "sent", "evicted", "over"}
          /\ wait'[d].at = "evicted" => d \in {"reset", "password", "others"}
          /\ d \notin Changing => wait'[d].puts = Keep
    BY <1>3, SentCall DEF SessionTyped
  <2>2. ~wait'["me"].late
    <3>1. wait'["me"] = Unsent \/ wait'["me"] = wait["me"]
      BY <1>3, WebCalls
    <3>. QED BY <3>1, SentCall DEF SessionTyped
  <2>3. mixed' \in BOOLEAN /\ lost' \in BOOLEAN /\ issued' \in Nat /\ holder' = [s \in Tokens |-> holder'[s]]
    BY <1>1 DEF SessionTyped
  <2>. QED BY <1>2, <1>3, <2>1, <2>2, <2>3 DEF SessionTyped
<1>5. ~mixed' => ~mixed /\ (renamed => \A a \in Changing : wait[a].at = "rest")
  BY <1>1, WebCalls DEF UnderWay, SessionTyped
<1>. HIDE DEF w, renamed
<1>6. ChangesAlone'
  <2>. SUFFICES ASSUME ~mixed', NEW a \in Changing, wait'[a].at # "rest"
                PROVE  (\A d \in Web \ {a, "profile"} : wait'[d].at = "rest") /\ ~wait'[a].late
    BY DEF ChangesAlone
  <2>1. a # c /\ wait'[a] = wait[a]
    BY <1>3, SentCall, WebCalls
  <2>2. ~renamed /\ (\A d \in Web \ {a, "profile"} : wait[d].at = "rest") /\ ~wait[a].late
    BY <1>5, <2>1 DEF ChangesAlone
  <2>. QED BY <1>3, <2>1, <2>2, SentCall
<1>7. ASSUME ~mixed', ~lost' PROVE Told'
  <2>0. Told /\ ~mixed /\ ~lost
    BY <1>1, <1>5, <1>7
  <2>1. \A s : HolderOf(s)' = HolderOf(s)
    BY <1>1 DEF HolderOf
  <2>2. CASE c \in Changing
    <3>1. /\ \A d \in Web \ {"profile"} : wait'[d].at = "rest"
          /\ ~w.late /\ wait["me"].at = "rest"
      BY <1>1, <1>3, <2>0, <2>2, SentCall, WebCalls DEF ChangesAlone, w, renamed
    <3>2. ReadsHolder' /\ ChangesHolder'
      BY <3>1, WebCalls DEF ReadsHolder, ReadTold, ChangesHolder, ChangeTold
    <3>3. screen'.user = HolderOf(jar')
      <4>1. ChangeTold(c)
        BY <2>0, <2>2 DEF Told, ChangesHolder
      <4>2. CASE Unchanged(w) /\ w.puts = Keep /\ c # "logout"
        <5>1. UNCHANGED jar /\ screen'.user = screen.user
          BY <1>1, <1>2, <2>2, <3>1, <4>2, WebCalls DEF Unchanged, Adopted
        <5>2. screen.user = HolderOf(jar)
          <6>1. \A a \in Changing : a = c \/ wait[a].at = "rest"
            BY <1>1, <2>0, <2>2, WebCalls DEF ChangesAlone, w
          <6>. QED BY <2>0, <3>1, <4>2, <6>1 DEF Told, ShowsHolder, w
        <5>. QED BY <5>1, <5>2
      <4>3. CASE w.says = "ok" /\ c = "logout" /\ w.puts = 0
        BY <1>1, <1>2, <3>1, <4>3, WebCalls DEF Adopted, HolderOf
      <4>4. CASE /\ w.says = "ok" /\ c \in Issuing /\ w.puts \in Tokens /\ holder[w.puts] = w.whom
                 /\ c \in {"password", "others"} => screen.user = w.whom
        <5>1. jar' = w.puts /\ HolderOf(w.puts) = w.whom
          BY <1>1, <3>1, <4>4, WebCalls DEF HolderOf
        <5>2. screen'.user = w.whom
          BY <1>2, <3>1, <4>4, WebCalls DEF Adopted
        <5>. QED BY <5>1, <5>2
      <4>. QED BY <1>1, <4>1, <4>2, <4>3, <4>4 DEF ChangeTold, w
    <3>. QED BY <2>1, <3>2, <3>3 DEF Told, ShowsHolder, HolderOf
  <2>3. CASE c \notin Changing
    <3>1. UNCHANGED jar
      BY <1>1, <2>3 DEF SessionTyped, w
    <3>2. c \in {"me", "refresh", "profile"}
      BY <2>3, WebCalls
    <3>3. ReadsHolder'
      <4>. SUFFICES ASSUME NEW d \in {"me", "refresh"} PROVE ReadTold(d)'
        BY DEF ReadsHolder
      <4>1. wait'[d] = wait[d] \/ wait'[d] = Unsent \/ wait'[d] = SentBy(NoOne)
        BY <1>3, WebCalls
      <4>. QED BY <2>0, <2>1, <3>1, <4>1, SentCall DEF Told, ReadsHolder, ReadTold, HolderOf
    <3>4. \A a \in Changing : wait'[a] = wait[a]
      BY <1>3, <2>3, WebCalls
    <3>5. CASE w.late \/ c = "profile"
      <4>1. screen'.user = screen.user /\ c # "me"
        BY <1>2, <3>5 DEF Adopted, SessionTyped, w
      <4>2. ChangesHolder'
        BY <1>1, <2>0, <3>1, <3>4, <4>1 DEF Told, ChangesHolder, ChangeTold, Unchanged
      <4>3. wait'["me"] = wait["me"]
        BY <1>3, <4>1, WebCalls
      <4>4. ShowsHolder'
        BY <1>1, <2>0, <3>1, <3>4, <4>1, <4>3 DEF Told, ShowsHolder, Unchanged, HolderOf
      <4>. QED BY <3>3, <4>2, <4>4 DEF Told
    <3>6. CASE ~w.late /\ c \in {"me", "refresh"}
      <4>1. \A a \in Changing : wait[a].at = "rest"
        BY <1>1, <2>0, <3>2, <3>6, WebCalls DEF ChangesAlone, w
      <4>2. ChangesHolder'
        BY <3>4, <4>1 DEF ChangesHolder, ChangeTold
      <4>3. ReadTold(c)
        BY <2>0, <3>6 DEF Told, ReadsHolder
      <4>4. \/ screen'.user = HolderOf(jar)
            \/ c = "refresh" /\ screen'.user = screen.user
        BY <1>1, <1>2, <3>6, <4>3 DEF ReadTold, Adopted, w
      <4>5. ShowsHolder'
        <5>. SUFFICES ASSUME wait'["me"].at = "rest" PROVE screen'.user = HolderOf(jar)'
          BY DEF ShowsHolder
        <5>1. CASE c = "refresh" /\ screen'.user = screen.user
          <6>1. wait["me"].at = "rest"
            BY <1>3, <5>1, WebCalls
          <6>2. screen.user = HolderOf(jar)
            BY <2>0, <4>1, <6>1 DEF Told, ShowsHolder
          <6>. QED BY <2>1, <3>1, <5>1, <6>2
        <5>. QED BY <2>1, <3>1, <4>4, <5>1
      <4>. QED BY <3>3, <4>2, <4>5 DEF Told
    <3>. QED BY <3>2, <3>5, <3>6
  <2>. QED BY <2>2, <2>3
<1>. QED BY <1>4, <1>6, <1>7

LEMMA SessionInductive == SessionInv /\ [Next]_vars => SessionInv'
<1>1. ASSUME SessionInv, SessionNext PROVE SessionInv'
  <2>1. ASSUME NEW p \in People, SignIn(p) \/ Join(p) \/ ResetPassword(p) PROVE SessionInv'
    BY <1>1, <2>1, SessionSends, WebCalls DEF SignIn, Join, ResetPassword
  <2>2. CASE SignOut \/ SaveName \/ NewPassword \/ SignOthersOut
    BY <1>1, <2>2, SessionSends, WebCalls DEF SignOut, SaveName, NewPassword, SignOthersOut
  <2>. QED BY <1>1, <2>1, <2>2, SessionFollows, SessionLoads, SessionElsewhere, SessionServes, SessionBreaks,
              SessionReceives DEF SessionNext
<1>2. ASSUME SessionInv, UNCHANGED sessionVars PROVE SessionInv'
  <2>1. UNCHANGED <<holder, issued, jar, screen, wait, mixed, lost>>
    BY <1>2 DEF sessionVars, rowsOfSession
  <2>. QED BY <1>2, <2>1 DEF SessionInv, SessionTyped, Formed, ChangesAlone, Told, ReadsHolder, ReadTold,
              ChangesHolder, ChangeTold, ShowsHolder, Unchanged, HolderOf
<1>. QED BY <1>1, <1>2, SessionMoves

\* AuthContext: once every call is answered, the user of the page is the account of the
\* session its cookie names, unless calls that read or change the session overlapped, an
\* answer was lost, or a session ended elsewhere.
THEOREM PageIsTold == Spec => []PageTellsSession
<1>1. SessionInv => PageTellsSession
  <2>. SUFFICES ASSUME SessionInv, UnderWay = {}, ~mixed, ~lost PROVE screen.user = HolderOf(jar)
    BY DEF PageTellsSession
  <2>1. \A c \in Web : wait[c].at = "rest"
    BY DEF UnderWay
  <2>. QED BY <2>1, WebCalls DEF SessionInv, Told, ShowsHolder
<1>. QED BY SessionFirst, SessionInductive, <1>1, PTL DEF Spec
=============================================================================
