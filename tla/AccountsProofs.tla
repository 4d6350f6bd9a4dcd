--------------------------- MODULE AccountsProofs ---------------------------
(***************************************************************************)
(* The safety properties of Accounts, for any number of accounts, invites, *)
(* links and requests.  Each is inductive once the requests at work are    *)
(* known to hold what they read (RequestsInv) and the row of an invite to  *)
(* remember its account (InviteInv).                                       *)
(***************************************************************************)
EXTENDS Accounts, TLAPS

UserPc == {"issue", "set", "evict", "link", "read", "check", "count", "write"}

ReqType == [pc : Pc, act : Changes \cup Reissues \cup {"none", "cli"},
            on : Users \cup Invites \cup {Nobody}, stale : BOOLEAN]

\* What a request works on, and that an account it has read was there.
Sound(rec) ==
    /\ rec.pc \in UserPc => rec.on \in Users
    /\ rec.pc = "revoke" => rec.on \in Invites
    /\ rec.pc \in {"check", "count", "write"} => role[rec.on] # "none"

RequestsInv == req \in [Requests -> ReqType] /\ \A r \in Requests : Sound(req[r])

\* TypeOK without the requests.
RowsInv ==
    /\ role \in [Users -> Roles \cup {"none", "gone"}] /\ disabled \in [Users -> BOOLEAN]
    /\ sessions \in [Users -> SUBSET Kinds]
    /\ invite \in [Invites -> [state : {"none", "open", "over"}, role : Roles,
                               by : Users \cup {Nobody}]]
    /\ link \in [Links -> [state : {"none", "open", "over"}, on : Users \cup {Nobody}]]
    /\ origin \in [Users -> Invites \cup {Nobody}]
    /\ \A u \in Users : ~Live(u) => sessions[u] = {}
    /\ \A l \in Links : link[l].state = "open" => link[l].on \in Users /\ Live(link[l].on)

TypeInv == RowsInv /\ RequestsInv

\* An invite that made a live account is over, or names that account.
InviteInv ==
    \A u \in Users : Live(u) /\ origin[u] # Nobody =>
        LET i == invite[origin[u]] IN i.state = "over" \/ (i.state = "open" /\ i.by = u)

\* A change that is about to be written on fresh reads spares an administrator.
ChangeInv ==
    \A r \in Requests : At(r, "write") /\ ~req[r].stale /\ req[r].act \in Demotions =>
        ~Active(req[r].on) \/ OtherAdmins(req[r].on) # {}

-----------------------------------------------------------------------------
(* Types.                                                                  *)

\* It holds of the empty tables.
LEMMA InitTypes == Init => TypeInv
  BY NobodyAssumption
  DEF Init, TypeInv, RowsInv, RequestsInv, ReqType, Sound, Free, NoInvite, NoLink, Roles, Pc,
      UserPc

\* No row of User is new again.
Onward == \A u \in Users : role[u] # "none" => role'[u] # "none"

\* One request becomes a sound one, and the others stay.
LEMMA OneRequest ==
    ASSUME RequestsInv, Onward, NEW r \in Requests, NEW rec \in ReqType,
           req' = [req EXCEPT ![r] = rec], Sound(rec)'
    PROVE  RequestsInv'
<1>1. req' \in [Requests -> ReqType]
  BY DEF RequestsInv
<1>2. ASSUME NEW q \in Requests PROVE Sound(req[q])'
  <2>1. CASE q = r
    BY <2>1 DEF RequestsInv, Sound
  <2>2. CASE q # r
    BY <2>2 DEF RequestsInv, Sound, Onward, UserPc
  <2>q. QED
    BY <2>1, <2>2
<1>q. QED
  BY <1>1, <1>2 DEF RequestsInv

\* A request that takes its next step keeps what it holds, and may decide
\* only about an account that is there.
LEMMA GotoSound ==
    ASSUME RequestsInv, Onward, NEW r \in Requests, NEW pc \in UserPc, req[r].pc \in UserPc,
           pc \in {"check", "count", "write"} => role'[req[r].on] # "none", Goto(r, pc)
    PROVE  RequestsInv'
<1>1. PICK rec \in ReqType : rec = [req[r] EXCEPT !.pc = pc]
  BY DEF RequestsInv, ReqType, UserPc, Pc
<1>2. rec.pc = pc /\ rec.on = req[r].on /\ rec.on \in Users
  BY <1>1 DEF RequestsInv, ReqType, Sound
<1>3. Sound(rec)'
  BY <1>2 DEF Sound, UserPc
<1>q. QED
  BY <1>1, <1>3, OneRequest DEF Goto, RequestsInv

\* A request begins about an account, at a step that decides nothing.
LEMMA StartSound ==
    ASSUME RequestsInv, Onward, NEW r \in Requests, NEW rec \in ReqType,
           rec.pc \in UserPc \ {"check", "count", "write"}, rec.on \in Users,
           req' = [req EXCEPT ![r] = rec]
    PROVE  RequestsInv'
<1>1. Sound(rec)'
  BY DEF Sound, UserPc
<1>q. QED
  BY <1>1, OneRequest

\* A request that is over holds nothing.
LEMMA EndSound ==
    ASSUME RequestsInv, Onward, NEW r \in Requests, End(r)
    PROVE  RequestsInv'
<1>1. Free \in ReqType /\ Sound(Free)'
  BY DEF ReqType, Sound, UserPc, Pc, Free
<1>q. QED
  BY <1>1, OneRequest DEF End

\* A write that others decide on: their reads are stale, which takes nothing from them.
LEMMA AfterSound ==
    ASSUME RequestsInv, Onward, NEW r \in Requests, NEW rec \in ReqType, Sound(rec)', After(r, rec)
    PROVE  RequestsInv'
<1>1. ASSUME NEW q \in Requests PROVE req'[q] \in ReqType /\ Sound(req[q])'
  <2>1. CASE q = r
    BY <2>1 DEF After, Sound
  <2>2. CASE q # r
    BY <2>2 DEF RequestsInv, Sound, Onward, ReqType, UserPc, After
  <2>q. QED
    BY <2>1, <2>2
<1>q. QED
  BY <1>1 DEF RequestsInv, After

\* Every step of every handler keeps the types: of the rows, then of the requests.
LEMMA NextTypes == TypeInv /\ [Next]_vars => TypeInv'
<1> SUFFICES ASSUME TypeInv, [Next]_vars PROVE TypeInv'
  OBVIOUS
<1>1. ASSUME NEW u \in Users, NEW as \in Roles, AddUser(u, as) PROVE TypeInv'
  <2>1. RowsInv' /\ Onward
    BY <1>1 DEF AddUser, TypeInv, RowsInv, Live, Onward
  <2>2. RequestsInv'
    BY <1>1, <2>1 DEF AddUser, TypeInv, RequestsInv, Sound, Onward, UserPc
  <2>q. QED
    BY <2>1, <2>2 DEF TypeInv
<1>2. ASSUME NEW i \in Invites, NEW as \in Roles, CreateInvite(i, as) PROVE TypeInv'
  <2>1. RowsInv' /\ Onward
    BY <1>2 DEF CreateInvite, TypeInv, RowsInv, Live, Onward, accounts
  <2>2. RequestsInv'
    BY <1>2, <2>1 DEF CreateInvite, TypeInv, RequestsInv, Sound, Onward, UserPc
  <2>q. QED
    BY <2>1, <2>2 DEF TypeInv
<1>3. ASSUME NEW r \in Requests, NEW i \in Invites, NEW u \in Users, RedeemInvite(r, i, u)
      PROVE  TypeInv'
  <2>1. RowsInv' /\ Onward
    BY <1>3 DEF RedeemInvite, TypeInv, RowsInv, Live, Onward
  <2>2. PICK rec \in ReqType : rec = [Free EXCEPT !.pc = "issue", !.on = u]
    BY <1>3 DEF ReqType, Free, Pc
  <2>3. RequestsInv'
    BY <1>3, <2>1, <2>2, StartSound DEF RedeemInvite, TypeInv, UserPc, ReqType
  <2>q. QED
    BY <2>1, <2>3 DEF TypeInv
<1>4. ASSUME NEW r \in Requests, NEW i \in Invites, RevokeRead(r, i) PROVE TypeInv'
  <2>1. RowsInv' /\ Onward
    BY <1>4 DEF RevokeRead, TypeInv, RowsInv, Live, Onward, tables, accounts
  <2>2. RequestsInv'
    <3> DEFINE rec == [Free EXCEPT !.pc = "revoke", !.on = i]
    <3>1. rec \in ReqType /\ Sound(rec)'
      BY DEF ReqType, Sound, UserPc, Pc, Free
    <3>q. QED
      BY <1>4, <2>1, <3>1, OneRequest DEF RevokeRead, TypeInv
  <2>q. QED
    BY <2>1, <2>2 DEF TypeInv
<1>5. ASSUME NEW r \in Requests, RevokeDelete(r) PROVE TypeInv'
  <2>1. RowsInv' /\ Onward
    BY <1>5
    DEF RevokeDelete, TypeInv, RowsInv, Live, Roles, Onward, accounts, Over, NoInvite
  <2>2. RequestsInv'
    BY <1>5, <2>1, EndSound DEF RevokeDelete, TypeInv
  <2>q. QED
    BY <2>1, <2>2 DEF TypeInv
<1>6. ASSUME NEW r \in Requests, NEW u \in Users, Login(r, u) PROVE TypeInv'
  <2>1. RowsInv' /\ Onward
    BY <1>6 DEF Login, TypeInv, RowsInv, Live, Onward, tables, accounts
  <2>2. PICK rec \in ReqType : rec = [Free EXCEPT !.pc = "issue", !.on = u]
    BY <1>6 DEF ReqType, Free, Pc
  <2>3. RequestsInv'
    BY <1>6, <2>1, <2>2, StartSound DEF Login, TypeInv, UserPc, ReqType
  <2>q. QED
    BY <2>1, <2>3 DEF TypeInv
<1>7. ASSUME NEW r \in Requests, Issue(r) PROVE TypeInv'
  <2>1. RowsInv' /\ Onward
    BY <1>7 DEF Issue, TypeInv, RowsInv, Live, Kinds, Onward, accounts, MayIssue
  <2>2. RequestsInv'
    BY <1>7, <2>1, EndSound DEF Issue, TypeInv
  <2>q. QED
    BY <2>1, <2>2 DEF TypeInv
<1>8. ASSUME NEW u \in Users, Logout(u) PROVE TypeInv'
  <2>1. RowsInv' /\ Onward
    BY <1>8 DEF Logout, TypeInv, RowsInv, Live, Onward, accounts
  <2>2. RequestsInv'
    BY <1>8, <2>1 DEF Logout, TypeInv, RequestsInv, Sound, Onward, UserPc
  <2>q. QED
    BY <2>1, <2>2 DEF TypeInv
<1>9. ASSUME NEW r \in Requests, NEW u \in Users, ChangePassword(r, u) PROVE TypeInv'
  <2>1. RowsInv' /\ Onward
    BY <1>9 DEF ChangePassword, TypeInv, RowsInv, Live, Onward, tables, accounts
  <2>2. RequestsInv'
    <3>1. PICK act \in {"change", "cli"} :
              req' = [req EXCEPT ![r] = [Free EXCEPT !.pc = "set", !.act = act, !.on = u]]
      BY <1>9 DEF ChangePassword
    <3>2. PICK rec \in ReqType : rec = [Free EXCEPT !.pc = "set", !.act = act, !.on = u]
      BY DEF ReqType, Free, Pc, Reissues
    <3>q. QED
      BY <2>1, <3>1, <3>2, StartSound DEF TypeInv, UserPc, ReqType, Free
  <2>q. QED
    BY <2>1, <2>2 DEF TypeInv
<1>10. ASSUME NEW r \in Requests, SetPassword(r) PROVE TypeInv'
  <2>1. RowsInv' /\ Onward
    BY <1>10
    DEF SetPassword, TypeInv, RowsInv, Live, Kinds, Onward, accounts, Aged
  <2>2. RequestsInv'
    BY <1>10, <2>1, GotoSound, EndSound DEF SetPassword, TypeInv, At, UserPc
  <2>q. QED
    BY <2>1, <2>2 DEF TypeInv
<1>11. ASSUME NEW r \in Requests, NEW u \in Users, RevokeOthers(r, u) PROVE TypeInv'
  <2>1. RowsInv' /\ Onward
    BY <1>11 DEF RevokeOthers, TypeInv, RowsInv, Live, Onward, tables, accounts
  <2>2. PICK rec \in ReqType : rec = [Free EXCEPT !.pc = "evict", !.act = "others", !.on = u]
    BY <1>11 DEF ReqType, Free, Pc, Reissues
  <2>3. RequestsInv'
    BY <1>11, <2>1, <2>2, StartSound DEF RevokeOthers, TypeInv, UserPc, ReqType
  <2>q. QED
    BY <2>1, <2>3 DEF TypeInv
<1>12. ASSUME NEW r \in Requests, Evict(r) PROVE TypeInv'
  <2>1. RowsInv' /\ Onward
    BY <1>12 DEF Evict, TypeInv, RowsInv, Live, Onward, accounts
  <2>2. RequestsInv'
    BY <1>12, <2>1, GotoSound, EndSound DEF Evict, TypeInv, At, UserPc
  <2>q. QED
    BY <2>1, <2>2 DEF TypeInv
<1>13. ASSUME NEW r \in Requests, NEW u \in Users, LinkRead(r, u) PROVE TypeInv'
  <2>1. RowsInv' /\ Onward
    BY <1>13 DEF LinkRead, TypeInv, RowsInv, Live, Onward, tables, accounts
  <2>2. PICK rec \in ReqType : rec = [Free EXCEPT !.pc = "link", !.on = u]
    BY <1>13 DEF ReqType, Free, Pc
  <2>3. RequestsInv'
    BY <1>13, <2>1, <2>2, StartSound DEF LinkRead, TypeInv, UserPc, ReqType
  <2>q. QED
    BY <2>1, <2>3 DEF TypeInv
<1>14. ASSUME NEW r \in Requests, NEW l \in Links, CreateLink(r, l) PROVE TypeInv'
  <2>1. RowsInv' /\ Onward
    BY <1>14
    DEF CreateLink, TypeInv, RowsInv, Live, RequestsInv, Sound, UserPc, At, Onward, accounts,
        Superseded, OverLink, NoLink
  <2>2. RequestsInv'
    BY <1>14, <2>1, EndSound DEF CreateLink, TypeInv
  <2>q. QED
    BY <2>1, <2>2 DEF TypeInv
<1>15. ASSUME NEW r \in Requests, NEW l \in Links, RedeemLink(r, l) PROVE TypeInv'
  <2>1. RowsInv' /\ Onward
    BY <1>15
    DEF RedeemLink, TypeInv, RowsInv, Live, Onward, accounts, ResetEvicts, OverLink, NoLink
  <2>2. PICK rec \in ReqType : rec = [Free EXCEPT !.pc = "issue", !.on = link[l].on]
    BY <1>15 DEF ReqType, Free, Pc, TypeInv, RowsInv
  <2>3. RequestsInv'
    BY <1>15, <2>1, <2>2, StartSound DEF RedeemLink, TypeInv, RowsInv, UserPc, ReqType
  <2>q. QED
    BY <2>1, <2>3 DEF TypeInv
<1>16. ASSUME Expire PROVE TypeInv'
  <2>1. ASSUME NEW i \in Invites, invite' = [invite EXCEPT ![i] = Over], UNCHANGED link
        PROVE  TypeInv'
    BY <1>16, <2>1
    DEF Expire, TypeInv, RowsInv, RequestsInv, Sound, Live, Over, NoInvite, Roles, accounts
  <2>2. ASSUME NEW l \in Links, link' = [link EXCEPT ![l] = OverLink], UNCHANGED invite
        PROVE  TypeInv'
    BY <1>16, <2>2
    DEF Expire, TypeInv, RowsInv, RequestsInv, Sound, Live, OverLink, NoLink, accounts
  <2>q. QED
    BY <1>16, <2>1, <2>2 DEF Expire
<1>17. ASSUME NEW r \in Requests, NEW a \in Users, NEW act \in Changes, NEW u \in Users,
              AskChange(r, a, act, u)
       PROVE  TypeInv'
  <2>1. RowsInv' /\ Onward
    BY <1>17 DEF AskChange, TypeInv, RowsInv, Live, Onward, tables, accounts
  <2>2. PICK rec \in ReqType : rec = [Free EXCEPT !.pc = "read", !.act = act, !.on = u]
    BY <1>17 DEF ReqType, Free, Pc
  <2>3. RequestsInv'
    BY <1>17, <2>1, <2>2, StartSound DEF AskChange, TypeInv, UserPc, ReqType
  <2>q. QED
    BY <2>1, <2>3 DEF TypeInv
<1>18. ASSUME NEW r \in Requests, ReadTarget(r) PROVE TypeInv'
  <2>1. RowsInv' /\ Onward
    BY <1>18 DEF ReadTarget, TypeInv, RowsInv, Live, Onward, tables, accounts
  <2>2. CASE Live(req[r].on) /\ AfterRead(req[r].act, req[r].on) = "evict"
    <3>1. RequestsInv'
      BY <1>18, <2>1, <2>2, GotoSound DEF ReadTarget, TypeInv, At, UserPc
    <3>q. QED
      BY <2>1, <3>1 DEF TypeInv
  <2>3. CASE Live(req[r].on) /\ AfterRead(req[r].act, req[r].on) # "evict"
    <3>1. RequestsInv'
      BY <1>18, <2>1, <2>3, GotoSound
      DEF ReadTarget, TypeInv, At, UserPc, AfterRead, Live, Roles, tables, accounts
    <3>q. QED
      BY <2>1, <3>1 DEF TypeInv
  <2>4. CASE ~Live(req[r].on)
    BY <1>18, <2>1, <2>4, EndSound DEF ReadTarget, TypeInv
  <2>q. QED
    BY <2>2, <2>3, <2>4
<1>19. ASSUME NEW r \in Requests, CheckTarget(r) PROVE TypeInv'
  <2>1. RowsInv' /\ Onward
    BY <1>19 DEF CheckTarget, TypeInv, RowsInv, Live, Onward, tables, accounts
  <2>2. req[r].pc \in UserPc /\ role'[req[r].on] # "none"
    BY <1>19 DEF CheckTarget, TypeInv, RequestsInv, Sound, At, UserPc, tables, accounts
  <2>3. PICK pc \in {"count", "write"} : Goto(r, pc)
    BY <1>19 DEF CheckTarget
  <2>4. RequestsInv'
    BY <2>1, <2>2, <2>3, GotoSound DEF TypeInv, UserPc
  <2>q. QED
    BY <2>1, <2>4 DEF TypeInv
<1>20. ASSUME NEW r \in Requests, CountOthers(r) PROVE TypeInv'
  <2>1. RowsInv' /\ Onward
    BY <1>20 DEF CountOthers, TypeInv, RowsInv, Live, Onward, tables, accounts
  <2>2. req[r].pc \in UserPc /\ role'[req[r].on] # "none"
    BY <1>20 DEF CountOthers, TypeInv, RequestsInv, Sound, At, UserPc, tables, accounts
  <2>3. Goto(r, "write") \/ End(r)
    BY <1>20 DEF CountOthers
  <2>4. RequestsInv'
    BY <2>1, <2>2, <2>3, GotoSound, EndSound DEF TypeInv, UserPc
  <2>q. QED
    BY <2>1, <2>4 DEF TypeInv
<1>21. ASSUME NEW r \in Requests, WriteChange(r) PROVE TypeInv'
  <2>1. RowsInv' /\ Onward
    BY <1>21 DEF WriteChange, TypeInv, RowsInv, Live, Roles, Onward
  <2>2. PICK rec \in ReqType : rec = [Free EXCEPT !.pc = "evict", !.on = req[r].on]
    BY <1>21 DEF TypeInv, RequestsInv, ReqType, Free, Pc
  <2>3. rec.on \in Users
    BY <1>21, <2>2 DEF WriteChange, TypeInv, RequestsInv, Sound, UserPc, At
  <2>4. Sound(rec)' /\ Free \in ReqType /\ Sound(Free)'
    BY <2>2, <2>3 DEF ReqType, Sound, UserPc, Pc, Free
  <2>5. After(r, rec) \/ After(r, Free) \/ End(r)
    BY <1>21, <2>2 DEF WriteChange
  <2>6. RequestsInv'
    BY <2>1, <2>4, <2>5, AfterSound, EndSound DEF TypeInv
  <2>q. QED
    BY <2>1, <2>6 DEF TypeInv
<1>22. ASSUME NEW r \in Requests, DeleteUser(r) PROVE TypeInv'
  <2>1. RowsInv' /\ Onward
    <3> DEFINE u == req[r].on
    <3>1. u \in Users
      BY <1>22 DEF DeleteUser, TypeInv, RequestsInv, Sound, UserPc, At
    <3>2. CASE Live(u)
      <4>1. /\ role' = [role EXCEPT ![u] = "gone"] /\ sessions' = [sessions EXCEPT ![u] = {}]
            /\ disabled' = [disabled EXCEPT ![u] = FALSE] /\ origin' = [origin EXCEPT ![u] = Nobody]
        BY <1>22, <3>2 DEF DeleteUser
      <4>2. /\ invite' = [i \in Invites |-> IF invite[i].by = u THEN [invite[i] EXCEPT !.by = Nobody]
                                             ELSE invite[i]]
            /\ link' = [l \in Links |-> IF link[l].on = u THEN OverLink ELSE link[l]]
        BY <1>22, <3>2 DEF DeleteUser, Superseded
      <4>3. \A i \in Invites : invite'[i] \in [state : {"none", "open", "over"}, role : Roles,
                                              by : Users \cup {Nobody}]
        BY <4>2 DEF TypeInv, RowsInv
      <4>4. \A l \in Links : /\ link'[l] \in [state : {"none", "open", "over"}, on : Users \cup {Nobody}]
                             /\ link'[l].state = "open" => link'[l] = link[l] /\ link[l].on # u
        BY <4>2 DEF TypeInv, RowsInv, OverLink, NoLink
      <4>5. \A v \in Users : v # u => role'[v] = role[v] /\ sessions'[v] = sessions[v]
        BY <4>1 DEF TypeInv, RowsInv
      <4>q. QED
        BY <3>1, <4>1, <4>2, <4>3, <4>4, <4>5 DEF TypeInv, RowsInv, Live, Onward
    <3>3. CASE ~Live(u)
      BY <1>22, <3>3 DEF DeleteUser, TypeInv, RowsInv, Live, Onward, tables, accounts
    <3>q. QED
      BY <3>2, <3>3
  <2>2. RequestsInv'
    <3>1. Free \in ReqType /\ Sound(Free)'
      BY DEF ReqType, Sound, UserPc, Pc, Free
    <3>2. After(r, Free) \/ End(r)
      BY <1>22 DEF DeleteUser
    <3>q. QED
      BY <2>1, <3>1, <3>2, AfterSound, EndSound DEF TypeInv
  <2>q. QED
    BY <2>1, <2>2 DEF TypeInv
<1>23. CASE UNCHANGED vars
  BY <1>23 DEF TypeInv, RowsInv, RequestsInv, Sound, Live, vars, tables, accounts
<1>q. QED
  BY <1>1, <1>2, <1>3, <1>4, <1>5, <1>6, <1>7, <1>8, <1>9, <1>10, <1>11, <1>12, <1>13, <1>14,
     <1>15, <1>16, <1>17, <1>18, <1>19, <1>20, <1>21, <1>22, <1>23
  DEF Next, Invitation, Session, Reset, Administration

\* Types, together with what a request at work holds.
THEOREM TypesHold == Spec => []TypeInv
  BY InitTypes, NextTypes, PTL DEF Spec

\* TypeOK is a part of it.
LEMMA TypesImply == TypeInv => TypeOK
  BY DEF TypeInv, RowsInv, RequestsInv, ReqType, TypeOK

\* Every column keeps its type, and every session and open link (the rows with a
\* foreign key) belongs to an account that exists: issueSession, createPasswordReset
\* and deleteUser, in any interleaving.
THEOREM TypeCorrect == Spec => []TypeOK
  BY TypesHold, TypesImply, PTL

-----------------------------------------------------------------------------
(* Reset links.                                                            *)

\* The steps that write to PasswordReset.
LEMMA LinkSteps ==
    [Next]_vars => \/ UNCHANGED link \/ Expire \/ \E r \in Requests : DeleteUser(r)
                   \/ \E r \in Requests, l \in Links : CreateLink(r, l) \/ RedeemLink(r, l)
  BY
  DEF Next, Invitation, Session, Reset, Administration, vars, tables, AddUser, CreateInvite,
      RedeemInvite, RevokeRead, RevokeDelete, Login, Issue, Logout, ChangePassword, SetPassword,
      RevokeOthers, Evict, LinkRead, AskChange, ReadTarget, CheckTarget, CountOthers,
      WriteChange

\* Each of them leaves one open link of an account at most.
LEMMA NextLinks == TypeInv /\ OneOpenLink /\ [Next]_vars => OneOpenLink'
<1> SUFFICES ASSUME TypeInv, OneOpenLink, [Next]_vars PROVE OneOpenLink'
  OBVIOUS
<1>1. CASE UNCHANGED link
  BY <1>1 DEF OneOpenLink
<1>2. CASE Expire
  <2>1. CASE UNCHANGED link
    BY <2>1 DEF OneOpenLink
  <2>2. ASSUME NEW k \in Links, link' = [link EXCEPT ![k] = OverLink] PROVE OneOpenLink'
    BY <2>2 DEF OneOpenLink, OverLink
  <2>q. QED
    BY <1>2, <2>1, <2>2 DEF Expire
<1>3. ASSUME NEW r \in Requests, DeleteUser(r) PROVE OneOpenLink'
  <2>1. UNCHANGED link \/ link' = Superseded(req[r].on)
    BY <1>3 DEF DeleteUser, tables
  <2>q. QED
    BY <2>1 DEF OneOpenLink, Superseded, OverLink, NoLink
\* The new link is the only one: those of the account are deleted with it.
<1>4. ASSUME NEW r \in Requests, NEW l \in Links, CreateLink(r, l) PROVE OneOpenLink'
  <2>1. CASE UNCHANGED link
    BY <2>1 DEF OneOpenLink
  <2>2. CASE link' = [Superseded(req[r].on) EXCEPT ![l] = [state |-> "open", on |-> req[r].on]]
    <3>1. ASSUME NEW k \in Links, k # l, link'[k].state = "open"
          PROVE  link'[k] = link[k] /\ link[k].on # req[r].on
      BY <2>2, <3>1 DEF Superseded, OverLink, NoLink
    <3>2. link'[l].on = req[r].on
      BY <2>2 DEF Superseded
    <3>q. QED
      BY <3>1, <3>2 DEF OneOpenLink
  <2>q. QED
    BY <1>4, <2>1, <2>2 DEF CreateLink
<1>5. ASSUME NEW r \in Requests, NEW l \in Links, RedeemLink(r, l) PROVE OneOpenLink'
  BY <1>5 DEF RedeemLink, OneOpenLink, OverLink
<1>q. QED
  BY <1>1, <1>2, <1>3, <1>4, <1>5, LinkSteps

\* However many administrators ask at once, an account has one working link
\* (the transaction of createPasswordReset).
THEOREM OneLinkEach == Spec => []OneOpenLink
<1>1. Init => OneOpenLink
  BY DEF Init, OneOpenLink, NoLink
<1>q. QED
  BY <1>1, NextLinks, TypesHold, PTL DEF Spec

-----------------------------------------------------------------------------
(* Invites.                                                                *)

\* The steps that write to Invite, or to the role or the origin of an account.
LEMMA InviteSteps ==
    [Next]_vars => \/ UNCHANGED <<role, invite, origin>> \/ Expire
                   \/ \E r \in Requests : RevokeDelete(r) \/ WriteChange(r) \/ DeleteUser(r)
                   \/ \E u \in Users, as \in Roles : AddUser(u, as)
                   \/ \E i \in Invites, as \in Roles : CreateInvite(i, as)
                   \/ \E r \in Requests, i \in Invites, u \in Users : RedeemInvite(r, i, u)
  BY
  DEF Next, Invitation, Session, Reset, Administration, vars, tables, accounts, RevokeRead,
      Login, Issue, Logout, ChangePassword, SetPassword, RevokeOthers, Evict, LinkRead,
      CreateLink, RedeemLink, AskChange, ReadTarget, CheckTarget, CountOthers

\* An account of which no invite was redeemed names none.
FreshInv == \A u \in Users : role[u] = "none" => origin[u] = Nobody

OriginInv == FreshInv /\ InviteInv /\ OneAccountPerInvite

\* No account gains a life or an origin, and no invite a claim it lost.
LEMMA OriginsKept ==
    ASSUME TypeInv, OriginInv, UNCHANGED origin,
           \A u \in Users : /\ role'[u] \in Roles => Live(u) \/ (role[u] = "none")
                            /\ role'[u] = "none" => role[u] = "none",
           \A i \in Invites : invite[i].state = "over" \/ invite[i].by # Nobody =>
                                  invite'[i].state = "over" \/ invite'[i] = invite[i]
    PROVE  OriginInv'
<1>1. FreshInv'
  BY DEF OriginInv, FreshInv
<1>2. ASSUME NEW u \in Users, Live(u)', origin[u] # Nobody PROVE Live(u)
  BY <1>2 DEF OriginInv, FreshInv, Live
<1>3. InviteInv'
  <2> SUFFICES ASSUME NEW u \in Users, Live(u)', origin[u] # Nobody
               PROVE  LET i == invite'[origin[u]] IN i.state = "over" \/ (i.state = "open" /\ i.by = u)
    BY DEF InviteInv
  <2>1. origin[u] \in Invites
    BY DEF TypeInv, RowsInv
  <2>2. LET i == invite[origin[u]] IN i.state = "over" \/ (i.state = "open" /\ i.by = u)
    BY <1>2 DEF OriginInv, InviteInv
  <2>q. QED
    BY <2>1, <2>2, NobodyAssumption
<1>4. OneAccountPerInvite'
  BY <1>2 DEF OriginInv, OneAccountPerInvite
<1>q. QED
  BY <1>1, <1>3, <1>4 DEF OriginInv

\* Each of them keeps what invites and accounts say of each other.
LEMMA NextOrigins == TypeInv /\ OriginInv /\ [Next]_vars => OriginInv'
<1> SUFFICES ASSUME TypeInv, OriginInv, [Next]_vars PROVE OriginInv'
  OBVIOUS
<1>1. CASE UNCHANGED <<role, invite, origin>>
  BY <1>1, OriginsKept DEF Live
<1>2. CASE Expire
  <2>1. \A i \in Invites : invite[i].state = "over" \/ invite[i].by # Nobody => invite'[i] = invite[i]
    BY <1>2 DEF Expire, TypeInv, RowsInv
  <2>q. QED
    BY <1>2, <2>1, OriginsKept DEF Expire, accounts, Live
<1>3. ASSUME NEW r \in Requests, RevokeDelete(r) PROVE OriginInv'
  <2>1. \A i \in Invites : invite'[i] = invite[i] \/ invite'[i].state = "over"
    BY <1>3 DEF RevokeDelete, Over
  <2>q. QED
    BY <1>3, <2>1, OriginsKept DEF RevokeDelete, accounts, Live
<1>4. ASSUME NEW r \in Requests, WriteChange(r) PROVE OriginInv'
  <2>1. \A u \in Users : role'[u] = role[u] \/ (Live(u) /\ role'[u] \in Roles)
    BY <1>4 DEF WriteChange, TypeInv, RowsInv, Roles
  <2>q. QED
    BY <1>4, <2>1, OriginsKept DEF WriteChange, Live, Roles
<1>5. ASSUME NEW u \in Users, NEW as \in Roles, AddUser(u, as) PROVE OriginInv'
  <2>1. \A v \in Users : role'[v] = role[v] \/ (role[v] = "none" /\ role'[v] \in Roles)
    BY <1>5 DEF AddUser, TypeInv, RowsInv
  <2>q. QED
    BY <1>5, <2>1, OriginsKept DEF AddUser, Live, Roles
<1>6. ASSUME NEW i \in Invites, NEW as \in Roles, CreateInvite(i, as) PROVE OriginInv'
  <2>1. ASSUME NEW u \in Users, Live(u), origin[u] = i, origin[u] # Nobody PROVE FALSE
    BY <1>6, <2>1 DEF CreateInvite, OriginInv, InviteInv
  <2>2. \A j \in Invites : j # i => invite'[j] = invite[j]
    BY <1>6 DEF CreateInvite, TypeInv, RowsInv
  <2>3. UNCHANGED <<role, origin>>
    BY <1>6 DEF CreateInvite, accounts
  <2>4. InviteInv'
    <3> SUFFICES ASSUME NEW u \in Users, Live(u), origin[u] # Nobody
                 PROVE  invite'[origin[u]] = invite[origin[u]]
      BY <2>3 DEF OriginInv, InviteInv, Live
    <3>q. QED
      BY <2>1, <2>2 DEF TypeInv, RowsInv
  <2>q. QED
    BY <2>3, <2>4 DEF OriginInv, FreshInv, OneAccountPerInvite, Live
\* The code was open and unclaimed, so no account that is there came from it.
<1>7. ASSUME NEW r \in Requests, NEW i \in Invites, NEW u \in Users, RedeemInvite(r, i, u)
      PROVE  OriginInv'
  <2>1. /\ role[u] = "none" /\ invite[i].state = "open" /\ invite[i].by = Nobody
        /\ role' = [role EXCEPT ![u] = invite[i].role] /\ invite[i].role \in Roles
        /\ invite' = [invite EXCEPT ![i].by = u] /\ origin' = [origin EXCEPT ![u] = i]
    BY <1>7 DEF RedeemInvite, Unspent, TypeInv, RowsInv
  <2>2. ASSUME NEW v \in Users, Live(v), origin[v] # Nobody PROVE origin[v] # i /\ v # u
    BY <2>1, <2>2, NobodyAssumption DEF OriginInv, FreshInv, InviteInv
  <2>3. invite'[i].by = u /\ invite'[i].state = "open"
    BY <2>1 DEF TypeInv, RowsInv
  <2>4. \A j \in Invites : j # i => invite'[j] = invite[j]
    BY <2>1 DEF TypeInv, RowsInv
  <2>5. \A v \in Users : v # u => role'[v] = role[v] /\ origin'[v] = origin[v]
    BY <2>1 DEF TypeInv, RowsInv
  <2>6. role'[u] \in Roles /\ origin'[u] = i
    BY <2>1 DEF TypeInv, RowsInv
  <2>7. FreshInv'
    BY <2>5, <2>6 DEF OriginInv, FreshInv, Roles
  <2>8. InviteInv'
    <3> SUFFICES ASSUME NEW v \in Users, Live(v)', origin'[v] # Nobody
                 PROVE  LET j == invite'[origin'[v]] IN j.state = "over" \/ (j.state = "open" /\ j.by = v)
      BY DEF InviteInv
    <3>1. CASE v = u
      BY <3>1, <2>3, <2>6
    <3>2. CASE v # u
      BY <3>2, <2>2, <2>4, <2>5 DEF OriginInv, InviteInv, Live, TypeInv, RowsInv
    <3>q. QED
      BY <3>1, <3>2
  <2>9. OneAccountPerInvite'
    BY <2>2, <2>5, <2>6 DEF OriginInv, OneAccountPerInvite, Live
  <2>q. QED
    BY <2>7, <2>8, <2>9 DEF OriginInv
<1>8. ASSUME NEW r \in Requests, DeleteUser(r) PROVE OriginInv'
  <2> DEFINE u == req[r].on
  <2>1. CASE ~Live(u)
    BY <1>8, <2>1, OriginsKept DEF DeleteUser, tables, accounts, Live
  <2>2. CASE Live(u)
    <3>1. u \in Users /\ role' = [role EXCEPT ![u] = "gone"] /\ origin' = [origin EXCEPT ![u] = Nobody]
      BY <1>8, <2>2 DEF DeleteUser, TypeInv, RequestsInv, Sound, UserPc, At
    <3>2. \A v \in Users : v # u => role'[v] = role[v] /\ origin'[v] = origin[v]
      BY <3>1 DEF TypeInv, RowsInv
    <3>3. role'[u] = "gone" /\ origin'[u] = Nobody
      BY <3>1 DEF TypeInv, RowsInv
    <3>4. \A i \in Invites : invite[i].by # u => invite'[i] = invite[i]
      BY <1>8, <2>2 DEF DeleteUser
    <3>5. \A i \in Invites : invite'[i].state = invite[i].state
      BY <1>8, <2>2 DEF DeleteUser, TypeInv, RowsInv
    <3>6. FreshInv'
      BY <3>2, <3>3 DEF OriginInv, FreshInv
    <3>7. InviteInv'
      BY <3>2, <3>3, <3>4, <3>5 DEF OriginInv, InviteInv, Live, TypeInv, RowsInv
    <3>8. OneAccountPerInvite'
      BY <3>2, <3>3 DEF OriginInv, OneAccountPerInvite, Live
    <3>q. QED
      BY <3>6, <3>7, <3>8 DEF OriginInv
  <2>q. QED
    BY <2>1, <2>2
<1>q. QED
  BY <1>1, <1>2, <1>3, <1>4, <1>5, <1>6, <1>7, <1>8, InviteSteps

\* However many people race on one code, and whatever an administrator deletes
\* meanwhile, no two accounts that exist were made with it (redeemInvite).
THEOREM OneAccountEach == Spec => []OneAccountPerInvite
<1>1. Init => OriginInv
  BY DEF Init, OriginInv, FreshInv, InviteInv, OneAccountPerInvite
<1>2. OriginInv => OneAccountPerInvite
  BY DEF OriginInv
<1>q. QED
  BY <1>1, <1>2, NextOrigins, TypesHold, PTL DEF Spec

-----------------------------------------------------------------------------
(* Sessions.                                                               *)

\* No session grows old, and who was about to delete sessions still is.
Calm ==
    /\ \A u \in Users : "old" \in sessions'[u] => "old" \in sessions[u]
    /\ \A r \in Requests : At(r, "evict") => req'[r].pc = "evict" /\ req'[r].on = req[r].on

\* Such a step keeps SessionsFollowPassword.
LEMMA CalmKeeps == SessionsFollowPassword /\ Calm => SessionsFollowPassword'
  BY DEF SessionsFollowPassword, Calm, At

\* All steps but SetPassword and Evict are calm; these two are about one account.
LEMMA NextSessions == TypeInv /\ SessionsFollowPassword /\ [Next]_vars => SessionsFollowPassword'
<1> SUFFICES ASSUME TypeInv, SessionsFollowPassword, [Next]_vars PROVE SessionsFollowPassword'
  OBVIOUS
<1>1. ASSUME NEW u \in Users, NEW as \in Roles, AddUser(u, as) PROVE SessionsFollowPassword'
  BY <1>1, CalmKeeps DEF AddUser, Calm, At
<1>2. ASSUME NEW i \in Invites, NEW as \in Roles, CreateInvite(i, as) PROVE SessionsFollowPassword'
  BY <1>2, CalmKeeps DEF CreateInvite, Calm, At
<1>3. ASSUME NEW r \in Requests, NEW i \in Invites, NEW u \in Users, RedeemInvite(r, i, u)
      PROVE  SessionsFollowPassword'
  BY <1>3, CalmKeeps DEF RedeemInvite, Calm, Idle, At
<1>4. ASSUME NEW r \in Requests, NEW i \in Invites, RevokeRead(r, i) PROVE SessionsFollowPassword'
  BY <1>4, CalmKeeps DEF RevokeRead, Calm, Idle, tables, At
<1>5. ASSUME NEW r \in Requests, RevokeDelete(r) PROVE SessionsFollowPassword'
  BY <1>5, CalmKeeps DEF RevokeDelete, Calm, End, At
<1>6. ASSUME NEW r \in Requests, NEW u \in Users, Login(r, u) PROVE SessionsFollowPassword'
  BY <1>6, CalmKeeps DEF Login, Calm, Idle, tables, At
<1>7. ASSUME NEW r \in Requests, Issue(r) PROVE SessionsFollowPassword'
  BY <1>7, CalmKeeps DEF Issue, Calm, End, At, TypeInv, RowsInv
<1>8. ASSUME NEW u \in Users, Logout(u) PROVE SessionsFollowPassword'
  BY <1>8, CalmKeeps DEF Logout, Calm, At
<1>9. ASSUME NEW r \in Requests, NEW u \in Users, ChangePassword(r, u) PROVE SessionsFollowPassword'
  BY <1>9, CalmKeeps DEF ChangePassword, Calm, Idle, tables, At
<1>10. ASSUME NEW r \in Requests, SetPassword(r) PROVE SessionsFollowPassword'
  <2>1. CASE Live(req[r].on)
    <3>1. At(r, "evict")' /\ req'[r].on = req[r].on
      BY <1>10, <2>1 DEF SetPassword, Goto, At, TypeInv, RequestsInv, ReqType
    <3>2. \A q \in Requests : q # r => req'[q] = req[q]
      BY <1>10 DEF SetPassword, Goto, End, TypeInv, RequestsInv
    <3>3. \A u \in Users : u # req[r].on => sessions'[u] = sessions[u]
      BY <1>10, <2>1 DEF SetPassword, TypeInv, RowsInv
    <3>q. QED
      BY <1>10, <3>1, <3>2, <3>3 DEF SessionsFollowPassword, SetPassword, At
  <2>2. CASE ~Live(req[r].on)
    BY <1>10, <2>2, CalmKeeps DEF SetPassword, Calm, At, End, TypeInv, RequestsInv
  <2>q. QED
    BY <2>1, <2>2
<1>11. ASSUME NEW r \in Requests, NEW u \in Users, RevokeOthers(r, u) PROVE SessionsFollowPassword'
  BY <1>11, CalmKeeps DEF RevokeOthers, Calm, Idle, tables, At
<1>12. ASSUME NEW r \in Requests, Evict(r) PROVE SessionsFollowPassword'
  <2>1. \A u \in Users : u # req[r].on => sessions'[u] = sessions[u]
    BY <1>12 DEF Evict, TypeInv, RowsInv
  <2>2. \A u \in Users : u = req[r].on => sessions'[u] = {}
    BY <1>12 DEF Evict, TypeInv, RowsInv
  <2>3. \A q \in Requests : q # r => req'[q] = req[q]
    BY <1>12 DEF Evict, Goto, End, TypeInv, RequestsInv
  <2>q. QED
    BY <2>1, <2>2, <2>3 DEF SessionsFollowPassword, At
<1>13. ASSUME NEW r \in Requests, NEW u \in Users, LinkRead(r, u) PROVE SessionsFollowPassword'
  BY <1>13, CalmKeeps DEF LinkRead, Calm, Idle, tables, At
<1>14. ASSUME NEW r \in Requests, NEW l \in Links, CreateLink(r, l) PROVE SessionsFollowPassword'
  BY <1>14, CalmKeeps DEF CreateLink, Calm, End, At
<1>15. ASSUME NEW r \in Requests, NEW l \in Links, RedeemLink(r, l) PROVE SessionsFollowPassword'
  BY <1>15, CalmKeeps DEF RedeemLink, Calm, Idle, At, ResetEvicts
<1>16. ASSUME Expire PROVE SessionsFollowPassword'
  BY <1>16, CalmKeeps DEF Expire, Calm, At
<1>17. ASSUME NEW r \in Requests, NEW a \in Users, NEW act \in Changes, NEW u \in Users,
              AskChange(r, a, act, u)
       PROVE  SessionsFollowPassword'
  BY <1>17, CalmKeeps DEF AskChange, Calm, Idle, tables, At
<1>18. ASSUME NEW r \in Requests, ReadTarget(r) PROVE SessionsFollowPassword'
  BY <1>18, CalmKeeps DEF ReadTarget, Calm, Goto, End, tables, At, TypeInv, RequestsInv
<1>19. ASSUME NEW r \in Requests, CheckTarget(r) PROVE SessionsFollowPassword'
  BY <1>19, CalmKeeps DEF CheckTarget, Calm, Goto, tables, At
<1>20. ASSUME NEW r \in Requests, CountOthers(r) PROVE SessionsFollowPassword'
  BY <1>20, CalmKeeps DEF CountOthers, Calm, Goto, End, tables, At, TypeInv, RequestsInv
<1>21. ASSUME NEW r \in Requests, WriteChange(r) PROVE SessionsFollowPassword'
  BY <1>21, CalmKeeps DEF WriteChange, Calm, End, At, TypeInv, RequestsInv, ReqType, After
<1>22. ASSUME NEW r \in Requests, DeleteUser(r) PROVE SessionsFollowPassword'
  <2>1. \A u \in Users : sessions'[u] = sessions[u] \/ sessions'[u] = {}
    BY <1>22 DEF DeleteUser, tables, TypeInv, RowsInv
  <2>2. \A q \in Requests : At(q, "evict") => req'[q].pc = "evict" /\ req'[q].on = req[q].on
    <3>1. CASE After(r, Free)
      BY <1>22, <3>1 DEF DeleteUser, At, After, Deciding
    <3>2. CASE End(r)
      BY <1>22, <3>2 DEF DeleteUser, At, End
    <3>q. QED
      BY <1>22, <3>1, <3>2 DEF DeleteUser
  <2>q. QED
    BY <2>1, <2>2, CalmKeeps DEF Calm
<1>23. CASE UNCHANGED vars
  BY <1>23 DEF SessionsFollowPassword, At, vars, tables
<1>q. QED
  BY <1>1, <1>2, <1>3, <1>4, <1>5, <1>6, <1>7, <1>8, <1>9, <1>10, <1>11, <1>12, <1>13, <1>14,
     <1>15, <1>16, <1>17, <1>18, <1>19, <1>20, <1>21, <1>22, <1>23
  DEF Next, Invitation, Session, Reset, Administration

\* A password that was changed, by its owner, from the command line or through a
\* link, leaves no session from before without a request about to delete it.
THEOREM SessionsFollow == Spec => []SessionsFollowPassword
<1>1. Init => SessionsFollowPassword
  BY DEF Init, SessionsFollowPassword
<1>q. QED
  BY <1>1, NextSessions, TypesHold, PTL DEF Spec

-----------------------------------------------------------------------------
(* The last administrator.                                                 *)

\* Accounts that were there are as active as before, and nobody is about to write
\* who was not.
AdminsKept ==
    /\ \A u \in Users : role[u] # "none" => (Active(u)' <=> Active(u))
    /\ \A r \in Requests : req'[r].pc = "write" => req'[r] = req[r]

\* Such a step keeps ChangeInv.
LEMMA KeptChange == TypeInv /\ ChangeInv /\ AdminsKept => ChangeInv'
<1> SUFFICES ASSUME TypeInv, ChangeInv, AdminsKept,
                    NEW r \in Requests, req'[r].pc = "write", ~req'[r].stale, req'[r].act \in Demotions
             PROVE  (~Active(req[r].on) \/ OtherAdmins(req[r].on) # {})'
  BY DEF ChangeInv, At
<1>1. req'[r] = req[r] /\ req[r].pc = "write"
  BY DEF AdminsKept
<1>2. PICK u \in Users : u = req[r].on /\ u = req'[r].on /\ role[u] # "none"
  BY <1>1 DEF TypeInv, RequestsInv, Sound, UserPc
<1>3. CASE ~Active(u)
  <2>1. ~Active(u)'
    BY <1>2, <1>3 DEF AdminsKept
  <2>q. QED
    BY <1>2, <2>1 DEF Active
<1>4. CASE OtherAdmins(u) # {}
  <2>1. PICK a \in Users : a # u /\ Active(a)
    BY <1>4 DEF OtherAdmins
  <2>2. role[a] # "none"
    BY <2>1 DEF Active
  <2>3. Active(a)'
    BY <2>1, <2>2 DEF AdminsKept
  <2>q. QED
    BY <1>2, <2>1, <2>3 DEF OtherAdmins, Active
<1>q. QED
  BY <1>1, <1>2, <1>3, <1>4 DEF ChangeInv, At

\* The others: the reads that lead to a write, and the writes, which make others stale.
LEMMA NextChange == TypeInv /\ ChangeInv /\ [Next]_vars => ChangeInv'
<1> SUFFICES ASSUME TypeInv, ChangeInv, [Next]_vars PROVE ChangeInv'
  OBVIOUS
<1>1. ASSUME NEW u \in Users, NEW as \in Roles, AddUser(u, as) PROVE ChangeInv'
  BY <1>1, KeptChange DEF AddUser, AdminsKept, Active, TypeInv, RowsInv
<1>2. ASSUME NEW i \in Invites, NEW as \in Roles, CreateInvite(i, as) PROVE ChangeInv'
  BY <1>2, KeptChange DEF CreateInvite, AdminsKept, Active, accounts
<1>3. ASSUME NEW r \in Requests, NEW i \in Invites, NEW u \in Users, RedeemInvite(r, i, u)
      PROVE  ChangeInv'
  BY <1>3, KeptChange DEF RedeemInvite, AdminsKept, Active
<1>4. ASSUME NEW r \in Requests, NEW i \in Invites, RevokeRead(r, i) PROVE ChangeInv'
  BY <1>4, KeptChange DEF RevokeRead, AdminsKept, Active, tables, accounts
<1>5. ASSUME NEW r \in Requests, RevokeDelete(r) PROVE ChangeInv'
  BY <1>5, KeptChange DEF RevokeDelete, AdminsKept, Active, accounts, End, Free
<1>6. ASSUME NEW r \in Requests, NEW u \in Users, Login(r, u) PROVE ChangeInv'
  BY <1>6, KeptChange DEF Login, AdminsKept, Active, tables, accounts
<1>7. ASSUME NEW r \in Requests, Issue(r) PROVE ChangeInv'
  BY <1>7, KeptChange DEF Issue, AdminsKept, Active, accounts, End, Free
<1>8. ASSUME NEW u \in Users, Logout(u) PROVE ChangeInv'
  BY <1>8, KeptChange DEF Logout, AdminsKept, Active, accounts
<1>9. ASSUME NEW r \in Requests, NEW u \in Users, ChangePassword(r, u) PROVE ChangeInv'
  BY <1>9, KeptChange DEF ChangePassword, AdminsKept, Active, tables, accounts
<1>10. ASSUME NEW r \in Requests, SetPassword(r) PROVE ChangeInv'
  BY <1>10, KeptChange
  DEF SetPassword, AdminsKept, Active, accounts, TypeInv, RequestsInv, ReqType, Goto, End, Free
<1>11. ASSUME NEW r \in Requests, NEW u \in Users, RevokeOthers(r, u) PROVE ChangeInv'
  BY <1>11, KeptChange DEF RevokeOthers, AdminsKept, Active, tables, accounts
<1>12. ASSUME NEW r \in Requests, Evict(r) PROVE ChangeInv'
  BY <1>12, KeptChange
  DEF Evict, AdminsKept, Active, accounts, TypeInv, RequestsInv, ReqType, Goto, End, Free
<1>13. ASSUME NEW r \in Requests, NEW u \in Users, LinkRead(r, u) PROVE ChangeInv'
  BY <1>13, KeptChange DEF LinkRead, AdminsKept, Active, tables, accounts
<1>14. ASSUME NEW r \in Requests, NEW l \in Links, CreateLink(r, l) PROVE ChangeInv'
  BY <1>14, KeptChange DEF CreateLink, AdminsKept, Active, accounts, End, Free
<1>15. ASSUME NEW r \in Requests, NEW l \in Links, RedeemLink(r, l) PROVE ChangeInv'
  BY <1>15, KeptChange DEF RedeemLink, AdminsKept, Active, accounts
<1>16. ASSUME Expire PROVE ChangeInv'
  BY <1>16, KeptChange DEF Expire, AdminsKept, Active, accounts
<1>17. ASSUME NEW r \in Requests, NEW a \in Users, NEW act \in Changes, NEW u \in Users,
              AskChange(r, a, act, u)
       PROVE  ChangeInv'
  BY <1>17, KeptChange DEF AskChange, AdminsKept, Active, tables, accounts
<1>18. ASSUME NEW r \in Requests, ReadTarget(r) PROVE ChangeInv'
  <2>1. CASE Goto(r, "write") /\ ~Active(req[r].on)
    <3>1. \A q \in Requests : q # r => req'[q] = req[q]
      BY <2>1 DEF Goto, TypeInv, RequestsInv
    <3>2. req'[r].on = req[r].on
      BY <2>1 DEF Goto, TypeInv, RequestsInv, ReqType
    <3>q. QED
      BY <1>18, <2>1, <3>1, <3>2
      DEF ReadTarget, ChangeInv, At, Active, OtherAdmins, tables, accounts
  <2>2. CASE Goto(r, "write") /\ req[r].act \notin Demotions
    <3>1. \A q \in Requests : q # r => req'[q] = req[q]
      BY <2>2 DEF Goto, TypeInv, RequestsInv
    <3>2. req'[r].act = req[r].act
      BY <2>2 DEF Goto, TypeInv, RequestsInv, ReqType
    <3>q. QED
      BY <1>18, <2>2, <3>1, <3>2
      DEF ReadTarget, ChangeInv, At, Active, OtherAdmins, tables, accounts
  <2>3. CASE Goto(r, "evict") \/ Goto(r, "check") \/ End(r)
    <3>1. \A q \in Requests : req'[q].pc = "write" => req'[q] = req[q]
      BY <2>3 DEF Goto, End, Free, TypeInv, RequestsInv, ReqType
    <3>q. QED
      BY <1>18, <3>1, KeptChange DEF ReadTarget, AdminsKept, Active, tables, accounts
  <2>q. QED
    BY <1>18, <2>1, <2>2, <2>3 DEF ReadTarget, AfterRead, Demotions, Active
<1>19. ASSUME NEW r \in Requests, CheckTarget(r) PROVE ChangeInv'
  <2>1. CASE Goto(r, "write") /\ ~Active(req[r].on)
    <3>1. \A q \in Requests : q # r => req'[q] = req[q]
      BY <2>1 DEF Goto, TypeInv, RequestsInv
    <3>2. req'[r].on = req[r].on
      BY <2>1 DEF Goto, TypeInv, RequestsInv, ReqType
    <3>q. QED
      BY <1>19, <2>1, <3>1, <3>2
      DEF CheckTarget, ChangeInv, At, Active, OtherAdmins, tables, accounts
  <2>2. CASE Goto(r, "count")
    <3>1. \A q \in Requests : req'[q].pc = "write" => req'[q] = req[q]
      BY <2>2 DEF Goto, TypeInv, RequestsInv, ReqType
    <3>q. QED
      BY <1>19, <3>1, KeptChange DEF CheckTarget, AdminsKept, Active, tables, accounts
  <2>q. QED
    BY <1>19, <2>1, <2>2 DEF CheckTarget
<1>20. ASSUME NEW r \in Requests, CountOthers(r) PROVE ChangeInv'
  <2>1. CASE Goto(r, "write") /\ OtherAdmins(req[r].on) # {}
    <3>1. \A q \in Requests : q # r => req'[q] = req[q]
      BY <2>1 DEF Goto, TypeInv, RequestsInv
    <3>2. req'[r].on = req[r].on
      BY <2>1 DEF Goto, TypeInv, RequestsInv, ReqType
    <3>q. QED
      BY <1>20, <2>1, <3>1, <3>2
      DEF CountOthers, ChangeInv, At, Active, OtherAdmins, tables, accounts
  <2>2. CASE End(r)
    <3>1. \A q \in Requests : req'[q].pc = "write" => req'[q] = req[q]
      BY <2>2 DEF End, Free
    <3>q. QED
      BY <1>20, <3>1, KeptChange DEF CountOthers, AdminsKept, Active, tables, accounts
  <2>q. QED
    BY <1>20, <2>1, <2>2 DEF CountOthers
<1>21. ASSUME NEW r \in Requests, WriteChange(r) PROVE ChangeInv'
  <2>1. ASSUME NEW rec, rec.pc # "write", After(r, rec) PROVE ChangeInv'
    BY <2>1 DEF After, Deciding, ChangeInv, At
  <2>2. CASE End(r) /\ UNCHANGED accounts
    <3>1. \A q \in Requests : req'[q].pc = "write" => req'[q] = req[q]
      BY <2>2 DEF End, Free
    <3>q. QED
      BY <2>2, <3>1, KeptChange DEF AdminsKept, Active, accounts
  <2>q. QED
    BY <1>21, <2>1, <2>2 DEF WriteChange, Free, tables, accounts
<1>22. ASSUME NEW r \in Requests, DeleteUser(r) PROVE ChangeInv'
  <2>1. ASSUME NEW rec, rec.pc # "write", After(r, rec) PROVE ChangeInv'
    BY <2>1 DEF After, Deciding, ChangeInv, At
  <2>2. CASE End(r) /\ UNCHANGED accounts
    <3>1. \A q \in Requests : req'[q].pc = "write" => req'[q] = req[q]
      BY <2>2 DEF End, Free
    <3>q. QED
      BY <2>2, <3>1, KeptChange DEF AdminsKept, Active, accounts
  <2>q. QED
    BY <1>22, <2>1, <2>2 DEF DeleteUser, Free, tables, accounts
<1>23. CASE UNCHANGED vars
  BY <1>23, KeptChange DEF AdminsKept, Active, vars, tables, accounts
<1>q. QED
  BY <1>1, <1>2, <1>3, <1>4, <1>5, <1>6, <1>7, <1>8, <1>9, <1>10, <1>11, <1>12, <1>13, <1>14,
     <1>15, <1>16, <1>17, <1>18, <1>19, <1>20, <1>21, <1>22, <1>23
  DEF Next, Invitation, Session, Reset, Administration

\* The steps that write role or disabled.
LEMMA RoleSteps ==
    [Next]_vars => \/ UNCHANGED accounts
                   \/ \E r \in Requests : WriteChange(r) \/ DeleteUser(r)
                   \/ \E u \in Users, as \in Roles : AddUser(u, as)
                   \/ \E r \in Requests, i \in Invites, u \in Users : RedeemInvite(r, i, u)
  BY
  DEF Next, Invitation, Session, Reset, Administration, vars, tables, CreateInvite, RevokeRead,
      RevokeDelete, Login, Issue, Logout, ChangePassword, SetPassword, RevokeOthers, Evict,
      LinkRead, CreateLink, RedeemLink, Expire, AskChange, ReadTarget, CheckTarget, CountOthers

\* What AdminRemains says of a step.
SomeAdmin == \E a \in Users : Active(a)
StaleWrite == \E r \in Requests : At(r, "write") /\ req[r].stale

\* One step of AdminRemains.
LEMMA AdminStep == TypeInv /\ ChangeInv /\ [Next]_vars => (SomeAdmin => SomeAdmin' \/ StaleWrite)
<1> SUFFICES ASSUME TypeInv, ChangeInv, [Next]_vars, NEW a \in Users, Active(a), ~StaleWrite
             PROVE  SomeAdmin'
  BY DEF SomeAdmin
<1>1. CASE UNCHANGED accounts
  BY <1>1 DEF accounts, Active, SomeAdmin
\* Whoever demotes, disables or deletes spares a, or another administrator.
<1>2. ASSUME NEW r \in Requests, WriteChange(r) \/ DeleteUser(r) PROVE SomeAdmin'
  <2>1. At(r, "write") /\ ~req[r].stale /\ req[r].on \in Users
    BY <1>2 DEF WriteChange, DeleteUser, StaleWrite, TypeInv, RequestsInv, Sound, At, UserPc
  <2>2. \A b \in Users : b # req[r].on /\ Active(b) => Active(b)'
    BY <1>2, <2>1 DEF WriteChange, DeleteUser, Active, TypeInv, RowsInv, tables, accounts
  <2>3. CASE req[r].act \in Demotions
    <3>1. PICK b \in Users : b # req[r].on /\ Active(b)
      BY <2>1, <2>3 DEF ChangeInv, OtherAdmins
    <3>q. QED
      BY <2>2, <3>1 DEF SomeAdmin
  <2>4. CASE req[r].act \notin Demotions
    <3>1. Active(a)'
      BY <1>2, <2>1, <2>4 DEF WriteChange, DeleteUser, Active, Demotions, TypeInv, RowsInv
    <3>q. QED
      BY <3>1 DEF SomeAdmin
  <2>q. QED
    BY <2>3, <2>4
<1>3. ASSUME NEW u \in Users, NEW as \in Roles, AddUser(u, as) PROVE SomeAdmin'
  BY <1>3 DEF AddUser, Active, SomeAdmin, TypeInv, RowsInv
<1>4. ASSUME NEW r \in Requests, NEW i \in Invites, NEW u \in Users, RedeemInvite(r, i, u)
      PROVE  SomeAdmin'
  BY <1>4 DEF RedeemInvite, Active, SomeAdmin
<1>q. QED
  BY <1>1, <1>2, <1>3, <1>4, RoleSteps

\* No change of accounts that was decided on fresh reads takes the last active
\* administrator away (assertNotLastAdmin), however many are decided at once.
THEOREM AnAdminRemains == Spec => AdminRemains
<1>1. Init => ChangeInv
  BY DEF Init, ChangeInv, At, Free
<1>2. TypeInv /\ ChangeInv /\ [Next]_vars => [SomeAdmin => SomeAdmin' \/ StaleWrite]_vars
  BY AdminStep
<1>3. [SomeAdmin => SomeAdmin' \/ StaleWrite]_vars
        => [(\E a \in Users : Active(a)) => \/ (\E a \in Users : Active(a))'
                                            \/ \E r \in Requests : At(r, "write") /\ req[r].stale]_vars
  BY DEF SomeAdmin, StaleWrite
<1>q. QED
  BY <1>1, <1>2, <1>3, NextChange, TypesHold, PTL DEF Spec, AdminRemains

=============================================================================
