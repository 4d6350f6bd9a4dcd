---------------------------- MODULE EventStream ----------------------------
(***************************************************************************)
(* How the state of the downloads reaches the browsers: publishDownload    *)
(* and the event bus (downloads/service.ts, lib/events.ts), the SSE        *)
(* endpoint (routes/events.ts) and the list the web client keeps           *)
(* (web/src/hooks/useDownloads.tsx).                                       *)
(*                                                                         *)
(* A row is the number of times it was written; a list maps each download  *)
(* to the row the browser shows, or to 0.  Publishing is a read of the row *)
(* and, when that returns, an emit; database calls overlap (lib/db.ts asks *)
(* for it), so what one caller read may be emitted after what another read *)
(* later.  A database call may fail: runJob's catch then ends the run, and  *)
(* leaves behind the chain of its progress writes.  Left out: a restart of *)
(* the server, the order of the list, its limits of 50 and 100 rows,       *)
(* heartbeats, malformed frames.                                           *)
(***************************************************************************)
EXTENDS Naturals, Sequences

CONSTANTS
    Jobs, Requests, Clients,
    MaxVersion,    \* bound: how often a row is written
    MaxFaults,     \* bound: how many database calls fail
    MaxDrops,      \* bound: how often streams are closed
    MaxRefreshes   \* bound: how often a page asks for the list

ASSUME BoundsAssumption == {MaxVersion, MaxFaults, MaxDrops, MaxRefreshes} \subseteq Nat
ASSUME NamesAssumption == Jobs # {"job", "row"}    \* a list is no update of one job

VARIABLES
    stage, version,        \* the rows
    pub,                   \* what each publisher is about to emit
    left, late, faults,    \* the chains left behind, and those with more to write
    conn, snapshot, chan,  \* each client's stream, as the server sees it
    list, answer,          \* each client's list, and the refresh on its way
    drops, refreshes,
    disturbed, gap         \* history: see OverIsShown

rows == <<stage, version>>
chains == <<left, late>>
server == <<rows, pub, chains, faults>>
stream == <<conn, snapshot, chan, drops>>
page == <<list, answer, refreshes>>
history == <<disturbed, gap>>
vars == <<server, stream, page, history>>

\* A job's run (one at a time), the chain of its progress writes, the chains that
\* earlier runs left behind, and the requests.
Runs == {"run"} \X Jobs
Chains == {"chain"} \X Jobs \X (0..MaxFaults)
Publishers == Runs \cup Chains \cup Requests
RunOf(j) == <<"run", j>>
ChainOf(j) == <<"chain", j, left[j]>>

\* "stuck": RUNNING with nobody at work, since the catch could not write FAILED.
Stage == {"none", "queued", "running", "stuck", "over", "gone"}
HasRow(j) == stage[j] \notin {"none", "gone"}
Versions == 0..MaxVersion
List == [Jobs -> Versions]
Empty == [j \in Jobs |-> 0]
InFlight == List \cup {<<>>}

\* What a read of the rows returns.
Rows == [j \in Jobs |-> IF HasRow(j) THEN version[j] ELSE 0]

Idle(p) == pub[p].pc = "idle"
AtRest == [pc |-> "idle", job |-> "none", row |-> 0]

\* Somebody has yet to publish what is written of j.
Owed(j) == \E p \in Publishers : ~Idle(p) /\ pub[p].job = j

Init ==
    /\ stage = [j \in Jobs |-> "none"]
    /\ version = [j \in Jobs |-> 0]
    /\ pub = [p \in Publishers |-> AtRest]
    /\ left = [j \in Jobs |-> 0] /\ late = [j \in Jobs |-> {}] /\ faults = 0
    /\ conn = [c \in Clients |-> "off"]
    /\ snapshot = [c \in Clients |-> Empty]
    /\ chan = [c \in Clients |-> <<>>]
    /\ list = [c \in Clients |-> Empty]
    /\ answer = [c \in Clients |-> <<>>]
    /\ drops = 0 /\ refreshes = 0
    /\ disturbed = [j \in Jobs |-> FALSE]
    /\ gap = [c \in Clients |-> FALSE]

-----------------------------------------------------------------------------
(* Writers.  Each write of a row is followed by a publication.             *)

Write(j, st) ==
    /\ version[j] < MaxVersion
    /\ version' = [version EXCEPT ![j] = @ + 1]
    /\ stage' = [stage EXCEPT ![j] = st]

About(j, pc) == [AtRest EXCEPT !.pc = pc, !.job = j]
Publish(p, j) == Idle(p) /\ pub' = [pub EXCEPT ![p] = About(j, "read")]

\* createDownload publishes the row its insert returned.
Create(r, j) ==
    /\ stage[j] = "none" /\ Idle(r)
    /\ Write(j, "queued")
    /\ pub' = [pub EXCEPT ![r] = [pc |-> "emit", job |-> j, row |-> version'[j]]]
    /\ disturbed' = [disturbed EXCEPT ![j] = TRUE]
    /\ UNCHANGED <<chains, faults, stream, page, gap>>

\* requestCancel and retryDownload.
Ask(r, j) ==
    /\ \/ stage[j] = "queued" /\ Write(j, "over")
       \/ stage[j] \in {"running", "stuck"} /\ Write(j, stage[j])
       \/ stage[j] = "over" /\ Write(j, "queued")
    /\ Publish(r, j)
    /\ disturbed' = [disturbed EXCEPT ![j] = TRUE]
    /\ UNCHANGED <<chains, faults, stream, page, gap>>

\* deleteDownload: the event carries the id alone.
Delete(r, j) ==
    /\ stage[j] = "over" /\ Idle(r)
    /\ stage' = [stage EXCEPT ![j] = "gone"]
    /\ pub' = [pub EXCEPT ![r] = [pc |-> "emit", job |-> j, row |-> 0]]
    /\ disturbed' = [disturbed EXCEPT ![j] = Owed(j)]
    /\ UNCHANGED <<version, chains, faults, stream, page, gap>>

RunStarts(j) ==
    /\ stage[j] = "queued"
    /\ Write(j, "running")
    /\ Publish(RunOf(j), j)
    /\ disturbed' = [disturbed EXCEPT ![j] = Owed(j) \/ late[j] # {}]
    /\ UNCHANGED <<chains, faults, stream, page, gap>>

\* persistProgress, one write after the other.
ChainWrites(j) ==
    /\ stage[j] = "running"
    /\ Write(j, "running")
    /\ Publish(ChainOf(j), j)
    /\ UNCHANGED <<chains, faults, stream, page, history>>

\* A file is complete.
RunWrites(j) ==
    /\ stage[j] = "running"
    /\ Write(j, "running")
    /\ Publish(RunOf(j), j)
    /\ UNCHANGED <<chains, faults, stream, page, history>>

\* Mutant: the verdict does not wait for the chain.
SettledNever(j) == TRUE

\* settleProgressWrites.
Settled(j) == Idle(ChainOf(j))

RunFinishes(j) ==
    /\ stage[j] = "running" /\ Settled(j)
    /\ Write(j, "over")
    /\ Publish(RunOf(j), j)
    /\ UNCHANGED <<chains, faults, stream, page, history>>

LeavesChain(j) ==
    /\ left' = [left EXCEPT ![j] = @ + 1]
    /\ late' = [late EXCEPT ![j] = @ \cup {left[j]}]
    /\ disturbed' = [disturbed EXCEPT ![j] = TRUE]

\* A call of the run fails, the read of its own publication included: runJob's
\* catch writes FAILED, over whatever the row is by then, unless that fails too,
\* and publishes.  It waits for nothing: the chain, when a write of it is still
\* under way, is left behind, and a later run has a chain of its own.
RunThrows(j) ==
    /\ stage[j] \in {"queued", "running", "over"}
    /\ \/ stage[j] = "running" /\ Idle(RunOf(j))
       \/ pub[RunOf(j)] = About(j, "read")
    /\ pub' = [pub EXCEPT ![RunOf(j)] = About(j, "last")]
    /\ \/ faults + 1 <= MaxFaults /\ faults' = faults + 1 /\ Write(j, "over")
       \/ /\ faults + 2 <= MaxFaults /\ faults' = faults + 2
          /\ stage' = [stage EXCEPT ![j] = IF @ = "running" THEN "stuck" ELSE @]
          /\ UNCHANGED version
    /\ \/ stage[j] = "running" /\ LeavesChain(j)
       \/ Idle(ChainOf(j)) /\ UNCHANGED <<chains, disturbed>>
    /\ UNCHANGED <<stream, page, gap>>

\* What is queued on a chain left behind is written all the same.
LateWrites(j, k) ==
    /\ k \in late[j] /\ HasRow(j)
    /\ Write(j, stage[j])
    /\ Publish(<<"chain", j, k>>, j)
    /\ UNCHANGED <<chains, faults, stream, page, history>>

LateEnds(j, k) ==
    /\ k \in late[j] /\ Idle(<<"chain", j, k>>)
    /\ late' = [late EXCEPT ![j] = @ \ {k}]
    /\ UNCHANGED <<rows, pub, left, faults, stream, page, history>>

\* publishDownload: the row, or nothing when there is none any more.
ReadRow(p) ==
    /\ pub[p].pc \in {"read", "last"}
    /\ LET row == Rows[pub[p].job] IN
         pub' = [pub EXCEPT ![p] = IF row = 0 THEN AtRest ELSE [@ EXCEPT !.pc = "emit", !.row = row]]
    /\ UNCHANGED <<rows, chains, faults, stream, page, history>>

\* The read fails and nobody makes it good: a request answers an error, a chain
\* logs it, a run tries the file again, and the catch lets it pass.  (When a run
\* has written its verdict the failure is RunThrows.)
ReadFails(p) ==
    /\ pub[p].pc \in {"read", "last"} /\ faults < MaxFaults
    /\ p \in Runs /\ pub[p].pc = "read" => stage[pub[p].job] = "running"
    /\ faults' = faults + 1
    /\ pub' = [pub EXCEPT ![p] = AtRest]
    /\ disturbed' = [disturbed EXCEPT ![pub[p].job] = @ \/ pub[p].pc = "last"]
    /\ UNCHANGED <<rows, chains, stream, page, gap>>

\* Mutant: a closed stream is still listened on.
HearsStill(c) == conn[c] \in {"open", "off"}

\* subscribe, until the stream closes.
Hears(c) == conn[c] = "open"

\* Every listener writes the event to its own stream.
Emit(p) ==
    /\ pub[p].pc = "emit"
    /\ chan' = [c \in Clients |->
         IF Hears(c) THEN Append(chan[c], [job |-> pub[p].job, row |-> pub[p].row])
                     ELSE chan[c]]
    /\ pub' = [pub EXCEPT ![p] = AtRest]
    /\ gap' = [c \in Clients |-> gap[c] \/ conn[c] = "answered" \/ answer[c] # <<>>]
    /\ UNCHANGED <<rows, chains, faults, conn, snapshot, drops, page, disturbed>>

-----------------------------------------------------------------------------
(* The endpoint.                                                           *)

Connect(c) ==
    /\ conn[c] = "off"
    /\ conn' = [conn EXCEPT ![c] = "asked"]
    /\ UNCHANGED <<server, snapshot, chan, drops, page, history>>

\* listDownloads reads the rows; the handler still waits for it.
ReadList(c) ==
    /\ conn[c] = "asked"
    /\ conn' = [conn EXCEPT ![c] = "answered"]
    /\ snapshot' = [snapshot EXCEPT ![c] = Rows]
    /\ gap' = [gap EXCEPT ![c] = answer[c] # <<>>]
    /\ UNCHANGED <<server, chan, drops, page, disturbed>>

\* The snapshot is sent, then the listener and the close handlers registered.
Subscribe(c) ==
    /\ conn[c] = "answered"
    /\ conn' = [conn EXCEPT ![c] = "open"]
    /\ chan' = [chan EXCEPT ![c] = <<snapshot[c]>>]
    /\ snapshot' = [snapshot EXCEPT ![c] = Empty]
    /\ UNCHANGED <<server, drops, page, history>>

\* The stream is lost (the list stays) or the user signed out (it goes).  A
\* handler that still waits for the rows goes on for a connection that is gone.
Close(c) ==
    /\ conn[c] # "off" /\ drops < MaxDrops
    /\ drops' = drops + 1
    /\ conn' = [conn EXCEPT ![c] = "off"]
    /\ chan' = [chan EXCEPT ![c] = <<>>]
    /\ snapshot' = [snapshot EXCEPT ![c] = Empty]
    /\ \/ UNCHANGED list
       \/ list' = [list EXCEPT ![c] = Empty]
    /\ UNCHANGED <<server, answer, refreshes, history>>

-----------------------------------------------------------------------------
(* The web client.                                                         *)

\* Mutant: a snapshot only adds.
TakeMerged(l, s) == [j \in Jobs |-> IF s[j] = 0 THEN l[j] ELSE s[j]]

Take(l, s) == s

\* applyEvent: a snapshot replaces the list; an update of a download that is
\* not in it inserts it.
Apply(l, e) == IF e \in List THEN Take(l, e) ELSE [l EXCEPT ![e.job] = e.row]

Receive(c) ==
    /\ chan[c] # <<>>
    /\ list' = [list EXCEPT ![c] = Apply(@, Head(chan[c]))]
    /\ chan' = [chan EXCEPT ![c] = Tail(@)]
    /\ UNCHANGED <<server, conn, snapshot, drops, answer, refreshes, history>>

\* refresh(): the list is read, and set when the answer arrives.
RefreshRead(c) ==
    /\ answer[c] = <<>> /\ refreshes < MaxRefreshes
    /\ refreshes' = refreshes + 1
    /\ answer' = [answer EXCEPT ![c] = Rows]
    /\ UNCHANGED <<server, stream, list, history>>

RefreshSet(c) ==
    /\ answer[c] # <<>>
    /\ list' = [list EXCEPT ![c] = answer[c]]
    /\ answer' = [answer EXCEPT ![c] = <<>>]
    /\ UNCHANGED <<server, stream, refreshes, history>>

Worker(j) == RunStarts(j) \/ ChainWrites(j) \/ RunWrites(j) \/ RunFinishes(j) \/ RunThrows(j)
LeftOver(j, k) == LateWrites(j, k) \/ LateEnds(j, k)
User(r, j) == Create(r, j) \/ Ask(r, j) \/ Delete(r, j)
Endpoint(c) == Connect(c) \/ ReadList(c) \/ Subscribe(c) \/ Close(c)
Page(c) == Receive(c) \/ RefreshRead(c) \/ RefreshSet(c)

Next ==
    \/ \E j \in Jobs : Worker(j) \/ \E r \in Requests : User(r, j)
    \/ \E j \in Jobs, k \in 0..MaxFaults : LeftOver(j, k)
    \/ \E p \in Publishers : ReadRow(p) \/ ReadFails(p) \/ Emit(p)
    \/ \E c \in Clients : Endpoint(c) \/ Page(c)

Spec == Init /\ [][Next]_vars

-----------------------------------------------------------------------------
TypeOK ==
    /\ stage \in [Jobs -> Stage] /\ version \in [Jobs -> Versions]
    /\ faults \in 0..MaxFaults
    /\ \A j \in Jobs : left[j] \in 0..faults /\ \A k \in late[j] : k \in 0..MaxFaults /\ k < left[j]
    /\ \A p \in Publishers : /\ pub[p].pc \in {"idle", "read", "last", "emit"}
                             /\ pub[p].row \in Versions
                             /\ ~Idle(p) => pub[p].job \in Jobs
    /\ conn \in [Clients -> {"off", "asked", "answered", "open"}]
    /\ snapshot \in [Clients -> List] /\ list \in [Clients -> List]
    /\ answer \in [Clients -> InFlight]
    /\ \A c \in Clients : conn[c] # "open" => chan[c] = <<>>
    /\ disturbed \in [Jobs -> BOOLEAN] /\ gap \in [Clients -> BOOLEAN]

\* Nothing is on its way to client c.
Quiet(c) ==
    /\ conn[c] = "open" /\ chan[c] = <<>> /\ answer[c] = <<>>
    /\ \A p \in Publishers : Idle(p)

\* A download that ran undisturbed is shown as over, in its last state, to every
\* client whose stream has no gap: none of its progress events can come after
\* the event of its end (settleProgressWrites).  A run that a failing call ends
\* (runJob's catch) is shown so too, unless a progress write was then under way:
\* nothing waits for that one, and what it read before may come after the end.
\* "disturbed": this, or the read of the catch's own publication failed, a request
\* wrote the row since the run began, or an event of an earlier write, or a chain
\* that an earlier run left behind, was then still to come.  "gap": an event was
\* emitted while a list that was read before it was on its way to the client.
OverIsShown ==
    \A c \in Clients, j \in Jobs :
        Quiet(c) /\ ~gap[c] /\ stage[j] = "over" /\ ~disturbed[j] => list[c][j] = version[j]

\* A download that was deleted when none of its events was still to come is shown
\* by no client whose stream has no gap, whether the client heard of the deletion
\* or was away and got a snapshot since: a snapshot replaces the list.
GoneIsGone ==
    \A c \in Clients, j \in Jobs :
        Quiet(c) /\ ~gap[c] /\ stage[j] = "gone" /\ ~disturbed[j] => list[c][j] = 0

\* "A fresh client gets the full picture up front, so it never has to poll":
\* a client to which nothing is on its way shows the rows.
FullPicture == \A c \in Clients : Quiet(c) => list[c] = Rows
=============================================================================
