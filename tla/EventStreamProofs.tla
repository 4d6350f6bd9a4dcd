-------------------------- MODULE EventStreamProofs --------------------------
(***************************************************************************)
(* Proofs about EventStream, for every number of downloads, requests and   *)
(* browsers, and every bound.                                              *)
(***************************************************************************)
EXTENDS EventStream, SequenceTheorems, TLAPS

Event == List \cup [job : Jobs, row : Versions]

PubTyped ==
    /\ pub \in [Publishers -> [pc : {"idle", "read", "last", "emit"}, job : Jobs \cup {"none"}, row : Versions]]
    /\ \A p \in Publishers : ~Idle(p) => pub[p].job \in Jobs

RowsTyped == stage \in [Jobs -> Stage] /\ version \in [Jobs -> Versions]

ChainsTyped ==
    /\ faults \in 0..MaxFaults
    /\ left \in [Jobs -> 0..MaxFaults] /\ late \in [Jobs -> SUBSET (0..MaxFaults)]
    /\ \A j \in Jobs : left[j] <= faults /\ \A k \in late[j] : k < left[j]

StreamTyped ==
    /\ conn \in [Clients -> {"off", "asked", "answered", "open"}]
    /\ snapshot \in [Clients -> List]
    /\ chan \in [Clients -> Seq(Event)]
    /\ \A c \in Clients : conn[c] # "open" => chan[c] = <<>>

PageTyped == list \in [Clients -> List] /\ answer \in [Clients -> InFlight]

HistoryTyped == disturbed \in [Jobs -> BOOLEAN] /\ gap \in [Clients -> BOOLEAN]

Typed == PubTyped /\ RowsTyped /\ ChainsTyped /\ StreamTyped /\ PageTyped /\ HistoryTyped

LEMMA VersionsCount == 0 \in Versions /\ \A v \in Versions : v < MaxVersion => v + 1 \in Versions
  BY BoundsAssumption DEF Versions

LEMMA RowsAreList == ASSUME RowsTyped PROVE Rows \in List
  BY VersionsCount DEF Rows, HasRow, RowsTyped, List

\* An update of one download is not taken for a list.
LEMMA UpdateIsNoList == ASSUME NEW e \in [job : Jobs, row : Versions] PROVE e \notin List
<1>1. DOMAIN e = {"job", "row"}
  OBVIOUS
<1>2. \A l \in List : DOMAIN l = Jobs
  BY DEF List
<1>. QED BY <1>1, <1>2, NamesAssumption

LEMMA ApplyTyped == ASSUME NEW l \in List, NEW e \in Event PROVE Apply(l, e) \in List
  BY UpdateIsNoList DEF Apply, Take, Event, List

LEMMA PublisherKinds ==
  /\ \A r \in Requests : r \in Publishers
  /\ \A j \in Jobs : RunOf(j) \in Publishers /\ RunOf(j) \in Runs
  /\ \A j \in Jobs, k \in 0..MaxFaults : <<"chain", j, k>> \in Publishers
  BY DEF Publishers, Runs, Chains, RunOf

LEMMA ChainIsPublisher == ASSUME ChainsTyped, NEW j \in Jobs PROVE ChainOf(j) \in Publishers
  BY PublisherKinds DEF ChainsTyped, ChainOf

LEMMA TypedFirst == Init => Typed
<1>. SUFFICES ASSUME Init PROVE Typed
  OBVIOUS
<1>1. PubTyped /\ RowsTyped
  BY VersionsCount DEF Init, PubTyped, RowsTyped, AtRest, Idle, Stage
<1>2. Empty \in List
  BY VersionsCount DEF Empty, List
<1>4. ChainsTyped
  BY BoundsAssumption DEF Init, ChainsTyped
<1>3. StreamTyped /\ PageTyped /\ HistoryTyped
  BY <1>2 DEF Init, StreamTyped, PageTyped, HistoryTyped, InFlight
<1>. QED BY <1>1, <1>3, <1>4 DEF Typed

\* A write of a row.
LEMMA WriteTyped ==
  ASSUME RowsTyped, NEW j \in Jobs, NEW st \in Stage, Write(j, st)
  PROVE  RowsTyped' /\ version'[j] = version[j] + 1 /\ version'[j] \in Versions
  BY VersionsCount DEF RowsTyped, Write

LEMMA PublishTyped ==
  ASSUME PubTyped, NEW p \in Publishers, NEW j \in Jobs, Publish(p, j)
  PROVE  PubTyped'
  BY VersionsCount DEF PubTyped, Publish, About, AtRest, Idle

LEMMA EmitsTyped ==
  ASSUME PubTyped, NEW p \in Publishers, NEW j \in Jobs, NEW v \in Versions,
         pub' = [pub EXCEPT ![p] = [pc |-> "emit", job |-> j, row |-> v]]
  PROVE  PubTyped'
  BY DEF PubTyped, Idle

LEMMA ThrowTyped == ASSUME Typed, NEW j \in Jobs, RunThrows(j) PROVE Typed'
<1>. USE DEF Typed
<1>1. RowsTyped'
  <2>1. CASE Write(j, "over")
    BY <2>1, WriteTyped DEF Stage
  <2>2. CASE UNCHANGED version /\ stage' = [stage EXCEPT ![j] = IF @ = "running" THEN "stuck" ELSE @]
    BY <2>2 DEF RowsTyped, Stage
  <2>. QED BY <2>1, <2>2 DEF RunThrows
<1>2. PubTyped'
  BY PublisherKinds, VersionsCount DEF RunThrows, PubTyped, About, AtRest, Idle
<1>3. faults \in Nat /\ faults' \in 0..MaxFaults /\ faults' >= faults + 1
  BY BoundsAssumption DEF RunThrows, ChainsTyped
<1>4. ChainsTyped' /\ HistoryTyped'
  <2>1. CASE LeavesChain(j)
    <3>1. left[j] \in 0..MaxFaults /\ left[j] <= faults
      BY DEF ChainsTyped
    <3>2. left' \in [Jobs -> 0..MaxFaults] /\ late' \in [Jobs -> SUBSET (0..MaxFaults)]
      BY <1>3, <2>1, <3>1, BoundsAssumption DEF LeavesChain, ChainsTyped
    <3>3. \A i \in Jobs : left'[i] <= faults' /\ \A k \in late'[i] : k < left'[i]
      BY <1>3, <2>1, <3>1, BoundsAssumption DEF LeavesChain, ChainsTyped
    <3>. QED BY <1>3, <2>1, <3>2, <3>3 DEF LeavesChain, ChainsTyped, HistoryTyped, RunThrows
  <2>2. CASE UNCHANGED <<chains, disturbed>>
    BY <1>3, <2>2, BoundsAssumption DEF chains, ChainsTyped, HistoryTyped, RunThrows
  <2>. QED BY <2>1, <2>2 DEF RunThrows
<1>. QED BY <1>1, <1>2, <1>4 DEF RunThrows, StreamTyped, PageTyped, stream, page

LEMMA TypedStep == ASSUME Typed, Next PROVE Typed'
<1>. USE DEF Typed
<1>1. ASSUME NEW j \in Jobs, Worker(j), ~RunThrows(j) PROVE Typed'
  <2>1. \E st \in Stage : Write(j, st)
    BY <1>1 DEF Worker, RunStarts, ChainWrites, RunWrites, RunFinishes, Stage
  <2>2. \E p \in Publishers : Publish(p, j)
    BY <1>1, PublisherKinds, ChainIsPublisher DEF Worker, RunStarts, ChainWrites, RunWrites, RunFinishes
  <2>3. RowsTyped' /\ PubTyped'
    BY <2>1, <2>2, WriteTyped, PublishTyped
  <2>4. HistoryTyped'
    BY <1>1 DEF Worker, RunStarts, ChainWrites, RunWrites, RunFinishes, HistoryTyped, Owed, history
  <2>5. UNCHANGED <<chains, faults, stream, page>>
    BY <1>1 DEF Worker, RunStarts, ChainWrites, RunWrites, RunFinishes
  <2>. QED BY <2>3, <2>4, <2>5 DEF ChainsTyped, StreamTyped, PageTyped, chains, stream, page
<1>7. ASSUME NEW j \in Jobs, NEW k \in 0..MaxFaults, LeftOver(j, k) PROVE Typed'
  <2>1. CASE LateWrites(j, k)
    <3>1. RowsTyped'
      BY <2>1, WriteTyped DEF LateWrites, RowsTyped
    <3>2. PubTyped'
      BY <2>1, PublisherKinds, PublishTyped DEF LateWrites
    <3>. QED BY <2>1, <3>1, <3>2 DEF LateWrites, ChainsTyped, StreamTyped, PageTyped, HistoryTyped,
                chains, stream, page, history
  <2>2. CASE LateEnds(j, k)
    BY <2>2 DEF LateEnds, PubTyped, Idle, RowsTyped, ChainsTyped, StreamTyped, PageTyped, HistoryTyped,
                rows, stream, page, history
  <2>. QED BY <1>7, <2>1, <2>2 DEF LeftOver
<1>8. ASSUME NEW p \in Publishers, ReadFails(p) PROVE Typed'
  <2>1. PubTyped'
    BY <1>8, VersionsCount DEF ReadFails, PubTyped, AtRest, Idle
  <2>2. ChainsTyped'
    BY <1>8, BoundsAssumption DEF ReadFails, ChainsTyped, chains
  <2>3. pub[p].job \in Jobs
    BY <1>8 DEF ReadFails, PubTyped, Idle
  <2>4. HistoryTyped'
    BY <1>8, <2>3 DEF ReadFails, HistoryTyped
  <2>. QED BY <1>8, <2>1, <2>2, <2>4 DEF ReadFails, RowsTyped, StreamTyped, PageTyped, rows, stream, page
<1>2. ASSUME NEW r \in Requests, NEW j \in Jobs, User(r, j) PROVE Typed'
  <2>1. CASE Create(r, j)
    <3>1. RowsTyped' /\ version'[j] \in Versions
      BY <2>1, WriteTyped DEF Create, Stage
    <3>2. PubTyped'
      BY <2>1, <3>1, EmitsTyped, PublisherKinds DEF Create
    <3>. QED BY <2>1, <3>1, <3>2 DEF Create, ChainsTyped, chains, StreamTyped, PageTyped, HistoryTyped, stream, page
  <2>2. CASE Ask(r, j)
    <3>1. RowsTyped'
      BY <2>2, WriteTyped DEF Ask, Stage, RowsTyped
    <3>2. PubTyped'
      BY <2>2, PublishTyped, PublisherKinds DEF Ask
    <3>. QED BY <2>2, <3>1, <3>2 DEF Ask, ChainsTyped, chains, StreamTyped, PageTyped, HistoryTyped, stream, page
  <2>3. CASE Delete(r, j)
    <3>1. RowsTyped'
      BY <2>3 DEF Delete, RowsTyped, Stage
    <3>2. PubTyped'
      BY <2>3, VersionsCount, EmitsTyped, PublisherKinds DEF Delete
    <3>. QED BY <2>3, <3>1, <3>2 DEF Delete, ChainsTyped, chains, StreamTyped, PageTyped, HistoryTyped, Owed, stream, page
  <2>. QED BY <1>2, <2>1, <2>2, <2>3 DEF User
<1>3. ASSUME NEW p \in Publishers, ReadRow(p) PROVE Typed'
  <2>1. pub[p].job \in Jobs /\ Rows[pub[p].job] \in Versions
    BY <1>3, RowsAreList DEF ReadRow, PubTyped, Idle, List
  <2>2. PubTyped'
    BY <1>3, <2>1, VersionsCount DEF ReadRow, PubTyped, AtRest, Idle
  <2>. QED BY <1>3, <2>2
           DEF ReadRow, RowsTyped, ChainsTyped, chains, StreamTyped, PageTyped, HistoryTyped, rows, stream, page, history
<1>4. ASSUME NEW p \in Publishers, Emit(p) PROVE Typed'
  <2>1. [job |-> pub[p].job, row |-> pub[p].row] \in Event
    BY <1>4 DEF Emit, PubTyped, Idle, Event
  <2>2. chan' \in [Clients -> Seq(Event)]
    BY <1>4, <2>1 DEF Emit, StreamTyped
  <2>3. StreamTyped'
    BY <1>4, <2>2 DEF Emit, StreamTyped, Hears
  <2>4. PubTyped'
    BY <1>4, VersionsCount DEF Emit, PubTyped, AtRest, Idle
  <2>. QED BY <1>4, <2>3, <2>4 DEF Emit, RowsTyped, ChainsTyped, chains, PageTyped, HistoryTyped, rows, page
<1>5. ASSUME NEW c \in Clients, Endpoint(c) PROVE Typed'
  <2>1. Rows \in List /\ Empty \in List
    BY RowsAreList, VersionsCount DEF Empty, List
  <2>2. CASE Connect(c)
    BY <2>2 DEF Connect, PubTyped, Idle, RowsTyped, ChainsTyped, chains, StreamTyped, PageTyped, HistoryTyped,
                server, rows, page, history
  <2>3. CASE ReadList(c)
    BY <2>1, <2>3 DEF ReadList, PubTyped, Idle, RowsTyped, ChainsTyped, chains, StreamTyped, PageTyped, HistoryTyped,
                server, rows, page
  <2>4. CASE Subscribe(c)
    <3>1. <<snapshot[c]>> \in Seq(Event)
      BY DEF StreamTyped, Event
    <3>. QED BY <2>1, <2>4, <3>1 DEF Subscribe, PubTyped, Idle, RowsTyped, ChainsTyped, chains, StreamTyped, PageTyped,
                HistoryTyped, server, rows, page, history
  <2>5. CASE Close(c)
    <3>1. <<>> \in Seq(Event)
      OBVIOUS
    <3>. QED BY <2>1, <2>5, <3>1 DEF Close, PubTyped, Idle, RowsTyped, ChainsTyped, chains, StreamTyped, PageTyped,
                HistoryTyped, server, rows, history
  <2>. QED BY <1>5, <2>2, <2>3, <2>4, <2>5 DEF Endpoint
<1>6. ASSUME NEW c \in Clients, Page(c) PROVE Typed'
  <2>1. CASE Receive(c)
    <3>1. chan[c] \in Seq(Event) /\ chan[c] # <<>> /\ list[c] \in List
      BY <2>1 DEF Receive, StreamTyped, PageTyped
    <3>2. Head(chan[c]) \in Event /\ Tail(chan[c]) \in Seq(Event)
      BY <3>1
    <3>3. StreamTyped'
      BY <2>1, <3>1, <3>2 DEF Receive, StreamTyped
    <3>4. PageTyped'
      BY <2>1, <3>1, <3>2, ApplyTyped DEF Receive, PageTyped
    <3>. QED BY <2>1, <3>3, <3>4 DEF Receive, PubTyped, Idle, RowsTyped, ChainsTyped, chains, HistoryTyped, server, rows, history
  <2>2. CASE RefreshRead(c)
    BY <2>2, RowsAreList DEF RefreshRead, PubTyped, Idle, RowsTyped, ChainsTyped, chains, StreamTyped, PageTyped, InFlight,
                HistoryTyped, server, rows, stream, history
  <2>3. CASE RefreshSet(c)
    BY <2>3 DEF RefreshSet, PubTyped, Idle, RowsTyped, ChainsTyped, chains, StreamTyped, PageTyped, InFlight,
                HistoryTyped, server, rows, stream, history
  <2>. QED BY <1>6, <2>1, <2>2, <2>3 DEF Page
<1>. QED BY <1>1, <1>2, <1>3, <1>4, <1>5, <1>6, <1>7, <1>8, ThrowTyped DEF Next

LEMMA TypedInductive == Typed /\ [Next]_vars => Typed'
<1>1. ASSUME Typed, UNCHANGED vars PROVE Typed'
  BY <1>1 DEF Typed, PubTyped, Idle, RowsTyped, ChainsTyped, StreamTyped, PageTyped, HistoryTyped,
              vars, server, rows, chains, stream, page, history
<1>. QED BY <1>1, TypedStep

\* The type invariant.
THEOREM TypeCorrect == Spec => []TypeOK
<1>1. Typed => TypeOK
  BY DEF Typed, PubTyped, RowsTyped, ChainsTyped, StreamTyped, PageTyped, HistoryTyped, TypeOK
<1>. QED BY TypedFirst, TypedInductive, <1>1, PTL DEF Spec

-----------------------------------------------------------------------------
(* What a list will come to.                                               *)

\* An event of the stream says something of j, and this.
Touches(e, j) == e \in List \/ e.job = j
Says(e, j) == IF e \in List THEN e[j] ELSE e.row

\* When the events ch have been applied to list l, it has v for j.
EndsAt(ch, l, j, v) ==
    \/ l[j] = v /\ \A i \in DOMAIN ch : ~Touches(ch[i], j)
    \/ \E i \in DOMAIN ch : /\ Touches(ch[i], j) /\ Says(ch[i], j) = v
                            /\ \A k \in DOMAIN ch : k > i => ~Touches(ch[k], j)

LEMMA EndsWithLast ==
  ASSUME NEW ch \in Seq(Event), NEW e \in Event, NEW l, NEW j,
         Touches(e, j)
  PROVE  EndsAt(Append(ch, e), l, j, Says(e, j))
<1>1. /\ DOMAIN Append(ch, e) = 1..(Len(ch) + 1) /\ Len(ch) \in Nat
      /\ Append(ch, e)[Len(ch) + 1] = e
  OBVIOUS
<1>. QED BY <1>1 DEF EndsAt

LEMMA EndsDespite ==
  ASSUME NEW ch \in Seq(Event), NEW e \in Event, NEW l, NEW j, NEW v,
         ~Touches(e, j), EndsAt(ch, l, j, v)
  PROVE  EndsAt(Append(ch, e), l, j, v)
<1>1. /\ DOMAIN Append(ch, e) = 1..(Len(ch) + 1) /\ DOMAIN ch = 1..Len(ch) /\ Len(ch) \in Nat
      /\ Append(ch, e)[Len(ch) + 1] = e
      /\ \A i \in DOMAIN ch : Append(ch, e)[i] = ch[i]
  OBVIOUS
<1>2. CASE l[j] = v /\ \A i \in DOMAIN ch : ~Touches(ch[i], j)
  BY <1>1, <1>2 DEF EndsAt
<1>3. ASSUME NEW i \in DOMAIN ch, Touches(ch[i], j), Says(ch[i], j) = v,
             \A k \in DOMAIN ch : k > i => ~Touches(ch[k], j)
      PROVE  EndsAt(Append(ch, e), l, j, v)
  <2>1. i \in DOMAIN Append(ch, e) /\ Append(ch, e)[i] = ch[i]
    BY <1>1
  <2>2. \A k \in DOMAIN Append(ch, e) : k > i => ~Touches(Append(ch, e)[k], j)
    BY <1>1, <1>3
  <2>. QED BY <1>3, <2>1, <2>2 DEF EndsAt
<1>. QED BY <1>2, <1>3 DEF EndsAt

\* An update or a list is applied to what it touches, and to nothing else.
LEMMA Applied ==
  ASSUME NEW l \in List, NEW e \in Event, NEW j \in Jobs
  PROVE  Apply(l, e)[j] = IF Touches(e, j) THEN Says(e, j) ELSE l[j]
  BY UpdateIsNoList DEF Apply, Take, Event, List, Touches, Says

LEMMA EndsAfterReceive ==
  ASSUME NEW ch \in Seq(Event), ch # <<>>, NEW l \in List, NEW j \in Jobs, NEW v,
         EndsAt(ch, l, j, v)
  PROVE  EndsAt(Tail(ch), Apply(l, Head(ch)), j, v)
<1>1. /\ Len(ch) \in Nat /\ DOMAIN ch = 1..Len(ch) /\ 1 \in DOMAIN ch /\ Head(ch) = ch[1]
      /\ Head(ch) \in Event
      /\ DOMAIN Tail(ch) = 1..(Len(ch) - 1)
      /\ \A i \in 1..(Len(ch) - 1) : Tail(ch)[i] = ch[i + 1]
  OBVIOUS
<1>2. Apply(l, ch[1])[j] = IF Touches(ch[1], j) THEN Says(ch[1], j) ELSE l[j]
  BY <1>1, Applied
<1>3. CASE l[j] = v /\ \A i \in DOMAIN ch : ~Touches(ch[i], j)
  <2>1. \A i \in DOMAIN Tail(ch) : ~Touches(Tail(ch)[i], j)
    BY <1>1, <1>3
  <2>. QED BY <1>1, <1>2, <1>3, <2>1 DEF EndsAt
<1>4. ASSUME NEW i \in DOMAIN ch, Touches(ch[i], j), Says(ch[i], j) = v,
             \A k \in DOMAIN ch : k > i => ~Touches(ch[k], j)
      PROVE  EndsAt(Tail(ch), Apply(l, Head(ch)), j, v)
  <2>1. CASE i = 1
    <3>1. \A k \in DOMAIN Tail(ch) : ~Touches(Tail(ch)[k], j)
      BY <1>1, <1>4, <2>1
    <3>. QED BY <1>1, <1>2, <1>4, <2>1, <3>1 DEF EndsAt
  <2>2. CASE i # 1
    <3>1. i - 1 \in DOMAIN Tail(ch) /\ Tail(ch)[i - 1] = ch[i]
      BY <1>1, <2>2
    <3>2. \A k \in DOMAIN Tail(ch) : k > i - 1 => ~Touches(Tail(ch)[k], j)
      BY <1>1, <1>4
    <3>. QED BY <1>4, <3>1, <3>2 DEF EndsAt
  <2>. QED BY <2>1, <2>2
<1>. QED BY <1>3, <1>4 DEF EndsAt

-----------------------------------------------------------------------------
(* What a browser shows of a download that is over.                        *)

Owes(p, j) == ~Idle(p) /\ pub[p].job = j

\* A row that has been written has a version.
WasWritten == \A j \in Jobs : stage[j] \notin {"none", "gone"} => version[j] # 0

\* A queued job was written by a request, and what a chain left behind has still to
\* write counts as a disturbance of the runs that follow.
LateDisturbs ==
    \A j \in Jobs : stage[j] = "queued" \/ (late[j] # {} /\ stage[j] # "gone") => disturbed[j]

\* Only a download's run and its chain publish it while it runs undisturbed.
RunningAlone ==
    \A j \in Jobs : stage[j] = "running" /\ ~disturbed[j] =>
        \A p \in Publishers : Owes(p, j) => p \in {RunOf(j), ChainOf(j)}

\* When it is over, or deleted, what is still to be published of it is the row as
\* it is, and nobody but the run has yet to read it.
Ended(j) == stage[j] \in {"over", "gone"} /\ ~disturbed[j]
EndedAlone ==
    \A j \in Jobs : Ended(j) =>
        \A p \in Publishers : Owes(p, j) =>
            /\ pub[p].pc = "emit" => pub[p].row = Rows[j]
            /\ pub[p].pc # "emit" => stage[j] = "over"
            /\ stage[j] = "over" => p = RunOf(j)

\* ... and every list there is comes to that row, or hears of it yet.
ComesTo(c, j) ==
    /\ answer[c] # <<>> => answer[c][j] = Rows[j]
    /\ conn[c] = "answered" => snapshot[c][j] = Rows[j]
    /\ conn[c] = "open" => EndsAt(chan[c], list[c], j, Rows[j])

ListsEnd == \A c \in Clients, j \in Jobs : Ended(j) /\ ~gap[c] => Owed(j) \/ ComesTo(c, j)

EndInv == Typed /\ WasWritten /\ LateDisturbs /\ RunningAlone /\ EndedAlone /\ ListsEnd

LEMMA RowOf ==
  ASSUME NEW j \in Jobs
  PROVE  Rows[j] = IF stage[j] \in {"none", "gone"} THEN 0 ELSE version[j]
  BY DEF Rows, HasRow

LEMMA EndFirst == Init => EndInv
<1>. SUFFICES ASSUME Init PROVE EndInv
  OBVIOUS
<1>. QED BY TypedFirst DEF Init, EndInv, WasWritten, LateDisturbs, RunningAlone, EndedAlone, ListsEnd, Ended,
            Owes, Idle, AtRest

\* What a step has to leave alone so that nothing changes for download j.
Spared(j) ==
    /\ stage'[j] = stage[j] /\ version'[j] = version[j] /\ disturbed'[j] = disturbed[j]
    /\ left'[j] = left[j] /\ late'[j] = late[j]
    /\ \A p \in Publishers : Owes(p, j) \/ Owes(p, j)' => pub'[p] = pub[p]

\* A publisher that turns to job j spares the others.
LEMMA TurnsSpare ==
  ASSUME Typed, NEW p \in Publishers, NEW j \in Jobs, NEW i \in Jobs, i # j, Idle(p) \/ pub[p].job = j,
         NEW w \in [pc : {"idle", "read", "last", "emit"}, job : {j}, row : Versions],
         pub' = [pub EXCEPT ![p] = w],
         stage'[i] = stage[i], version'[i] = version[i], disturbed'[i] = disturbed[i],
         left'[i] = left[i], late'[i] = late[i]
  PROVE  Spared(i)
<1>1. ~Owes(p, i) /\ ~Owes(p, i)'
  BY DEF Typed, PubTyped, Owes, Idle
<1>2. \A q \in Publishers \ {p} : pub'[q] = pub[q]
  BY DEF Typed, PubTyped
<1>. QED BY <1>1, <1>2 DEF Spared

\* A step of one download: the others are spared, and this one is, or is not over
\* for anybody, or is on its way to everybody.
LEMMA JobStep ==
  ASSUME EndInv, Typed', NEW j \in Jobs, \A i \in Jobs \ {j} : Spared(i),
         UNCHANGED <<conn, snapshot, chan, list, answer, gap>>,
         stage'[j] \notin {"none", "gone"} => version'[j] # 0,
         stage'[j] = "queued" \/ (late'[j] # {} /\ stage'[j] # "gone") => disturbed'[j],
         stage'[j] = "running" /\ ~disturbed'[j] =>
            \A p \in Publishers : Owes(p, j)' => p \in {RunOf(j), ChainOf(j)'},
         stage'[j] \in {"over", "gone"} /\ ~disturbed'[j] =>
            /\ \E p \in Publishers : Owes(p, j)'
            /\ \A p \in Publishers : Owes(p, j)' =>
                 /\ pub'[p].pc = "emit" => pub'[p].row = IF stage'[j] = "gone" THEN 0 ELSE version'[j]
                 /\ pub'[p].pc # "emit" => stage'[j] = "over"
                 /\ stage'[j] = "over" => p = RunOf(j)
  PROVE  EndInv'
<1>. USE DEF Ended
<1>1. \A i \in Jobs : Rows[i] = IF stage[i] \in {"none", "gone"} THEN 0 ELSE version[i]
  BY RowOf
<1>2. \A i \in Jobs : Rows'[i] = IF stage'[i] \in {"none", "gone"} THEN 0 ELSE version'[i]
  BY DEF Rows, HasRow
<1>3. \A i \in Jobs \ {j} : Rows'[i] = Rows[i]
  BY <1>1, <1>2 DEF Spared
<1>4. \A i \in Jobs \ {j} : \A p \in Publishers : (Owes(p, i)' <=> Owes(p, i)) /\ (Owes(p, i) => pub'[p] = pub[p])
  BY DEF Spared, Owes, Idle
<1>5. WasWritten'
  BY DEF EndInv, WasWritten, Spared
<1>9. LateDisturbs'
  BY DEF EndInv, LateDisturbs, Spared
<1>10. \A i \in Jobs \ {j} : ChainOf(i)' = ChainOf(i)
  BY DEF Spared, ChainOf
<1>6. RunningAlone'
  BY <1>4, <1>10 DEF EndInv, RunningAlone, Spared, RunOf
<1>7. EndedAlone'
  <2>1. SUFFICES ASSUME NEW i \in Jobs, Ended(i)', NEW p \in Publishers, Owes(p, i)'
                 PROVE  /\ pub'[p].pc = "emit" => pub'[p].row = Rows'[i]
                        /\ pub'[p].pc # "emit" => stage'[i] = "over"
                        /\ stage'[i] = "over" => p = RunOf(i)
    BY DEF EndedAlone, RunOf
  <2>2. CASE i = j
    BY <1>2, <2>1, <2>2
  <2>3. CASE i # j
    <3>1. Ended(i) /\ Owes(p, i) /\ pub'[p] = pub[p] /\ stage'[i] = stage[i] /\ Rows'[i] = Rows[i]
      BY <1>3, <1>4, <2>1, <2>3 DEF Spared
    <3>. QED BY <3>1 DEF EndInv, EndedAlone
  <2>. QED BY <2>2, <2>3
<1>8. ListsEnd'
  <2>1. SUFFICES ASSUME NEW c \in Clients, NEW i \in Jobs, Ended(i)', ~gap'[c]
                 PROVE  Owed(i)' \/ ComesTo(c, i)'
    BY DEF ListsEnd
  <2>2. CASE i = j
    BY <2>1, <2>2 DEF Owed, Owes
  <2>3. CASE i # j
    <3>1. Ended(i) /\ ~gap[c] /\ Rows'[i] = Rows[i]
      BY <1>3, <2>1, <2>3 DEF Spared
    <3>2. Owed(i) \/ ComesTo(c, i)
      BY <3>1 DEF EndInv, ListsEnd
    <3>3. Owed(i) => Owed(i)'
      BY <1>4, <2>3 DEF Owed, Owes
    <3>4. ComesTo(c, i) => ComesTo(c, i)'
      BY <3>1 DEF ComesTo, EndsAt, Touches, Says
    <3>. QED BY <3>2, <3>3, <3>4
  <2>. QED BY <2>2, <2>3
<1>. QED BY <1>5, <1>6, <1>7, <1>8, <1>9 DEF EndInv

LEMMA SetTwo ==
  ASSUME NEW r \in [pc : {"idle", "read", "last", "emit"}, job : Jobs \cup {"none"}, row : Versions], NEW x, NEW y
  PROVE  /\ [r EXCEPT !.pc = x, !.job = y] = [pc |-> x, job |-> y, row |-> r.row]
         /\ [r EXCEPT !.pc = x, !.row = y] = [pc |-> x, job |-> r.job, row |-> y]
<1>1. /\ [r EXCEPT !.pc = x, !.job = y] \in [pc : {x}, job : {y}, row : {r.row}]
      /\ [r EXCEPT !.pc = x, !.row = y] \in [pc : {x}, job : {r.job}, row : {y}]
  OBVIOUS
<1>2. \A a, b, c : \A q \in [pc : {a}, job : {b}, row : {c}] : q = [pc |-> a, job |-> b, row |-> c]
  OBVIOUS
<1>. QED BY <1>1, <1>2

LEMMA AboutIs == \A j, pc : About(j, pc) = [pc |-> pc, job |-> j, row |-> 0]
<1>. TAKE j, pc
<1>1. About(j, pc) \in [pc : {pc}, job : {j}, row : {0}]
  BY DEF About, AtRest
<1>2. \A q \in [pc : {pc}, job : {j}, row : {0}] : q = [pc |-> pc, job |-> j, row |-> 0]
  OBVIOUS
<1>. QED BY <1>1, <1>2

LEMMA WorkerStep == ASSUME EndInv, Typed', NEW j \in Jobs, Worker(j), ~RunThrows(j) PROVE EndInv'
<1>. USE DEF EndInv
<1>1. PICK p \in {RunOf(j), ChainOf(j)} : Publish(p, j)
  BY DEF Worker, RunStarts, ChainWrites, RunWrites, RunFinishes
<1> DEFINE w == [pc |-> "read", job |-> j, row |-> 0]
<1>2. /\ p \in Publishers /\ Idle(p) /\ pub' = [pub EXCEPT ![p] = w]
      /\ w \in [pc : {"idle", "read", "last", "emit"}, job : {j}, row : Versions]
  <2>1. About(j, "read") = w
    BY AboutIs
  <2>2. p \in Publishers /\ w \in [pc : {"idle", "read", "last", "emit"}, job : {j}, row : Versions]
    BY PublisherKinds, ChainIsPublisher, VersionsCount DEF Typed
  <2>. QED BY <1>1, <2>1, <2>2 DEF Publish
<1>3. PICK st \in {"running", "over"} : Write(j, st)
  BY DEF Worker, RunStarts, ChainWrites, RunWrites, RunFinishes
<1>4. /\ stage'[j] = st /\ version'[j] = version[j] + 1 /\ version'[j] # 0
      /\ \A i \in Jobs \ {j} : stage'[i] = stage[i] /\ version'[i] = version[i]
  <2>1. version[j] \in Nat
    BY DEF Typed, RowsTyped, Versions
  <2>. QED BY <1>3, <2>1 DEF Write, Typed, RowsTyped
<1>5. UNCHANGED <<chains, conn, snapshot, chan, list, answer, gap>>
  BY DEF Worker, RunStarts, ChainWrites, RunWrites, RunFinishes, stream, page, history
<1>6. \A i \in Jobs \ {j} : disturbed'[i] = disturbed[i]
  BY DEF Worker, RunStarts, ChainWrites, RunWrites, RunFinishes, history, Typed, HistoryTyped
<1>7. \A i \in Jobs \ {j} : Spared(i)
  BY <1>2, <1>4, <1>5, <1>6, TurnsSpare DEF chains
<1>8. Owes(p, j)' /\ \A q \in Publishers : Owes(q, j)' => q = p \/ Owes(q, j)
  BY <1>2 DEF Typed, PubTyped, Owes, Idle
<1>13. ChainOf(j)' = ChainOf(j)
  BY <1>5 DEF chains, ChainOf
<1>9. stage'[j] = "running" /\ ~disturbed'[j] =>
        \A q \in Publishers : Owes(q, j)' => q \in {RunOf(j), ChainOf(j)'}
  <2>1. CASE RunStarts(j)
    <3>1. ~disturbed'[j] => ~Owed(j)
      BY <2>1 DEF RunStarts, Typed, HistoryTyped
    <3>. QED BY <3>1, <1>8, <1>13 DEF Owed, Owes
  <2>2. CASE ChainWrites(j) \/ RunWrites(j)
    <3>1. stage[j] = "running" /\ disturbed' = disturbed
      BY <2>2 DEF ChainWrites, RunWrites, history
    <3>. QED BY <3>1, <1>8, <1>13 DEF RunningAlone
  <2>3. CASE RunFinishes(j)
    <3>1. Write(j, "over")
      BY <2>3 DEF RunFinishes
    <3>2. stage'[j] = "over"
      BY <3>1 DEF Write, Typed, RowsTyped
    <3>. QED BY <3>2
  <2>. QED BY <2>1, <2>2, <2>3 DEF Worker
<1>10. stage'[j] \in {"over", "gone"} /\ ~disturbed'[j] =>
         \A q \in Publishers : Owes(q, j)' => q = p
  <2>1. CASE RunFinishes(j)
    <3>1. stage[j] = "running" /\ Idle(ChainOf(j)) /\ Idle(RunOf(j)) /\ disturbed' = disturbed
      BY <2>1 DEF RunFinishes, Settled, Publish, history
    <3>2. ~disturbed[j] => \A q \in Publishers : ~Owes(q, j)
      BY <3>1 DEF RunningAlone, Owes
    <3>. QED BY <3>1, <3>2, <1>8
  <2>2. CASE ~RunFinishes(j)
    <3>1. Write(j, "running")
      BY <2>2 DEF Worker, RunStarts, ChainWrites, RunWrites
    <3>2. stage'[j] = "running"
      BY <3>1 DEF Write, Typed, RowsTyped
    <3>. QED BY <3>2
  <2>. QED BY <2>1, <2>2
<1>11. pub'[p].pc = "read"
  BY <1>2 DEF Typed, PubTyped
<1>14. stage'[j] \in {"over", "gone"} => p = RunOf(j)
  <2>1. CASE RunFinishes(j)
    <3>1. Owes(RunOf(j), j)' /\ RunOf(j) \in Publishers
      BY <2>1, PublisherKinds, AboutIs DEF RunFinishes, Publish, Typed, PubTyped, Owes, Idle
    <3>2. Idle(ChainOf(j)) /\ pub'[RunOf(j)] # pub[RunOf(j)]
      BY <2>1, <3>1, AboutIs DEF RunFinishes, Settled, Publish, Typed, PubTyped, Idle
    <3>. QED BY <1>2, <3>1, <3>2 DEF Typed, PubTyped
  <2>2. CASE ~RunFinishes(j)
    <3>1. Write(j, "running")
      BY <2>2 DEF Worker, RunStarts, ChainWrites, RunWrites
    <3>2. stage'[j] = "running"
      BY <3>1 DEF Write, Typed, RowsTyped
    <3>. QED BY <3>2
  <2>. QED BY <2>1, <2>2
<1>15. stage'[j] = "queued" \/ (late'[j] # {} /\ stage'[j] # "gone") => disturbed'[j]
  <2>1. stage'[j] # "queued" /\ late' = late
    BY <1>4, <1>5 DEF chains
  <2>2. CASE RunStarts(j)
    BY <2>1, <2>2 DEF RunStarts, Typed, HistoryTyped
  <2>3. CASE ~RunStarts(j)
    BY <2>1, <2>3 DEF Worker, ChainWrites, RunWrites, RunFinishes, history, LateDisturbs
  <2>. QED BY <2>2, <2>3
<1>12. stage'[j] \in {"over", "gone"} => stage'[j] = "over"
  BY <1>4
<1>. HIDE DEF EndInv
<1>. QED BY <1>2, <1>4, <1>5, <1>7, <1>8, <1>9, <1>10, <1>11, <1>12, <1>14, <1>15, JobStep

\* The catch of runJob: whoever else has yet to publish the job is waited for by
\* nobody, which is why the job then counts as disturbed.
LEMMA ThrowStep == ASSUME EndInv, Typed', NEW j \in Jobs, RunThrows(j) PROVE EndInv'
<1>. USE DEF EndInv
<1> DEFINE r == RunOf(j)
           w == [pc |-> "last", job |-> j, row |-> 0]
<1>1. /\ r \in Publishers /\ pub' = [pub EXCEPT ![r] = w] /\ (Idle(r) \/ pub[r].job = j)
      /\ w \in [pc : {"idle", "read", "last", "emit"}, job : {j}, row : Versions]
  <2>1. r \in Publishers /\ w \in [pc : {"idle", "read", "last", "emit"}, job : {j}, row : Versions]
    BY PublisherKinds, VersionsCount
  <2>2. pub' = [pub EXCEPT ![r] = w] /\ (Idle(r) \/ pub[r] = About(j, "read"))
    BY AboutIs DEF RunThrows
  <2>3. pub[r] = About(j, "read") => pub[r].job = j
    BY AboutIs
  <2>. QED BY <2>1, <2>2, <2>3
<1>2. /\ version[j] \in Nat /\ stage[j] \notin {"none", "gone"}
      /\ stage'[j] \in {"over", "stuck", stage[j]} /\ stage'[j] # "running"
      /\ version'[j] # 0
      /\ \A i \in Jobs \ {j} : stage'[i] = stage[i] /\ version'[i] = version[i]
  <2>1. version[j] \in Nat /\ HasRow(j)
    BY DEF RunThrows, HasRow, Typed, RowsTyped, Versions
  <2>2. CASE Write(j, "over")
    BY <2>1, <2>2 DEF Write, HasRow, Typed, RowsTyped
  <2>3. CASE UNCHANGED version /\ stage' = [stage EXCEPT ![j] = IF @ = "running" THEN "stuck" ELSE @]
    BY <2>1, <2>3 DEF HasRow, WasWritten, Typed, RowsTyped
  <2>. QED BY <2>2, <2>3 DEF RunThrows
<1>3. \A i \in Jobs \ {j} : disturbed'[i] = disturbed[i] /\ left'[i] = left[i] /\ late'[i] = late[i]
  BY DEF RunThrows, LeavesChain, chains, Typed, ChainsTyped, HistoryTyped
<1>4. UNCHANGED <<conn, snapshot, chan, list, answer, gap>>
  BY DEF RunThrows, stream, page
<1>5. \A i \in Jobs \ {j} : Spared(i)
  BY <1>1, <1>2, <1>3, TurnsSpare
<1>6. disturbed[j] => disturbed'[j]
  BY DEF RunThrows, LeavesChain, Typed, HistoryTyped
<1>7. stage'[j] = "queued" \/ (late'[j] # {} /\ stage'[j] # "gone") => disturbed'[j]
  <2>1. CASE LeavesChain(j)
    BY <2>1 DEF LeavesChain, Typed, HistoryTyped
  <2>2. CASE UNCHANGED <<chains, disturbed>>
    BY <1>2, <2>2 DEF LateDisturbs, chains
  <2>. QED BY <2>1, <2>2 DEF RunThrows
<1>8. pub'[r].pc = "last" /\ Owes(r, j)' /\ \A q \in Publishers : Owes(q, j)' => q = r \/ (q # r /\ Owes(q, j))
  BY <1>1 DEF Typed, PubTyped, Owes, Idle
<1>9. ASSUME stage'[j] \in {"over", "gone"}, ~disturbed'[j], NEW q \in Publishers, Owes(q, j)' PROVE q = r
  <2>1. Idle(ChainOf(j)) /\ ~disturbed[j]
    BY <1>6, <1>9 DEF RunThrows, LeavesChain, Typed, HistoryTyped
  <2>2. CASE stage[j] = "running"
    BY <1>8, <1>9, <2>1, <2>2 DEF RunningAlone, Owes
  <2>3. CASE stage[j] = "over"
    BY <1>8, <1>9, <2>1, <2>3 DEF EndedAlone, Ended
  <2>4. stage[j] \in {"running", "over"}
    BY <2>1 DEF RunThrows, LateDisturbs
  <2>. QED BY <2>2, <2>3, <2>4
<1>10. stage'[j] # "gone"
  BY <1>2
<1>. HIDE DEF EndInv
<1>. QED BY <1>1, <1>2, <1>4, <1>5, <1>7, <1>8, <1>9, <1>10, JobStep

\* A chain left behind writes on.
LEMMA LateStep ==
  ASSUME EndInv, Typed', NEW j \in Jobs, NEW k \in 0..MaxFaults, LeftOver(j, k) PROVE EndInv'
<1>. USE DEF EndInv
<1>1. CASE LateWrites(j, k)
  <2> DEFINE p == <<"chain", j, k>>
             w == [pc |-> "read", job |-> j, row |-> 0]
  <2>1. /\ p \in Publishers /\ Idle(p) /\ pub' = [pub EXCEPT ![p] = w]
        /\ w \in [pc : {"idle", "read", "last", "emit"}, job : {j}, row : Versions]
    BY <1>1, PublisherKinds, AboutIs, VersionsCount DEF LateWrites, Publish
  <2>2. /\ late[j] # {} /\ stage[j] \notin {"none", "gone"} /\ version[j] \in Nat /\ disturbed[j]
        /\ Write(j, stage[j])
    BY <1>1 DEF LateWrites, HasRow, LateDisturbs, Typed, RowsTyped, Versions
  <2>3. /\ stage'[j] = stage[j] /\ version'[j] # 0
        /\ \A i \in Jobs \ {j} : stage'[i] = stage[i] /\ version'[i] = version[i]
    BY <2>2 DEF Write, Typed, RowsTyped
  <2>4. UNCHANGED <<chains, disturbed, conn, snapshot, chan, list, answer, gap>>
    BY <1>1 DEF LateWrites, stream, page, history
  <2>5. \A i \in Jobs \ {j} : Spared(i)
    BY <2>1, <2>3, <2>4, TurnsSpare DEF chains
  <2>. HIDE DEF EndInv
  <2>. QED BY <2>2, <2>3, <2>4, <2>5, JobStep
<1>2. CASE LateEnds(j, k)
  <2>1. UNCHANGED <<rows, pub, left, stream, page, history>>
    BY <1>2 DEF LateEnds
  <2>2. Rows' = Rows
    BY <2>1 DEF Rows, HasRow, rows
  <2>3. LateDisturbs'
    <3>1. \A i \in Jobs : late'[i] \subseteq late[i]
      BY <1>2 DEF LateEnds, Typed, ChainsTyped
    <3>. QED BY <2>1, <3>1 DEF LateDisturbs, rows, history
  <2>. QED BY <2>1, <2>2, <2>3
       DEF WasWritten, RunningAlone, EndedAlone, ListsEnd, ComesTo, Ended, Owes, Owed, Idle,
           EndsAt, Touches, Says, rows, stream, page, history, ChainOf
<1>. QED BY <1>1, <1>2 DEF LeftOver

LEMMA UserStep == ASSUME EndInv, Typed', NEW r \in Requests, NEW j \in Jobs, User(r, j) PROVE EndInv'
<1>. USE DEF EndInv
<1>0. r \in Publishers /\ version[j] \in Nat
  BY PublisherKinds DEF Typed, RowsTyped, Versions
<1>1. CASE Create(r, j) \/ Ask(r, j)
  <2>1. \E w \in [pc : {"idle", "read", "last", "emit"}, job : {j}, row : Versions] :
          Idle(r) /\ pub' = [pub EXCEPT ![r] = w]
    <3>1. CASE Create(r, j)
      <4>1. version'[j] \in Versions
        BY DEF Typed, RowsTyped
      <4>. QED BY <3>1, <4>1 DEF Create
    <3>2. CASE Ask(r, j)
      BY <3>2, AboutIs, VersionsCount DEF Ask, Publish
    <3>. QED BY <1>1, <3>1, <3>2
  <2>2. \E st : Write(j, st)
    BY <1>1 DEF Create, Ask
  <2>3. /\ version'[j] # 0
        /\ \A i \in Jobs \ {j} : stage'[i] = stage[i] /\ version'[i] = version[i]
    BY <2>2, <1>0 DEF Write, Typed, RowsTyped
  <2>4. disturbed'[j] /\ \A i \in Jobs \ {j} : disturbed'[i] = disturbed[i]
    BY <1>1 DEF Create, Ask, Typed, HistoryTyped
  <2>5. UNCHANGED <<chains, conn, snapshot, chan, list, answer, gap>>
    BY <1>1 DEF Create, Ask, stream, page
  <2>6. \A i \in Jobs \ {j} : Spared(i)
    BY <2>1, <2>3, <2>4, <2>5, <1>0, TurnsSpare DEF chains
  <2>. HIDE DEF EndInv
  <2>. QED BY <2>3, <2>4, <2>5, <2>6, JobStep
<1>2. CASE Delete(r, j)
  <2> DEFINE w == [pc |-> "emit", job |-> j, row |-> 0]
  <2>1. /\ Idle(r) /\ pub' = [pub EXCEPT ![r] = w]
        /\ w \in [pc : {"idle", "read", "last", "emit"}, job : {j}, row : Versions]
    BY <1>2, VersionsCount DEF Delete
  <2>2. /\ stage'[j] = "gone" /\ disturbed'[j] = Owed(j)
        /\ \A i \in Jobs \ {j} :
             stage'[i] = stage[i] /\ version'[i] = version[i] /\ disturbed'[i] = disturbed[i]
    BY <1>2 DEF Delete, Typed, RowsTyped, HistoryTyped
  <2>3. UNCHANGED <<chains, conn, snapshot, chan, list, answer, gap>>
    BY <1>2 DEF Delete, stream, page
  <2>4. \A i \in Jobs \ {j} : Spared(i)
    BY <2>1, <2>2, <2>3, <1>0, TurnsSpare DEF chains
  <2>5. Owes(r, j)' /\ \A q \in Publishers : Owes(q, j)' => q = r \/ Owes(q, j)
    BY <2>1, <1>0 DEF Typed, PubTyped, Owes, Idle
  <2>6. ~disturbed'[j] => \A q \in Publishers : Owes(q, j)' => q = r
    BY <2>2, <2>5 DEF Owed, Owes
  <2>7. pub'[r].pc = "emit" /\ pub'[r].row = 0
    BY <2>1, <1>0 DEF Typed, PubTyped
  <2>. HIDE DEF EndInv
  <2>. QED BY <2>2, <2>3, <2>4, <2>5, <2>6, <2>7, <1>0, JobStep
<1>. QED BY <1>1, <1>2 DEF User

LEMMA ReadStep == ASSUME EndInv, Typed', NEW p \in Publishers, ReadRow(p) PROVE EndInv'
<1>. USE DEF EndInv
<1> DEFINE i == pub[p].job
<1>1. i \in Jobs /\ pub[p].pc \in {"read", "last"} /\ Owes(p, i)
  BY DEF ReadRow, Typed, PubTyped, Idle, Owes
<1>2. UNCHANGED <<stage, version, chains, disturbed, conn, snapshot, chan, list, answer, gap>>
  BY DEF ReadRow, rows, stream, page, history
<1>3. Rows' = Rows
  BY <1>2 DEF Rows, HasRow
<1>4. /\ \A q \in Publishers \ {p} : pub'[q] = pub[q]
      /\ pub'[p] = IF Rows[i] = 0 THEN AtRest ELSE [pc |-> "emit", job |-> i, row |-> Rows[i]]
  <2>1. pub[p] \in [pc : {"idle", "read", "last", "emit"}, job : Jobs \cup {"none"}, row : Versions]
    BY DEF Typed, PubTyped
  <2>2. [pub[p] EXCEPT !.pc = "emit", !.row = Rows[i]] = [pc |-> "emit", job |-> i, row |-> Rows[i]]
    BY <2>1, SetTwo
  <2>3. pub' = [pub EXCEPT ![p] = IF Rows[i] = 0 THEN AtRest
                                  ELSE [pub[p] EXCEPT !.pc = "emit", !.row = Rows[i]]]
    BY DEF ReadRow
  <2>. QED BY <2>2, <2>3 DEF Typed, PubTyped
<1>5. \A q \in Publishers, j \in Jobs : Owes(q, j)' => Owes(q, j)
  BY <1>1, <1>4 DEF Owes, Idle, AtRest
<1>6. WasWritten' /\ LateDisturbs' /\ RunningAlone'
  BY <1>2, <1>5 DEF WasWritten, LateDisturbs, RunningAlone, ChainOf, chains
<1>7. EndedAlone'
  <2>1. SUFFICES ASSUME NEW j \in Jobs, Ended(j), NEW q \in Publishers, Owes(q, j)'
                 PROVE  /\ pub'[q].pc = "emit" => pub'[q].row = Rows[j]
                        /\ pub'[q].pc # "emit" => stage[j] = "over"
                        /\ stage[j] = "over" => q = RunOf(j)
    BY <1>2, <1>3 DEF EndedAlone, Ended, RunOf
  <2>2. CASE q = p
    BY <1>1, <1>4, <1>5, <2>1, <2>2 DEF EndedAlone, Owes, Idle, AtRest
  <2>3. CASE q # p
    BY <1>4, <1>5, <2>1, <2>3 DEF EndedAlone
  <2>. QED BY <2>2, <2>3
<1>8. ListsEnd'
  <2>1. ASSUME NEW j \in Jobs, Ended(j), Owed(j) PROVE Owed(j)'
    <3>1. CASE i = j
      <4>1. stage[j] = "over"
        BY <1>1, <2>1, <3>1 DEF EndedAlone
      <4>2. Rows[j] # 0
        BY <4>1, RowOf DEF WasWritten
      <4>. QED BY <1>4, <3>1, <4>2 DEF Owed, Idle
    <3>2. CASE i # j
      BY <1>1, <1>4, <2>1, <3>2 DEF Owed, Idle
    <3>. QED BY <3>1, <3>2
  <2>2. ASSUME NEW c \in Clients, NEW j \in Jobs, Ended(j)', ~gap'[c]
        PROVE  Owed(j)' \/ ComesTo(c, j)'
    <3>1. Ended(j) /\ ~gap[c]
      BY <1>2, <2>2 DEF Ended
    <3>2. Owed(j) \/ ComesTo(c, j)
      BY <3>1 DEF ListsEnd
    <3>3. ComesTo(c, j) => ComesTo(c, j)'
      BY <1>2, <1>3 DEF ComesTo, EndsAt, Touches, Says
    <3>. QED BY <2>1, <3>1, <3>2, <3>3
  <2>. QED BY <2>2 DEF ListsEnd
<1>. QED BY <1>6, <1>7, <1>8

\* A publication that is lost: an undisturbed job that is over is read by its run
\* alone, whose failing read is no loss.
LEMMA FailStep == ASSUME EndInv, Typed', NEW p \in Publishers, ReadFails(p) PROVE EndInv'
<1>. USE DEF EndInv
<1>1. PICK i \in Jobs : i = pub[p].job /\ pub[p].pc \in {"read", "last"} /\ Owes(p, i)
  BY DEF ReadFails, Typed, PubTyped, Idle, Owes
<1>2. UNCHANGED <<stage, version, chains, conn, snapshot, chan, list, answer, gap>>
  BY DEF ReadFails, rows, stream, page
<1>3. Rows' = Rows
  BY <1>2 DEF Rows, HasRow
<1>4. (\A q \in Publishers \ {p} : pub'[q] = pub[q]) /\ pub'[p] = AtRest
  BY DEF ReadFails, Typed, PubTyped
<1>5. \A q \in Publishers, j \in Jobs : Owes(q, j)' => q # p /\ Owes(q, j) /\ pub'[q] = pub[q]
  BY <1>4 DEF Owes, Idle, AtRest
<1>6. /\ disturbed[i] \/ pub[p].pc = "last" => disturbed'[i]
      /\ \A j \in Jobs \ {i} : disturbed'[j] = disturbed[j]
  BY <1>1 DEF ReadFails, Typed, HistoryTyped
<1>7. WasWritten' /\ LateDisturbs' /\ RunningAlone'
  BY <1>2, <1>5, <1>6 DEF WasWritten, LateDisturbs, RunningAlone, ChainOf, chains
<1>8. \A j \in Jobs : Ended(j)' => Ended(j)
  BY <1>2, <1>6 DEF Ended
<1>9. EndedAlone'
  BY <1>2, <1>3, <1>5, <1>8 DEF EndedAlone, RunOf
<1>10. ~Ended(i)'
  <2>1. CASE pub[p].pc = "last"
    <3>1. disturbed'[i]
      BY <1>6, <2>1
    <3>. QED BY <3>1 DEF Ended
  <2>2. CASE pub[p].pc = "read" /\ Ended(i)
    <3>1. stage[i] = "over" /\ p = RunOf(i)
      BY <1>1, <2>2 DEF EndedAlone
    <3>. QED BY <1>1, <2>2, <3>1, PublisherKinds DEF ReadFails
  <2>3. CASE ~Ended(i)
    <3>1. stage'[i] = stage[i] /\ (disturbed[i] => disturbed'[i])
      BY <1>2, <1>6
    <3>. QED BY <2>3, <3>1 DEF Ended
  <2>. QED BY <1>1, <2>1, <2>2, <2>3
<1>11. ASSUME NEW c \in Clients, NEW j \in Jobs, Ended(j)', ~gap'[c]
       PROVE  Owed(j)' \/ ComesTo(c, j)'
  <2>0. j # i
    BY <1>10, <1>11
  <2>1. Ended(j) /\ ~gap[c] /\ j # i
    <3>1. Ended(j)
      BY <1>8, <1>11
    <3>. QED BY <1>2, <1>11, <2>0, <3>1
  <2>2. Owed(j) => Owed(j)'
    BY <1>1, <1>4, <2>1 DEF Owed, Idle
  <2>3. Owed(j) \/ ComesTo(c, j)
    BY <2>1 DEF ListsEnd
  <2>4. ComesTo(c, j) => ComesTo(c, j)'
    BY <1>2, <1>3 DEF ComesTo, EndsAt, Touches, Says
  <2>. QED BY <2>2, <2>3, <2>4
<1>. QED BY <1>7, <1>9, <1>11 DEF ListsEnd

LEMMA EmitStep == ASSUME EndInv, Typed', NEW p \in Publishers, Emit(p) PROVE EndInv'
<1>. USE DEF EndInv
<1> DEFINE i == pub[p].job
           e == [job |-> pub[p].job, row |-> pub[p].row]
<1>1. i \in Jobs /\ pub[p].pc = "emit" /\ Owes(p, i) /\ e \in [job : Jobs, row : Versions] /\ e \in Event
  BY DEF Emit, Typed, PubTyped, Idle, Owes, Event
<1>2. UNCHANGED <<stage, version, chains, disturbed, conn, snapshot, list, answer>>
  BY DEF Emit, rows, page
<1>3. Rows' = Rows
  BY <1>2 DEF Rows, HasRow
<1>4. (\A q \in Publishers \ {p} : pub'[q] = pub[q]) /\ pub'[p] = AtRest
  BY DEF Emit, Typed, PubTyped
<1>5. \A q \in Publishers, j \in Jobs : Owes(q, j)' => q # p /\ Owes(q, j) /\ pub'[q] = pub[q]
  BY <1>4 DEF Owes, Idle, AtRest
<1>6. WasWritten' /\ LateDisturbs' /\ RunningAlone'
  BY <1>2, <1>5 DEF WasWritten, LateDisturbs, RunningAlone, ChainOf, chains
<1>7. EndedAlone'
  BY <1>2, <1>3, <1>5 DEF EndedAlone, Ended, RunOf
<1>8. \A j \in Jobs : (Touches(e, j) <=> j = i) /\ Says(e, i) = pub[p].row
  BY <1>1, UpdateIsNoList DEF Touches, Says
<1>9. ASSUME NEW c \in Clients, NEW j \in Jobs, Ended(j)', ~gap'[c]
      PROVE  Owed(j)' \/ ComesTo(c, j)'
  <2>1. Ended(j) /\ ~gap[c] /\ conn[c] # "answered" /\ answer[c] = <<>>
    BY <1>2, <1>9 DEF Ended, Emit
  <2>2. chan'[c] = IF conn[c] = "open" THEN Append(chan[c], e) ELSE chan[c]
    BY DEF Emit, Hears
  <2>3. chan[c] \in Seq(Event)
    BY DEF Typed, StreamTyped
  <2>4. CASE j = i
    <3>1. pub[p].row = Rows[j]
      BY <1>1, <2>1, <2>4 DEF EndedAlone
    <3>2. EndsAt(Append(chan[c], e), list[c], j, Rows[j])
      BY <1>1, <1>8, <2>3, <2>4, <3>1, EndsWithLast
    <3>. QED BY <1>2, <1>3, <2>1, <2>2, <3>2 DEF ComesTo
  <2>5. CASE j # i
    <3>1. Owed(j) => Owed(j)'
      BY <1>4, <2>5 DEF Owed, Idle
    <3>2. Owed(j) \/ ComesTo(c, j)
      BY <2>1 DEF ListsEnd
    <3>3. ASSUME ComesTo(c, j), conn[c] = "open"
          PROVE  EndsAt(Append(chan[c], e), list[c], j, Rows[j])
      BY <1>1, <1>8, <2>3, <2>5, <3>3, EndsDespite DEF ComesTo
    <3>. QED BY <1>2, <1>3, <2>1, <2>2, <3>1, <3>2, <3>3 DEF ComesTo
  <2>. QED BY <2>4, <2>5
<1>. QED BY <1>6, <1>7, <1>9 DEF ListsEnd

\* A step of one browser's stream or page leaves the publishers and the others alone.
LEMMA ClientStep ==
  ASSUME EndInv, Typed', NEW c \in Clients, UNCHANGED <<server, disturbed>>,
         \A d \in Clients \ {c} :
           /\ conn'[d] = conn[d] /\ snapshot'[d] = snapshot[d] /\ chan'[d] = chan[d]
           /\ list'[d] = list[d] /\ answer'[d] = answer[d] /\ gap'[d] = gap[d],
         \A j \in Jobs : Ended(j) /\ ~gap'[c] /\ ~Owed(j) =>
           /\ answer'[c] # <<>> => answer'[c][j] = Rows[j]
           /\ conn'[c] = "answered" => snapshot'[c][j] = Rows[j]
           /\ conn'[c] = "open" => EndsAt(chan'[c], list'[c], j, Rows[j])
  PROVE  EndInv'
<1>. USE DEF EndInv, server, rows
<1>1. Rows' = Rows
  BY DEF Rows, HasRow
<1>2. WasWritten' /\ LateDisturbs' /\ RunningAlone' /\ EndedAlone'
  BY <1>1 DEF WasWritten, LateDisturbs, RunningAlone, EndedAlone, Ended, Owes, Idle, RunOf, ChainOf, chains
<1>3. ASSUME NEW d \in Clients, NEW j \in Jobs, Ended(j)', ~gap'[d]
      PROVE  Owed(j)' \/ ComesTo(d, j)'
  <2>1. Ended(j) /\ (Owed(j) => Owed(j)')
    BY <1>3 DEF Ended, Owed, Idle
  <2>2. CASE d = c
    BY <1>1, <1>3, <2>1, <2>2 DEF ComesTo, EndsAt, Touches, Says
  <2>3. CASE d # c
    <3>1. Owed(j) \/ ComesTo(d, j)
      BY <1>3, <2>1, <2>3 DEF ListsEnd
    <3>2. ComesTo(d, j) => ComesTo(d, j)'
      BY <1>1, <2>3 DEF ComesTo, EndsAt, Touches, Says
    <3>. QED BY <2>1, <3>1, <3>2
  <2>. QED BY <2>2, <2>3
<1>. QED BY <1>2, <1>3 DEF ListsEnd

LEMMA EndpointStep == ASSUME EndInv, Typed', NEW c \in Clients, Endpoint(c) PROVE EndInv'
<1>. USE DEF EndInv, Typed, StreamTyped, PageTyped, HistoryTyped
<1>1. \A j \in Jobs : Ended(j) /\ ~gap[c] /\ ~Owed(j) => ComesTo(c, j)
  BY DEF ListsEnd
<1>2. CASE Connect(c)
  <2>1. \A j \in Jobs : Ended(j) /\ ~gap'[c] /\ ~Owed(j) => (answer'[c] # <<>> => answer'[c][j] = Rows[j])
    BY <1>1, <1>2 DEF Connect, page, history, ComesTo
  <2>2. conn'[c] = "asked"
    BY <1>2 DEF Connect
  <2>3. UNCHANGED <<server, disturbed>> /\ \A d \in Clients \ {c} :
           /\ conn'[d] = conn[d] /\ snapshot'[d] = snapshot[d] /\ chan'[d] = chan[d]
           /\ list'[d] = list[d] /\ answer'[d] = answer[d] /\ gap'[d] = gap[d]
    BY <1>2 DEF Connect, page, history
  <2>. QED BY <2>1, <2>2, <2>3, ClientStep
<1>3. CASE ReadList(c)
  <2>1. \A j \in Jobs : Ended(j) /\ ~gap'[c] /\ ~Owed(j) =>
            /\ answer'[c] # <<>> => answer'[c][j] = Rows[j]
            /\ snapshot'[c][j] = Rows[j]
    BY <1>3 DEF ReadList, page
  <2>2. conn'[c] = "answered"
    BY <1>3 DEF ReadList
  <2>3. UNCHANGED <<server, disturbed>> /\ \A d \in Clients \ {c} :
           /\ conn'[d] = conn[d] /\ snapshot'[d] = snapshot[d] /\ chan'[d] = chan[d]
           /\ list'[d] = list[d] /\ answer'[d] = answer[d] /\ gap'[d] = gap[d]
    BY <1>3 DEF ReadList, page
  <2>. QED BY <2>1, <2>2, <2>3, ClientStep
<1>4. CASE Subscribe(c)
  <2>1. ASSUME NEW j \in Jobs, Ended(j), ~gap'[c], ~Owed(j)
        PROVE  /\ answer'[c] # <<>> => answer'[c][j] = Rows[j]
               /\ EndsAt(chan'[c], list'[c], j, Rows[j])
    <3>1. ComesTo(c, j) /\ conn[c] = "answered" /\ snapshot[c] \in List
      BY <1>1, <1>4, <2>1 DEF Subscribe, history
    <3>2. chan'[c] = <<snapshot[c]>> /\ UNCHANGED answer
      BY <1>4 DEF Subscribe, page
    <3>3. EndsAt(<<snapshot[c]>>, list'[c], j, Rows[j])
      BY <3>1 DEF EndsAt, Touches, Says, ComesTo
    <3>. QED BY <3>1, <3>2, <3>3 DEF ComesTo
  <2>2. conn'[c] = "open"
    BY <1>4 DEF Subscribe
  <2>3. UNCHANGED <<server, disturbed>> /\ \A d \in Clients \ {c} :
           /\ conn'[d] = conn[d] /\ snapshot'[d] = snapshot[d] /\ chan'[d] = chan[d]
           /\ list'[d] = list[d] /\ answer'[d] = answer[d] /\ gap'[d] = gap[d]
    BY <1>4 DEF Subscribe, page, history
  <2>. QED BY <2>1, <2>2, <2>3, ClientStep
<1>5. CASE Close(c)
  <2>1. \A j \in Jobs : Ended(j) /\ ~gap'[c] /\ ~Owed(j) => (answer'[c] # <<>> => answer'[c][j] = Rows[j])
    BY <1>1, <1>5 DEF Close, history, ComesTo
  <2>2. conn'[c] = "off"
    BY <1>5 DEF Close
  <2>3. UNCHANGED <<server, disturbed>> /\ \A d \in Clients \ {c} :
           /\ conn'[d] = conn[d] /\ snapshot'[d] = snapshot[d] /\ chan'[d] = chan[d]
           /\ list'[d] = list[d] /\ answer'[d] = answer[d] /\ gap'[d] = gap[d]
    BY <1>5 DEF Close, history
  <2>. QED BY <2>1, <2>2, <2>3, ClientStep
<1>. QED BY <1>2, <1>3, <1>4, <1>5 DEF Endpoint

LEMMA PageStep == ASSUME EndInv, Typed', NEW c \in Clients, Page(c) PROVE EndInv'
<1>. USE DEF EndInv, Typed, StreamTyped, PageTyped, HistoryTyped
<1>1. \A j \in Jobs : Ended(j) /\ ~gap[c] /\ ~Owed(j) => ComesTo(c, j)
  BY DEF ListsEnd
<1>2. CASE Receive(c)
  <2>1. chan[c] \in Seq(Event) /\ chan[c] # <<>> /\ list[c] \in List
    BY <1>2 DEF Receive
  <2>2. \A j \in Jobs : Ended(j) /\ ~gap'[c] /\ ~Owed(j) =>
           /\ answer'[c] # <<>> => answer'[c][j] = Rows[j]
           /\ conn'[c] = "answered" => snapshot'[c][j] = Rows[j]
           /\ conn'[c] = "open" => EndsAt(chan'[c], list'[c], j, Rows[j])
    BY <1>1, <1>2, <2>1, EndsAfterReceive DEF Receive, ComesTo, history
  <2>3. UNCHANGED <<server, disturbed>> /\ \A d \in Clients \ {c} :
           /\ conn'[d] = conn[d] /\ snapshot'[d] = snapshot[d] /\ chan'[d] = chan[d]
           /\ list'[d] = list[d] /\ answer'[d] = answer[d] /\ gap'[d] = gap[d]
    BY <1>2 DEF Receive, history
  <2>. QED BY <2>2, <2>3, ClientStep
<1>3. CASE RefreshRead(c)
  <2>1. \A j \in Jobs : Ended(j) /\ ~gap'[c] /\ ~Owed(j) =>
           /\ answer'[c] # <<>> => answer'[c][j] = Rows[j]
           /\ conn'[c] = "answered" => snapshot'[c][j] = Rows[j]
           /\ conn'[c] = "open" => EndsAt(chan'[c], list'[c], j, Rows[j])
    BY <1>1, <1>3 DEF RefreshRead, ComesTo, stream, history
  <2>2. UNCHANGED <<server, disturbed>> /\ \A d \in Clients \ {c} :
           /\ conn'[d] = conn[d] /\ snapshot'[d] = snapshot[d] /\ chan'[d] = chan[d]
           /\ list'[d] = list[d] /\ answer'[d] = answer[d] /\ gap'[d] = gap[d]
    BY <1>3 DEF RefreshRead, stream, history
  <2>. QED BY <2>1, <2>2, ClientStep
<1>4. CASE RefreshSet(c)
  <2>1. ASSUME NEW j \in Jobs, Ended(j), ~gap'[c], ~Owed(j)
        PROVE  /\ answer'[c] # <<>> => answer'[c][j] = Rows[j]
               /\ conn'[c] = "answered" => snapshot'[c][j] = Rows[j]
               /\ conn'[c] = "open" => EndsAt(chan'[c], list'[c], j, Rows[j])
    <3>1. ComesTo(c, j) /\ answer[c][j] = Rows[j]
      BY <1>1, <1>4, <2>1 DEF RefreshSet, history, ComesTo
    <3>2. UNCHANGED <<conn, snapshot, chan>> /\ list'[c] = answer[c] /\ answer'[c] = <<>>
      BY <1>4 DEF RefreshSet, stream
    <3>. QED BY <3>1, <3>2 DEF ComesTo, EndsAt
  <2>2. UNCHANGED <<server, disturbed>> /\ \A d \in Clients \ {c} :
           /\ conn'[d] = conn[d] /\ snapshot'[d] = snapshot[d] /\ chan'[d] = chan[d]
           /\ list'[d] = list[d] /\ answer'[d] = answer[d] /\ gap'[d] = gap[d]
    BY <1>4 DEF RefreshSet, stream, history
  <2>. QED BY <2>1, <2>2, ClientStep
<1>. QED BY <1>2, <1>3, <1>4 DEF Page

LEMMA EndInductive == EndInv /\ [Next]_vars => EndInv'
<1>1. ASSUME EndInv, Next PROVE EndInv'
  <2>1. Typed'
    BY <1>1, TypedStep DEF EndInv
  <2>. QED BY <1>1, <2>1, WorkerStep, ThrowStep, LateStep, UserStep, ReadStep, FailStep, EmitStep, EndpointStep, PageStep DEF Next
<1>2. ASSUME EndInv, UNCHANGED vars PROVE EndInv'
  <2>1. Typed'
    BY <1>2, TypedInductive DEF EndInv
  <2>2. Rows' = Rows
    BY <1>2 DEF Rows, HasRow, vars, server, rows
  <2>. QED BY <1>2, <2>1, <2>2
       DEF EndInv, WasWritten, LateDisturbs, RunningAlone, EndedAlone, ListsEnd, ComesTo, Ended, Owes, Owed, Idle,
           EndsAt, Touches, Says, RunOf, ChainOf, vars, server, chains, rows, stream, page, history
<1>. QED BY <1>1, <1>2

\* Nothing is on its way to client c, so its list is what it would come to.
LEMMA QuietShows ==
  ASSUME EndInv, NEW c \in Clients, NEW j \in Jobs, Quiet(c), ~gap[c], Ended(j)
  PROVE  list[c][j] = Rows[j]
<1>1. ~Owed(j)
  BY DEF Quiet, Owed
<1>2. EndsAt(<<>>, list[c], j, Rows[j])
  BY <1>1 DEF EndInv, ListsEnd, ComesTo, Quiet
<1>. QED BY <1>2 DEF EndsAt

\* The end of a download that ran undisturbed reaches every browser whose stream
\* has no gap: its verdict waits for the chain of its progress writes
\* (settleProgressWrites), so no event of the run comes after the last one; and so
\* does that of a run which runJob's catch ends, if no such write was under way.
THEOREM OverGetsShown == Spec => []OverIsShown
<1>1. EndInv => OverIsShown
  BY QuietShows DEF OverIsShown, Ended, Rows, HasRow
<1>. QED BY EndFirst, EndInductive, <1>1, PTL DEF Spec

\* A download deleted when none of its events was still to come is shown by no
\* browser whose stream has no gap (deleteDownload; applyEvent takes a snapshot
\* for the whole list).
THEOREM GoneStaysGone == Spec => []GoneIsGone
<1>1. EndInv => GoneIsGone
  BY QuietShows DEF GoneIsGone, Ended, Rows, HasRow
<1>. QED BY EndFirst, EndInductive, <1>1, PTL DEF Spec
=============================================================================
