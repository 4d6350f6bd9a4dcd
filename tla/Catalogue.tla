------------------------------ MODULE Catalogue ------------------------------
(***************************************************************************)
(* Search and title pages: circleftp/client.ts, search.ts, probe.ts and    *)
(* the first two handlers of routes/library.ts.  A request to the          *)
(* catalogue is tried again after a delay; two pools of workers then ask   *)
(* for what the page would like to show, until a deadline.                 *)
(*                                                                         *)
(* Time is counted in ticks from the arrival of the page's request.  The   *)
(* code limits each wait of a request: for a connection, for the headers,  *)
(* for each gap of a body; and each of a few redirects has these waits     *)
(* again.  A probe is given all of them.  Two things are assumed: that a   *)
(* body pauses at most MaxGaps times (and the catalogue's lasts Exchange   *)
(* with all its waits), which no timer limits, and that a connection is    *)
(* free: a request waits for one of the 16 of its host under no timer.     *)
(* Pages share nothing else, so one page is modelled.  Left out: wording,  *)
(* posters, the schema of the query, a database that fails.                *)
(***************************************************************************)
EXTENDS Integers, Sequences, SequencesExt

CONSTANTS
    Lists,        \* what the catalogue may answer a search with
    Plans,        \* the addresses a title may have, in the order of its plan
    Concurrency,  \* of the pools
    Limit,        \* of a search
    Exchange, Delay, EnrichTime, ProbeTime, ProbeWait,
    Connect, MaxRedirects,    \* of lib/httpClient.ts
    MaxGaps                   \* bound: how often the bodies of a ranged GET pause

ASSUME TimesAssumption ==
    /\ {Concurrency, Exchange, EnrichTime, ProbeTime, ProbeWait} \subseteq Nat \ {0}
    /\ {Delay, Connect, MaxRedirects, MaxGaps} \subseteq Nat
ASSUME PlansAssumption == \A plan \in Plans : plan \in Seq(ToSet(plan))

VARIABLES
    now,
    page,              \* the request: what for, how far, its answer
    calls,             \* what the handler and each worker wait for
    queue, deadline,   \* of the pool
    settled, known,       \* items with an entry, and with a value, in its results
    seen, doubled      \* history: see ShownIfFound

pool == <<queue, deadline, settled, known>>
history == <<seen, doubled>>
catalogueVars == <<now, page, calls, pool, history>>

MaxAttempts == 3
Workers == 1..Concurrency
Callers == {0} \cup Workers     \* 0 is the handler itself

Least(a, b) == IF a < b THEN a ELSE b

Call(at, n, due, item) == [at |-> at, n |-> n, due |-> due, item |-> item]
Rest == Call("rest", 0, 0, "none")
Waiting(c) == calls[c].at \in {"sent", "delay", "head", "range"}

CatalogueInit ==
    /\ now = 0
    /\ page = [for |-> "none", pc |-> "idle", answer |-> "none"]
    /\ calls = [c \in Callers |-> Rest]
    /\ queue = <<>> /\ deadline = 0
    /\ settled = {} /\ known = {}
    /\ seen = {} /\ doubled = {}

-----------------------------------------------------------------------------
(* client.ts: getJson.                                                     *)

Send(n, item) == Call("sent", n, now + Exchange, item)

Tried(n) == n = MaxAttempts

\* What becomes of attempt n: an answer, no such post (404 or an empty body), an
\* error that is final, or one that is tried again.
Outcomes(n, item) ==
    {Call(at, n, 0, item) : at \in {"ok", "missing", "failed"}}
    \cup {IF Tried(n) THEN Call("failed", n, 0, item)
          ELSE Call("delay", n, now + n * Delay, item)}

\* A call c has answered d.
GetJson(c, d) ==
    /\ calls[c].at = "sent"
    /\ d \in Outcomes(calls[c].n, calls[c].item)

SendAgain(c) ==
    /\ calls[c].at = "delay" /\ now >= calls[c].due
    /\ calls' = [calls EXCEPT ![c] = Send(@.n + 1, @.item)]
    /\ UNCHANGED <<now, page, pool, history>>

Answer(a) == page' = [page EXCEPT !.pc = "over", !.answer = a]

\* Mutant: an error is passed on as it is.
RethrowRaw(at) == Answer(at)

\* rethrowUpstream.
Rethrow(at) == Answer(IF at = "missing" THEN "notfound" ELSE "upstream")

-----------------------------------------------------------------------------
(* search.ts: searchTitles.                                                *)

WeakScore == 4

\* The posts of the kind asked for, by score and then in the order of the catalogue.
Scored(list, kind) ==
    LET posts == [i \in DOMAIN list |-> [id |-> i, kind |-> list[i].kind, score |-> list[i].score]]
        Band(s) == SelectSeq(posts, LAMBDA p : p.score = s /\ kind \in {"any", p.kind})
    IN  FlattenSeq([s \in 1..(WeakScore + 1) |-> Band(s - 1)])

First(n, seq) == SubSeq(seq, 1, Least(n, Len(seq)))

Chosen(list, kind) ==
    LET scored == Scored(list, kind)
        strong == SelectSeq(scored, LAMBDA p : p.score < WeakScore)
    IN  First(Limit, IF strong # <<>> THEN strong ELSE First(5, scored))

Series(results) == SelectSeq(results, LAMBDA p : p.kind = "series")

OpenSearch ==
    /\ page.pc = "idle"
    /\ page' = [page EXCEPT !.for = "search", !.pc = "ask"]
    /\ calls' = [calls EXCEPT ![0] = Send(1, "posts")]
    /\ UNCHANGED <<now, pool, history>>

-----------------------------------------------------------------------------
(* The pools.                                                              *)

\* A worker of enrichSeries goes on.
Starts == now < deadline

Enrich(item) == Send(1, item)

\* Mutant: the exchanges of a late probe are not cut short.
AllowedFull(t) == ProbeWait

Allowed(t) == Least(ProbeWait, t)

\* How long a HEAD, and the ranged GET after it, may take when they were given t:
\* connecting, and then t for the headers, at the address and after each redirect;
\* and t for each gap of a body, which a HEAD has not.
HeadLasts(t) == (MaxRedirects + 1) * (Connect + t)
GetLasts(t) == HeadLasts(t) + MaxGaps * t

\* probeSize begins with a HEAD.
Head1(item, t) == Call("head", Allowed(t), now + HeadLasts(Allowed(t)), item)

\* What a worker asks first: the seasons of a series, or the size of a file.
FirstCall(item) == IF page.for = "search" THEN Enrich(item) ELSE Head1(item, ProbeTime)

\* Both pools begin with one item, and the call for it, for each worker.
Begin(items, until) ==
    /\ queue' = SubSeq(items, Concurrency + 1, Len(items))
    /\ deadline' = until
    /\ calls' = [c \in Callers |-> IF c \in 1..Len(items) THEN FirstCall(items[c]) ELSE Rest]
    /\ doubled' = {u \in ToSet(items) :
                     \E a, b \in 1..Least(Concurrency, Len(items)) : a # b /\ items[a] = u /\ items[b] = u}
    /\ UNCHANGED <<settled, known, seen>>

SearchAnswered ==
    /\ page.for = "search" /\ page.pc = "ask"
    /\ \E d \in Outcomes(calls[0].n, "posts") :
         /\ GetJson(0, d)
         /\ IF d.at = "ok"
            THEN \E list \in Lists, kind \in {"any", "series"} :
                   LET targets == Series(Chosen(list, kind))
                       ids == [i \in DOMAIN targets |-> targets[i].id]
                   IN
                   /\ Begin(ids, now + EnrichTime)
                   /\ page' = [page EXCEPT !.pc = "pool"]
            ELSE /\ IF d.at = "delay" THEN UNCHANGED page ELSE Rethrow(d.at)
                 /\ calls' = [calls EXCEPT ![0] = d]
                 /\ UNCHANGED <<pool, history>>
    /\ UNCHANGED now

\* enrichSeries: a season list, or the counts stay absent.
EnrichAnswered(w) ==
    /\ page.for = "search" /\ page.pc = "pool"
    /\ \E d \in Outcomes(calls[w].n, calls[w].item) :
         /\ GetJson(w, d)
         /\ known' = IF d.at = "ok" THEN known \cup {d.item} ELSE known
         /\ IF d.at # "delay" /\ queue # <<>> /\ Starts
            THEN /\ calls' = [calls EXCEPT ![w] = Enrich(Head(queue))]
                 /\ queue' = Tail(queue)
            ELSE /\ calls' = [calls EXCEPT ![w] = IF d.at = "delay" THEN d ELSE Rest]
                 /\ UNCHANGED queue
    /\ UNCHANGED <<now, page, deadline, settled, history>>

OpenTitle ==
    /\ page.pc = "idle"
    /\ page' = [page EXCEPT !.for = "title", !.pc = "ask"]
    /\ calls' = [calls EXCEPT ![0] = Send(1, "post")]
    /\ UNCHANGED <<now, pool, history>>

\* fetchPost has answered: the sizes are asked for when the page wants them.
TitleAnswered ==
    /\ page.for = "title" /\ page.pc = "ask"
    /\ \E d \in Outcomes(calls[0].n, "post") :
         /\ GetJson(0, d)
         /\ IF d.at = "ok"
            THEN \E plan \in Plans, probe \in BOOLEAN :
                   /\ Begin(IF probe THEN plan ELSE <<>>, now + ProbeTime)
                   /\ page' = [page EXCEPT !.pc = "pool"]
            ELSE /\ IF d.at = "delay" THEN UNCHANGED page ELSE Rethrow(d.at)
                 /\ calls' = [calls EXCEPT ![0] = d]
                 /\ UNCHANGED <<pool, history>>
    /\ UNCHANGED now

\* Mutant: an address that has a result is asked again.
UnansweredAll(q, results) == q

\* results.has(file.url): items that have a result are passed over.
Unanswered(q, results) ==
    LET left == {i \in DOMAIN q : q[i] \notin results}
    IN  IF left = {} THEN <<>> ELSE SubSeq(q, CHOOSE i \in left : \A j \in left : i <= j, Len(q))

\* A HEAD that is refused, or fails, is followed by a ranged GET.
HeadRefused(w) ==
    /\ calls[w].at = "head"
    /\ calls' = [calls EXCEPT ![w] = Call("range", @.n, now + GetLasts(@.n), @.item)]
    /\ UNCHANGED <<now, page, pool, history>>

\* The result of a probe, a size or none, is set and the worker takes its next file.
Probed(w) ==
    /\ calls[w].at \in {"head", "range"}
    /\ \E found \in BOOLEAN :
         LET u == calls[w].item
             q == Unanswered(queue, settled')
             next == IF now < deadline /\ q # <<>> THEN Head1(Head(q), deadline - now) ELSE Rest
         IN  /\ settled' = settled \cup {u}
             /\ known' = IF found THEN known \cup {u} ELSE known \ {u}
             /\ seen' = IF found THEN seen \cup {u} ELSE seen
             /\ queue' = IF now >= deadline THEN queue ELSE IF q = <<>> THEN q ELSE Tail(q)
             /\ calls' = [calls EXCEPT ![w] = next]
             /\ doubled' = doubled \cup
                  {v \in {next.item} : \E o \in Workers \ {w} : Waiting(o) /\ calls[o].item = v}
    /\ UNCHANGED <<now, page, deadline>>

\* Promise.all: the results are sent, or the row of a download under way is read first.
PoolOver ==
    /\ page.pc = "pool" /\ \A w \in Workers : ~Waiting(w)
    /\ IF page.for = "search" THEN Answer("ok") ELSE page' = [page EXCEPT !.pc = "find"]
    /\ UNCHANGED <<now, calls, pool, history>>

FoundActive ==
    /\ page.pc = "find" /\ Answer("ok")
    /\ UNCHANGED <<now, calls, pool, history>>

\* Time passes when nothing is due.
TimePasses ==
    /\ page.pc \in {"ask", "pool"}
    /\ \E c \in Callers : Waiting(c)
    /\ \A c \in Callers : Waiting(c) => now < calls[c].due
    /\ now' = now + 1
    /\ UNCHANGED <<page, calls, pool, history>>

CatalogueNext ==
    \/ OpenSearch \/ SearchAnswered \/ OpenTitle \/ TitleAnswered
    \/ PoolOver \/ FoundActive \/ TimePasses
    \/ \E c \in Callers : SendAgain(c)
    \/ \E w \in Workers : EnrichAnswered(w) \/ HeadRefused(w) \/ Probed(w)

-----------------------------------------------------------------------------
\* The longest call of getJson, with its delays of one and two units.
CallTime == MaxAttempts * Exchange + 3 * Delay

\* What the longest probe takes beyond what it was given: a worker may begin it as
\* long as that is left until the deadline.
ProbeOver == LET t == Least(ProbeWait, ProbeTime) IN HeadLasts(t) + GetLasts(t) - t

\* "A slow upstream just omits them", "an unresponsive host must not hold up a
\* page render": the catalogue is asked within the time of one call, and what it
\* is asked for besides is over within one call after the deadline of its pool, or
\* within ProbeOver.  That is less than the "wall-clock deadline" of probe.ts: the
\* deadline bounds when a probe begins and each of its waits, not their sum.
AnswersInTime ==
    /\ page.pc = "ask" => now <= CallTime
    /\ page.pc = "pool" =>
         now <= deadline + IF page.for = "search" THEN CallTime ELSE ProbeOver

\* A size some probe found is on the page, unless two workers asked one address
\* at the same time: the later answer then stands, even one without a size.
ShownIfFound == page.pc \in {"find", "over"} => seen \ doubled \subseteq known
=============================================================================
