---------------------------- MODULE TransferPlan ----------------------------
(***************************************************************************)
(* What a title is made of: buildPlan and deduplicatePaths                 *)
(* (circleftp/plan.ts) and the choice of seasons (text.ts).                *)
(*                                                                         *)
(* A name is a sequence: <<"a">> is a.mkv, <<"a", 2>> is "a (2).mkv",      *)
(* whether the host or deduplicatePaths named it so.  A path is a folder,  *)
(* the marker SxxEyy put before the name (<<>> for none), and the name.    *)
(***************************************************************************)
EXTENDS Naturals, Sequences, FiniteSets, SequencesExt, TLC

CONSTANTS
    NumberOf,   \* of each name of a season: the number in it, 0 for none
    PartsOf     \* of each name of a season: what is between its commas

\* seasonMatches: the wanted name is the season's, or holds the same number.
SeasonMatches(name, wanted) ==
    \/ wanted = {}
    \/ \E w \in wanted : w = name \/ (NumberOf[name] # 0 /\ NumberOf[w] = NumberOf[name])

SeasonDir(season) ==
    IF NumberOf[season.name] # 0 THEN <<"Season", NumberOf[season.name]>> ELSE <<season.name>>

\* An episode without a number in its title has that of its place.
Number(episode, i) == IF episode.number # 0 THEN episode.number ELSE i

EpisodePath(season, i) ==
    LET e == season.episodes[i]
        plain == e.marked \/ NumberOf[season.name] = 0
    IN  [dir |-> SeasonDir(season),
         mark |-> IF plain THEN <<>> ELSE <<NumberOf[season.name], Number(e, i)>>,
         name |-> e.name]

\* Episodes without a link are left out before they are counted.
Linked(season) == [season EXCEPT !.episodes = SelectSeq(@, LAMBDA e : e.linked)]

SeasonPaths(season) ==
    [i \in DOMAIN Linked(season).episodes |-> EpisodePath(Linked(season), i)]

Loose(name) == [dir |-> <<>>, mark |-> <<>>, name |-> name]

\* The paths before deduplicatePaths, in the order of the catalogue.  A title is
\* a series, one file, or parts; one of an unknown type is taken for one file.
RawPaths(post, wanted) ==
    CASE post.type = "series" ->
           LET chosen == SelectSeq(post.seasons, LAMBDA s : SeasonMatches(s.name, wanted))
           IN  FlattenSeq([i \in DOMAIN chosen |-> SeasonPaths(chosen[i])])
      [] post.type = "parts" ->
           LET linked == SelectSeq(post.parts, LAMBDA p : p.linked)
           IN  [i \in DOMAIN linked |-> Loose(linked[i].name)]
      [] OTHER -> IF post.linked THEN <<Loose(post.name)>> ELSE <<>>

\* A sequence of paths, the name of each a sequence.
IsSequence(s) == Len(s) \in Nat /\ s = [i \in 1..Len(s) |-> s[i]]
IsListing(paths) ==
    /\ IsSequence(paths)
    /\ \A i \in DOMAIN paths :
         /\ paths[i] = [dir |-> paths[i].dir, mark |-> paths[i].mark, name |-> paths[i].name]
         /\ IsSequence(paths[i].name)

Suffixed(path, k) == [path EXCEPT !.name = Append(@, k)]

\* How many of the first i paths are the i-th.
Occurrence(paths, i) == Cardinality({j \in 1..i : paths[j] = paths[i]})

\* Mutant: every repetition gets the same suffix.
DeduplicatedTwo(paths) ==
    [i \in DOMAIN paths |-> IF Occurrence(paths, i) = 1 THEN paths[i] ELSE Suffixed(paths[i], 2)]

\* deduplicatePaths: its map is keyed by the paths as they came, so the second
\* of a name is the (2), the third the (3), whatever else is called so.
Deduplicated(paths) ==
    [i \in DOMAIN paths |->
       IF Occurrence(paths, i) = 1 THEN paths[i] ELSE Suffixed(paths[i], Occurrence(paths, i))]

\* buildPlan.
Plan(post, wanted) == Deduplicated(RawPaths(post, wanted))

\* What a query string makes of a selection: names with a comma fall apart.
Queried(wanted) == UNION {PartsOf[w] : w \in wanted}

-----------------------------------------------------------------------------
Distinct(paths) == \A i, j \in DOMAIN paths : i # j => paths[i] # paths[j]

\* No path looks like the suffixed form of another.
Unsuffixed(paths) ==
    \A i, j \in DOMAIN paths : \A k \in 2..Len(paths) : paths[i] # Suffixed(paths[j], k)
=============================================================================
