------------------------------- MODULE MCSite -------------------------------
(***************************************************************************)
(* An instance of Site.  The catalogue's answers hold weak and strong      *)
(* matches, series and films, and more series than the pool has workers;   *)
(* the plans hold one address twice.  The title is a series with a season  *)
(* whose name has a comma ("Season 2, Season 1"), or has names that come   *)
(* twice, or parts of which one is already called "p (2)".                 *)
(***************************************************************************)
EXTENDS Site

Match(k, s) == [kind |-> k, score |-> s]

MCLists == {
    <<>>,
    <<Match("movie", 4), Match("series", 4)>>,
    <<Match("series", 4), Match("series", 2), Match("movie", 0)>>,
    <<Match("series", 1), Match("series", 0), Match("series", 3), Match("series", 0)>>}

MCPlans == {<<>>, <<"a", "a">>, <<"a", "b", "a">>, <<"a", "b", "c">>}

\* The files of the title are alike.
Alike == Permutations(Paths)

MCNumberOf == [one |-> 1, two |-> 2, mix |-> 2, extra |-> 0]
MCPartsOf == [one |-> {"one"}, two |-> {"two"}, mix |-> {"two", "one"}, extra |-> {"extra"}]

Episode(name, number, marked) == [name |-> name, number |-> number, marked |-> marked, linked |-> TRUE]
Season(name, episodes) == [name |-> name, episodes |-> episodes]
Part(name) == [name |-> name, linked |-> TRUE]

MCPosts == {
    [type |-> "series", seasons |->
       <<Season("one", <<Episode(<<"a">>, 0, TRUE), Episode(<<"b">>, 0, FALSE)>>),
         Season("mix", <<Episode(<<"c">>, 0, TRUE), [Episode(<<"c">>, 0, FALSE) EXCEPT !.linked = FALSE]>>)>>],
    [type |-> "series", seasons |->
       <<Season("one", <<Episode(<<"a">>, 0, TRUE), Episode(<<"a">>, 0, TRUE)>>),
         Season("extra", <<Episode(<<"c">>, 3, FALSE)>>)>>],
    [type |-> "parts", parts |-> <<Part(<<"p">>), [Part(<<"q">>) EXCEPT !.linked = FALSE], Part(<<"p">>), Part(<<"p">>)>>],
    [type |-> "parts", parts |-> <<Part(<<"p", 2>>), Part(<<"p">>), Part(<<"p">>)>>],
    [type |-> "file", linked |-> TRUE, name |-> <<"f">>]}
=============================================================================
