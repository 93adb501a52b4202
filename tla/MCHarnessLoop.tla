--------------------------- MODULE MCHarnessLoop ---------------------------
(* Small instances of HarnessLoop for TLC. *)
EXTENDS HarnessLoop

Request(names, dims, trend, compare, news) ==
    [names |-> names, dims |-> dims, trend |-> trend, compare |-> compare, news |-> news]

\* A financial profile with its trend, a comparison of two suppliers, and a question for news.
ThreeRequests == {
    Request(<<"a">>, <<"financial", "sentiment">>, TRUE, FALSE, FALSE),
    Request(<<"a", "b">>, <<"risk">>, FALSE, TRUE, FALSE),
    Request(<<"a">>, <<>>, FALSE, FALSE, TRUE)}
=============================================================================
