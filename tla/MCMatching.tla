------------------------------ MODULE MCMatching ------------------------------
(* Two deals; "ghost" is an id the reasoner made up, "doc" and "note" are p's,  *)
(* "other" is q's.                                                              *)
EXTENDS Matching

MCExcerpt == [web |-> <<"a">>, doc |-> <<"a", "b">>, note |-> <<"b">>, other |-> <<"b">>]
MCLineage == [p |-> {"doc", "note"}, q |-> {"other"}]
MCTokens == [web |-> {"x", "y"}, doc |-> {"x", "y"}, note |-> {"x"}, other |-> {"x"}]
MCNameTokens == [p |-> {"p"}, q |-> {"q"}]
MCEventTokens == [web |-> {"x"}, doc |-> {}, note |-> {}, other |-> {}]
MCStatements == {<<"a">>, <<"b">>, <<"a", "b">>}
MCCitations == {{"web", "doc"}, {"web", "note", "other"}, {"doc"}, {"web", "ghost"}}
Rating(n) == [event |-> n, deal |-> n, prior |-> n, quality |-> n]
OneRating == {Rating(100)}
TwoRatings == {Rating(10), Rating(100)}
OneSentence == {<<"a">>, <<"b">>}
OneCitation == {{"web", "doc"}, {"web"}, {"doc"}}
=============================================================================
