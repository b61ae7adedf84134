------------------------------- MODULE Matching -------------------------------
(***************************************************************************)
(* Matching deals with market events: what the reasoner (a language model, *)
(* which may answer anything) proposes is kept only as far as sentences of *)
(* the sources it names contain it, and each deal's analysis is made of    *)
(* what was kept.  A text is a sequence of sentences; a score is in tenths *)
(* of a thousandth.                                                        *)
(***************************************************************************)
EXTENDS Naturals, Sequences, FiniteSets, SequencesExt, FiniteSetsExt

CONSTANTS
    Excerpt,        \* per source: the text it is quoted from
    Public,         \* the sources with provenance public_web
    Lineage,        \* per deal with a memory context: its own sources and fixtures
    Fixtures,       \* the sources that are fixtures
    Tokens,         \* per source: the tokens of its excerpt
    NameTokens,     \* per deal: the tokens of the company's name
    EventTokens,    \* per source: sectors and themes of the events that have it
    Statements,     \* the texts the reasoner puts into its answer
    Citations,      \* the sets of source ids it names, known or not
    Ratings,        \* the score inputs it gives
    MaxClaims, MaxImplications, MaxMatches

Catalog == DOMAIN Excerpt
Matched == DOMAIN Lineage

ASSUME MatchingAssumption ==
    /\ Public \subseteq Catalog /\ Fixtures \subseteq Catalog
    /\ \A s \in Catalog : Excerpt[s] \in Seq(Range(Excerpt[s]))
    /\ \A t \in Statements : t \in Seq(Range(t))
    /\ \A d \in Matched : Lineage[d] \subseteq Catalog
    /\ \A r \in Ratings : \A i \in {"event", "deal", "prior", "quality"} : r[i] \in 0..100
    /\ {MaxClaims, MaxImplications, MaxMatches} \subseteq Nat

VARIABLES answer    \* the matches of the reasoner, in its order

matchingVars == <<answer>>

MatchingInit == answer = <<>>

-----------------------------------------------------------------------------
(* Grounding. *)

Includes(text, part) == \E i \in 0..Len(text) :
    i + Len(part) <= Len(text) /\ SubSeq(text, i + 1, i + Len(part)) = part

\* normalizeMatches: ids that are not in the catalog are dropped.
Resolved(claim) == [claim EXCEPT !.sources = @ \cap Catalog]
Normalised(match) ==
    [match EXCEPT !.cited = @ \cap Catalog, !.claims = [i \in DOMAIN @ |-> Resolved(@[i])]]

IsExcerpted(claim, valid) ==
    claim.sources # {} /\ \A s \in claim.sources : Includes(Excerpt[s], claim.text)

\* supportedClaims: every source named for a claim is valid and contains it.
IsSupported(claim, valid) ==
    /\ claim.sources # {}
    /\ \A s \in claim.sources : s \in valid /\ Includes(Excerpt[s], claim.text)

GroundedText(text, match, valid) ==
    LET matched == {i \in DOMAIN match.claims :
                       IsSupported(match.claims[i], valid) /\ Includes(text, match.claims[i].text)}
    IN [text |-> FlattenSeq([i \in DOMAIN match.claims |->
                                IF i \in matched THEN match.claims[i].text ELSE <<>>]),
        sources |-> UNION {match.claims[i].sources : i \in matched}]

Why(match) == GroundedText(match.why, match, match.cited \cap Public)

Previous(match) == GroundedText(match.previous, match, Lineage[match.deal])

\* The texts it gives as implications, positive or negative, each grounded in anything cited.
Implications(match) ==
    {GroundedText(text, match, match.cited) : text \in Range(match.implications)}

\* An implication is shown if what is grounded of it, or of another, is all of it.
Shown(texts, match) ==
    LET shown == {i \in DOMAIN texts : \E g \in Implications(match) : g.text = texts[i]}
    IN FlattenSeq([i \in DOMAIN texts |-> IF i \in shown THEN <<texts[i]>> ELSE <<>>])

UsedSources(match) ==
    Why(match).sources \cup Previous(match).sources \cup UNION {g.sources : g \in Implications(match)}

-----------------------------------------------------------------------------
(* Relevance and score. *)

TokensOf(tokens, sources) == UNION {tokens[s] : s \in sources}

\* overlapStrength, in hundredths.
Overlapping(match) ==
    LET public == match.cited \cap Public
        own == TokensOf(Tokens, match.cited \cap Lineage[match.deal])
        heard == TokensOf(Tokens, public)
        shared == Cardinality(heard \cap own)
        name == NameTokens[match.deal]
    IN IF /\ shared < 2
          /\ name = {} \/ ~(name \subseteq heard)
          /\ TokensOf(EventTokens, public) \cap own = {}
       THEN 0
       ELSE 60 + 15 * Min({2, Max({shared, 2}) - 2})

\* weightedOpportunityScore, its two relevances capped.
Score(match) ==
    LET s == Overlapping(match) IN
    35 * Min({match.rating.event, s}) + 30 * Min({match.rating.deal, s})
        + 20 * match.rating.prior + 15 * match.rating.quality

Confidence(score) == IF score >= 7800 THEN "high" ELSE IF score >= 5000 THEN "medium" ELSE "low"

\* What analyze keeps.
IsGrounded(match) ==
    /\ match.cited \cap Public # {}
    /\ match.cited \cap Lineage[match.deal] # {}
    /\ Overlapping(match) > 0
    /\ Why(match).text # <<>> /\ Previous(match).text # <<>>

Kept == {i \in DOMAIN answer : IsGrounded(Normalised(answer[i]))}

\* A match as it is reported.
AsReported(match) ==
    [deal |-> match.deal, confidence |-> Confidence(Score(match)),
     why |-> Why(match).text, previous |-> Previous(match).text,
     implications |-> Shown(match.implications, match),
     fixtures |-> match.fixtures \cap Lineage[match.deal] \cap Fixtures \cap UsedSources(match),
     sources |-> UsedSources(match)]

Reports == {AsReported(Normalised(answer[i])) : i \in Kept}

\* buildCompanyAnalyses: the map from deals to matches keeps the last one, and the
\* matches come with falling score, equal ones in the reasoner's order.
MatchOf(d) ==
    LET of == {i \in Kept : answer[i].deal = d}
        score(i) == Score(Normalised(answer[i]))
    IN {i \in of : \A j \in of : score(i) < score(j) \/ (score(i) = score(j) /\ j <= i)}

Outcome(d) ==
    LET confidences == {AsReported(Normalised(answer[i])).confidence : i \in MatchOf(d)} IN
    IF confidences = {} THEN "no_material_change"
    ELSE IF confidences = {"low"} THEN "monitor" ELSE "belief_revised"

-----------------------------------------------------------------------------
(* The reasoner. *)

\* A claim is a statement with the sources named for it; each statement once.
Claims == [text : Statements, sources : Citations]

Keyed(claims) == \A i, j \in DOMAIN claims : i # j => claims[i].text # claims[j].text

\* reason: a match of the answer.  Matches of other deals are dropped.
Propose ==
    /\ Len(answer) < MaxMatches
    /\ \E d \in Matched, why, previous \in Statements,
          implications \in SeqOf(Statements, MaxImplications),
          cited \in Citations, rating \in Ratings,
          claims \in {c \in SeqOf(Claims, MaxClaims) : Keyed(c)} :
          answer' = Append(answer,
              [deal |-> d, why |-> why, previous |-> previous, implications |-> implications,
               cited |-> cited, fixtures |-> cited, rating |-> rating, claims |-> claims])

MatchingNext == Propose

MatchingSpec == MatchingInit /\ [][MatchingNext]_matchingVars
-----------------------------------------------------------------------------
(* Properties. *)

\* The sentences of a text all occur in excerpts of the sources.
Quoted(text, sources) ==
    \A i \in DOMAIN text : \E s \in sources : text[i] \in Range(Excerpt[s])

\* Whatever the reasoner answers, a reported match says only what the sources it
\* lists say: why now in public ones, the previous context in the deal's own, an
\* implication in any of them; and the fixtures it lists are the deal's.
MatchesGrounded == \A m \in Reports :
    /\ m.sources \subseteq Catalog
    /\ m.why # <<>> /\ Quoted(m.why, m.sources \cap Public)
    /\ m.previous # <<>> /\ Quoted(m.previous, m.sources \cap Lineage[m.deal])
    /\ \A t \in Range(m.implications) : Quoted(t, m.sources)
    /\ m.fixtures \subseteq m.sources \cap Lineage[m.deal]

\* A deal with a grounded match of medium or high confidence has its belief revised.
QualifiedMatchRevises == \A m \in Reports :
    m.confidence \in {"medium", "high"} => Outcome(m.deal) = "belief_revised"
=============================================================================
