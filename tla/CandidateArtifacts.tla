--------------------------- MODULE CandidateArtifacts ---------------------------
(***************************************************************************)
(* A candidate's artifacts: the lenses (a language model, which may answer *)
(* anything) judge the evidence, what is grounded becomes a judgment and   *)
(* the rest an abstention, and everything is composed into one payload     *)
(* that the database checks when it saves it and a reader checks again,    *)
(* more strictly, whenever it loads it.  One calculation stands for a      *)
(* section of the valuation.                                               *)
(***************************************************************************)
EXTENDS Naturals, Sequences, FiniteSets, SequencesExt, FiniteSetsExt

CONSTANTS
    LensCards,      \* the sequence of lens cards: id and kind
    Mandatory,      \* the cards the decision rests on
    Topics,         \* the pairs of cards whose opposition is a disagreement
    Packs,          \* the evidence packs: facts, conflicts (pairs of facts), benchmark
    Suggested,      \* ids a lens may name as support or counterevidence
    Stray           \* ids it makes up

\* The cards of a catalog are a list without duplicates.
ASSUME CardsAssumption ==
    /\ LensCards \in Seq(ToSet(LensCards))
    /\ \A i, j \in DOMAIN LensCards : LensCards[i].id = LensCards[j].id => i = j

\* A conflict is between facts of its own pack.
ASSUME ConflictsInPack == \A p \in Packs : UNION p.conflicts \subseteq p.facts

VARIABLES
    pack,
    lens,       \* the judgments so far, one for each card in order
    tries,      \* answers of the next lens that were not grounded
    saved,      \* "none", "completed" or "refused"
    edited      \* the channels whose draft was given another body

artifactVars == <<pack, lens, tries, saved, edited>>

Channels == {"email", "sms", "linkedin", "internal_memo", "dd_request"}

ArtifactsInit ==
    /\ pack \in Packs
    /\ lens = <<>> /\ tries = 0 /\ saved = "none" /\ edited = {}

-----------------------------------------------------------------------------
(* The valuation. *)

Assumptions == {"multiple"} \cup (IF pack.benchmark THEN {"benchmark"} ELSE {})

\* evaluateValuationArtifacts: the sections whose inputs are known.
Calculations ==
    LET sections == [market_comps |-> pack.benchmark,
                     venture |-> "arr" \in pack.facts,
                     ownership |-> "ask" \in pack.facts,
                     returns |-> {"arr", "ask"} \subseteq pack.facts]
    IN {s \in DOMAIN sections : sections[s]}

Inputs(calculation) ==
    LET ask == IF "ask" \in pack.facts THEN {<<"fact", "ask">>} ELSE {} IN
    CASE calculation = "market_comps" ->
             {<<"benchmark", "benchmark">>, <<"assumption", "multiple">>} \cup ask
      [] calculation = "venture" ->
             {<<"fact", "arr">>, <<"assumption", "multiple">>, <<"policy", "returnTargets">>}
      [] calculation = "ownership" -> {<<"policy", "initialCheckMax">>} \cup ask
      [] calculation = "returns" -> {<<"policy", "initialCheckMax">>}

Edge(claim, type, id) == [claim |-> claim, type |-> type, id |-> id]

CalculationEdges ==
    {Edge("returns", "calculation", c) : c \in IF "returns" \in Calculations
                                               THEN {"venture", "ownership"} ELSE {}}

-----------------------------------------------------------------------------
(* The lenses. *)

\* Only the valuation card may use calculations.
Allowed(card) ==
    pack.facts \cup Assumptions \cup (IF card.kind = "valuation" THEN Calculations ELSE {})

TypeOfItem(id) ==
    IF id \in pack.facts THEN "fact" ELSE IF id \in Assumptions THEN "assumption" ELSE "calculation"

\* ClaudeFrameworkLensOutputSchema; the strongest claims come with the ids.
IsBounded(output) ==
    IF output.applicability = "applicable"
    THEN output.conclusion # "abstain" /\ output.support # {} /\ output.counter # {}
    ELSE output.conclusion = "abstain" /\ output.support = {} /\ output.counter = {}

AreDisjoint(output) ==
    /\ output.support \cap output.counter = {}
    /\ (output.support \cup output.counter) \cap output.unused = {}

IsKnown(card, output) ==
    AreDisjoint(output) /\ output.support \cup output.counter \subseteq Allowed(card)

\* Every allowed input is support, counterevidence or unused, and nothing else is.
IsPartition(card, output) ==
    AreDisjoint(output) /\ output.support \cup output.counter \cup output.unused = Allowed(card)

IsGroundedIn(card, output) ==
    IsBounded(output) /\ IsPartition(card, output) /\ output.rules = {card.id}

Judgment(card, output) ==
    [card |-> card.id, advisory |-> card.kind = "advisory",
     applicability |-> output.applicability, conclusion |-> output.conclusion,
     support |-> output.support, counter |-> output.counter, unused |-> output.unused,
     edges |-> {Edge(card.id, TypeOfItem(id), id) : id \in output.support \cup output.counter}
               \cup {Edge(card.id, "framework_ref", card.id)}]

Abstention(card, applicability) ==
    Judgment(card, [applicability |-> applicability, conclusion |-> "abstain",
                    support |-> {}, counter |-> {}, unused |-> Allowed(card)])

NextCard == LensCards[Len(lens) + 1]

MayJudge == saved = "none" /\ Len(lens) < Len(LensCards)

AddJudgment(judgment) ==
    /\ lens' = Append(lens, judgment) /\ tries' = 0
    /\ UNCHANGED <<pack, saved, edited>>

\* An advisory card none of whose components applies is not asked, nor is a formal one
\* when the context selects another framework pack.
SkipCard ==
    /\ MayJudge
    /\ AddJudgment(Abstention(NextCard, IF NextCard.kind = "advisory" THEN "not_applicable" ELSE "unavailable"))

MaxAnswers(card) == IF card.kind = "advisory" THEN 1 ELSE 2

\* What a lens may answer; an answer that was cut off counts as one without rules.
Outputs ==
    LET ids == Allowed(NextCard)
        some == {{}} \cup {{id} : id \in Suggested}
    IN {[applicability |-> a, conclusion |-> c, support |-> s, counter |-> k,
         unused |-> known \ (s \cup k), rules |-> r] :
            a \in {"applicable", "not_applicable"}, c \in {"supportive", "negative", "abstain"},
            s \in some, k \in some, known \in {ids, ids \cup Stray, ids \ {"multiple"}},
            r \in {{}, {NextCard.id}}}

\* One repair, and none for an advisory card.
AnswerLens ==
    /\ MayJudge
    /\ \E output \in Outputs :
          IF IsGroundedIn(NextCard, output) THEN AddJudgment(Judgment(NextCard, output))
          ELSE IF tries + 1 = MaxAnswers(NextCard) THEN AddJudgment(Abstention(NextCard, "unavailable"))
          ELSE tries' = tries + 1 /\ UNCHANGED <<pack, lens, saved, edited>>

Judgments == ToSet(lens)

\* validateCacheReplay: what a retry of the stage accepts of its lens cache.
IsReplayable(card, judgment) ==
    /\ judgment.card = card.id
    /\ judgment.advisory = (card.kind = "advisory")
    /\ IsPartition(card, judgment)
    /\ judgment.edges =
          {Edge(card.id, TypeOfItem(id), id) : id \in judgment.support \cup judgment.counter}
          \cup {Edge(card.id, "framework_ref", card.id)}
    /\ IF judgment.applicability = "applicable"
       THEN judgment.conclusion # "abstain" /\ judgment.support # {} /\ judgment.counter # {}
       ELSE judgment.conclusion = "abstain" /\ judgment.support = {} /\ judgment.counter = {}

-----------------------------------------------------------------------------
(* Composition. *)

AreOpposed(left, right) ==
    /\ left.applicability = "applicable" /\ right.applicability = "applicable"
    /\ {left.conclusion, right.conclusion} = {"supportive", "negative"}

Place(judgment) == CHOOSE i \in DOMAIN lens : lens[i].card = judgment.card

\* Formal cards oppose by topic, advisory ones each other, earlier card first.
Disagreements ==
    {d \in Judgments \X Judgments :
        /\ AreOpposed(d[1], d[2])
        /\ \/ <<d[1].card, d[2].card>> \in Topics
           \/ d[1].advisory /\ d[2].advisory /\ Place(d[1]) < Place(d[2])}

Blocking == UNION pack.conflicts

\* Judgments the decision counts: of mandatory formal cards.
Formal == {j \in Judgments : ~j.advisory /\ j.card \in Mandatory}

\* claimEdges of the decision engine, from the rules that fired.
DecisionEdges ==
    {Edge("decision", "framework_judgment", j.card) : j \in Formal}
    \cup {Edge("decision", "calculation", c) : c \in Calculations}
    \cup {Edge("decision", "fact", f) : f \in Blocking}
    \cup {Edge("decision", "policy_ref", p) : p \in {"fund_policy", "decision_policy"}}
    \cup (IF pack.benchmark THEN {Edge("decision", "benchmark_ref", "benchmark_pack")} ELSE {})

ClaimEdges == CalculationEdges \cup DecisionEdges \cup UNION {j.edges : j \in Judgments}

\* What the version snapshot pins.
Version ==
    [policies |-> {"fund_policy", "decision_policy", "evidence_profile", "valuation_policy"},
     benchmark |-> IF pack.benchmark THEN {"benchmark_pack"} ELSE {},
     frameworks |-> {"framework_pack"}]

-----------------------------------------------------------------------------
(* Saving. *)

\* assert_underwriting_claim_edge: a comparison with no benchmark is null, which
\* raises nothing.
EdgeIsSaved(edge) ==
    CASE edge.type = "fact" -> edge.id \in pack.facts
      [] edge.type = "assumption" -> edge.id \in Assumptions
      [] edge.type = "calculation" -> edge.id \in Calculations
      [] edge.type = "framework_judgment" -> \E j \in Judgments : j.card = edge.id
      [] edge.type = "policy_ref" -> edge.id \in Version.policies
      [] edge.type = "benchmark_ref" -> Version.benchmark \subseteq {edge.id}
      [] edge.type = "framework_ref" ->
             edge.id \in Version.frameworks \cup {j.card : j \in Judgments}

PolicyInputs == {"initialCheckMax", "acceptableFutureDilution", "returnTargets"}

InputIsSaved(input) ==
    CASE input[1] = "fact" -> input[2] \in pack.facts
      [] input[1] = "assumption" -> input[2] \in Assumptions
      [] input[1] = "policy" -> input[2] \in Version.policies \cup PolicyInputs
      [] input[1] = "benchmark" -> input[2] \in Assumptions /\ Version.benchmark # {}

\* The checks of finalize_candidate_underwriting.
IsSavable ==
    /\ \A c \in Calculations : \A input \in Inputs(c) : InputIsSaved(input)
    /\ \A e \in CalculationEdges : {e.claim, e.id} \subseteq Calculations
    /\ \A e \in ClaimEdges \ CalculationEdges : EdgeIsSaved(e)

Finalize ==
    /\ saved = "none" /\ Len(lens) = Len(LensCards)
    /\ saved' = IF IsSavable THEN "completed" ELSE "refused"
    /\ UNCHANGED <<pack, lens, tries, edited>>

\* replace_action_draft_body: in one statement, of a completed candidate only.
ReplaceDraft(channel) ==
    /\ saved = "completed"
    /\ edited' = edited \cup {channel}
    /\ UNCHANGED <<pack, lens, tries, saved>>

-----------------------------------------------------------------------------
(* Loading. *)

EdgeResolves(edge) ==
    IF edge.type = "benchmark_ref" THEN edge.id \in Version.benchmark ELSE EdgeIsSaved(edge)

\* validateFinalization, on what getByCandidateRunId loads.
IsReadable ==
    LET evidence == pack.facts \cup Assumptions IN
    /\ \A d \in Disagreements : ToSet(d) \subseteq Judgments /\ d[1].card # d[2].card
    /\ Cardinality({j.card : j \in Judgments}) = Len(lens)
    /\ \A j \in Judgments : j.support \cup j.counter \cup j.unused \subseteq evidence \cup Calculations
    /\ Blocking \subseteq evidence
    /\ \A e \in ClaimEdges : EdgeResolves(e)
    /\ \A c \in Calculations : \A input \in Inputs(c) : InputIsSaved(input)

\* getByCandidateRunId, which listFinalizedForWorkspace calls for every candidate
\* of the workspace: one that does not load fails the list.
LoadFails == saved = "completed" /\ ~IsReadable

ArtifactsNext == SkipCard \/ AnswerLens \/ Finalize \/ \E c \in Channels : ReplaceDraft(c)

ArtifactsSpec == ArtifactsInit /\ [][ArtifactsNext]_artifactVars
-----------------------------------------------------------------------------
(* Properties. *)

\* Whatever the lenses answer: every judgment can be replayed from the cache, the
\* database saves what is composed of them, and what it saved passes the reader,
\* whose checks are not the database's (a candidate that fails there fails every
\* list of its workspace).
ArtifactsReadable ==
    /\ \A i \in DOMAIN lens : IsReplayable(LensCards[i], lens[i])
    /\ saved # "refused" /\ ~LoadFails
=============================================================================
