------------------------------ MODULE MCServices ------------------------------
(* Thirteen modules that share no state: the registry, the reset, the XTrace    *)
(* memory, the limiters, a candidate's analysis, the market scan, the matching, *)
(* the framework catalog, the artifacts, an upload's evidence, the Evidence     *)
(* Packs, the fund policies and the in-memory promotion of uploads.  A          *)
(* behaviour of this instance is one of one of them.                            *)
EXTENDS SourceRegistry, TestReset, XTraceMemory, RateLimits, CandidateDecision, MarketScan,
        MCMatching, FrameworkCatalog, CandidateArtifacts, MCUploadEvidence, EvidencePacks, FundPolicies,
        MemoryPromotion, TLC

CONSTANTS d1, d2

VARIABLE part

MCDeals == {d1, d2}
\* Deals are interchangeable.
Symmetric == Permutations(MCDeals)

\* Text 2 is a rewording of text 1, text 5 is about nothing; two URLs carry two texts
\* each, under one id of the provider or another, and two events are about deal "p" alone.
Item(url, text, confident) ==
    [url |-> url, externalId |-> IF url = "w" /\ text = 4 THEN "revised" ELSE "own",
     text |-> text, confident |-> confident]
MCProviders == <<"news", "filings">>
MCItems ==
    {Item(url, text, text = 2) : url \in {"u", "v"}, text \in {1, 2}}
    \cup {Item(url, text, text = 3) : url \in {"w", "x"}, text \in {3, 4}}
    \cup {Item("u", 5, TRUE), Item("w", 1, TRUE), Item("y", 5, FALSE)}
MCAlike == {{1, 2}}
MCOverlap == <<[p |-> 2, q |-> 0], [p |-> 1, q |-> 0], [p |-> 2, q |-> 0], [p |-> 0, q |-> 1], [p |-> 0, q |-> 0]>>

\* Two formal cards and two advisory ones; the benchmark is optional, so are the
\* inputs of the venture method and the asked price.
Card(id, kind) == [id |-> id, kind |-> kind]
MCLensCards == <<Card("market", "formal"), Card("price", "valuation"),
                 Card("named1", "advisory"), Card("named2", "advisory")>>
MCTopics == {<<"market", "price">>}
MCPacks ==
    [facts : {{"ask", "arr"}}, conflicts : {{}}, benchmark : BOOLEAN]
    \cup [facts : {{"ask", "arr", "arr2"}}, conflicts : {{{"arr", "arr2"}}}, benchmark : BOOLEAN]
    \cup [facts : {{"ask"}, {"story"}}, conflicts : {{}}, benchmark : {FALSE}]

\* The second revision of a source, a source of another company, and links to each, to
\* two at once, to the wrong source, to an evidence row and to a fixture.
MCSourceOf == [r1 |-> "s", r2 |-> "s", r3 |-> "other", r4 |-> "memo"]
MCRowRevision == [e1 |-> "r1"]
Pointer(named, ids) == [revisions |-> named, sources |-> ids]
MCLinks == {Pointer({"r1"}, {"s"}), Pointer({"r1", "r4"}, {"s", "memo"}), Pointer({"r4"}, {"other"}),
            Pointer({}, {"e1"}), Pointer({}, {"e9"}), Pointer({}, {})}
NotLinked == Pointer({}, {"none"})

\* A deal of the corpus is of the company that an upload founds; its source has two
\* revisions, and an upload that is confirmed may get a second one.
MCLaterRevisions == [x1 |-> "x", x2 |-> "x", w |-> "u1"]
MCCompanyOf == [u1 |-> "c1", u2 |-> "c2", g |-> "c1"]

MCInit ==
    /\ part \in {"registry", "reset", "memory", "limits", "decision", "market", "matching",
                "catalog", "artifacts", "evidence", "packs", "policies", "promotion"}
    /\ RegistryInit /\ ResetInit /\ MemoryInit /\ LimitsInit /\ MarketInit /\ PoliciesInit
    /\ PromotionInit
    /\ MatchingInit /\ CatalogInit
    /\ ArtifactsInit
    /\ part # "artifacts" => pack = [facts |-> {"story"}, conflicts |-> {}, benchmark |-> FALSE]
    /\ PacksInit
    /\ part # "packs" => ~grounding.needed
    /\ IF part = "evidence" THEN TRUE ELSE stage = "none"
    /\ EvidenceInit
    /\ part # "evidence" => file.kind = "text"
    /\ IF part = "decision" THEN TRUE
       ELSE policy = Balanced /\ judgments = [card \in Cards |-> "supportive"]
    /\ DecisionInit
    /\ IF part = "decision" THEN judgments["market"] = "supportive" \/ policy = Balanced
       ELSE result.label = "Watch"

storeVars == <<registryVars, resetVars, memoryVars, limitVars, uploadEvidenceVars, policyVars, promotionVars>>
analysisVars == <<decisionVars, marketVars, matchingVars, catalogVars, artifactVars, packVars>>

MCNext ==
    /\ UNCHANGED part
    /\ \/ /\ UNCHANGED analysisVars
          /\ \/ part = "registry" /\ RegistryNext /\ UNCHANGED <<resetVars, memoryVars, limitVars, uploadEvidenceVars, policyVars, promotionVars>>
             \/ part = "reset" /\ ResetNext /\ UNCHANGED <<registryVars, memoryVars, limitVars, uploadEvidenceVars, policyVars, promotionVars>>
             \/ part = "memory" /\ MemoryNext /\ UNCHANGED <<registryVars, resetVars, limitVars, uploadEvidenceVars, policyVars, promotionVars>>
             \/ part = "limits" /\ LimitsNext /\ UNCHANGED <<registryVars, resetVars, memoryVars, uploadEvidenceVars, policyVars, promotionVars>>
             \/ part = "evidence" /\ EvidenceNext /\ UNCHANGED <<registryVars, resetVars, memoryVars, limitVars, policyVars, promotionVars>>
             \/ part = "policies" /\ PoliciesNext /\ UNCHANGED <<registryVars, resetVars, memoryVars, limitVars, uploadEvidenceVars, promotionVars>>
             \/ part = "promotion" /\ PromotionNext /\ UNCHANGED <<registryVars, resetVars, memoryVars, limitVars, uploadEvidenceVars, policyVars>>
       \/ /\ UNCHANGED storeVars
          /\ \/ part = "decision" /\ DecisionNext /\ UNCHANGED <<marketVars, matchingVars, catalogVars, artifactVars, packVars>>
             \/ part = "market" /\ MarketNext /\ UNCHANGED <<decisionVars, matchingVars, catalogVars, artifactVars, packVars>>
             \/ part = "matching" /\ MatchingNext /\ UNCHANGED <<decisionVars, marketVars, catalogVars, artifactVars, packVars>>
             \/ part = "catalog" /\ CatalogNext /\ UNCHANGED <<decisionVars, marketVars, matchingVars, artifactVars, packVars>>
             \/ part = "artifacts" /\ ArtifactsNext /\ UNCHANGED <<decisionVars, marketVars, matchingVars, catalogVars, packVars>>
             \/ part = "packs" /\ PacksNext /\ UNCHANGED <<decisionVars, marketVars, matchingVars, catalogVars, artifactVars>>

MCSpec == MCInit /\ [][MCNext]_<<part, storeVars, analysisVars>>
=============================================================================
