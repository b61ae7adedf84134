-------------------------- MODULE CandidateDecision --------------------------
(***************************************************************************)
(* The deterministic half of a candidate's analysis, from the source       *)
(* evidence to the label: routing to a context (router.ts), the Evidence    *)
(* Pack's conflicts and assumptions (evidence/), the valuation (valuation/), *)
(* coverage and the decision rules (decision/), in the order               *)
(* createSourceGroundedCandidateExecutor calls them.  An action is one      *)
(* change of an input - evidence, a judgment, the fund's policy, a          *)
(* reference - and the analysis that follows it.                           *)
(*                                                                         *)
(* Money is counted in half millions, ownership in thousandths; facts of a  *)
(* field are comparable (one unit, currency and period); the customers a     *)
(* customer_evidence fact tells of are positive.                            *)
(***************************************************************************)
EXTENDS Integers, FiniteSets

CONSTANTS
    Critical,       \* the profile's critical fields
    Minimum,        \* its minimum model inputs
    MaxEdits        \* bound: changes of an input

VARIABLES
    facts,          \* the active revisions' evidence on each field, normalised
    judgments,      \* the conclusion on each mandatory framework card
    specialist,     \* a specialist-critical card is negative with high confidence
    policy,         \* the pinned fund policy
    published,      \* the critical evidence profile is published
    benchmark,      \* a benchmark is published for the context's stage and date
    result,         \* the last analysis
    lost,           \* the last change took something away from the candidate's case
    edits           \* how many changes of an input there were

decisionVars == <<facts, judgments, specialist, policy, published, benchmark, result, lost, edits>>

Cards == {"market", "founder", "pmf"}
Conclusions == {"supportive", "mixed", "negative", "abstain"}
\* How good a label is for the candidate; without a label, nothing.
Rank == [label \in {"unavailable", "error", "Pass", "Watch", "Advance", "Invest Candidate"} |->
            CASE label = "Pass" -> 1 [] label = "Watch" -> 2 [] label = "Advance" -> 3
              [] label = "Invest Candidate" -> 4 [] OTHER -> 0]

\* The values the instance gives the fields the analysis reads.
Values == [stage |-> {"seed", "series_a"}, business_model |-> {"b2b_saas", "enterprise_ai"},
           geography |-> {"us", "global"}, security_type |-> {"preferred", "note"},
           customer_evidence |-> {"two", "three"}, arr |-> {40, 20, 2},
           reported_valuation |-> {120, 130, 160, 50}, exit_multiple |-> {40},
           reported_valuation_basis |-> {"pre_money", "post_money"}]
Fields == DOMAIN Values

\* Every published profile asks for the revenue and the price.
ASSUME DecisionAssumption ==
    /\ {"arr", "reported_valuation"} \subseteq Critical
    /\ Critical \cup Minimum \subseteq Fields
    /\ MaxEdits \in Nat

Fact(id, value, accepted) ==
    [id |-> id, value |-> value, accepted |-> accepted, current |-> TRUE]

\* The balanced policy; selected 0 stands for no selectedInitialCheck, hardMinimum 0
\* for no hardMinimumOwnership.
Balanced == [custom |-> FALSE, veto |-> FALSE, stages |-> {"seed", "series_a"},
             selected |-> 0, hardMinimum |-> 0]
CheckMin == 3
CheckMax == 16
Committed == 400
TargetMoic == [seed |-> 5, series_a |-> 3]
BenchmarkValue == 100

-----------------------------------------------------------------------------
(* Routing *)

Accepted(field) == {f \in facts[field] : f.accepted}
Sound(field) == {f \in Accepted(field) : f.current}
ValuesOf(fs) == {f.value : f \in fs}

\* selectPrimary: the one value the sound evidence states.
Selected(field) == IF Cardinality(ValuesOf(Sound(field))) = 1
                   THEN CHOOSE v \in ValuesOf(Sound(field)) : TRUE ELSE "unconfirmed"

Supported ==
    /\ Selected("stage") \in {"seed", "series_a"}
    /\ Selected("business_model") \in {"b2b_saas", "enterprise_ai"}
    /\ Selected("geography") \in {"us", "global"}
    /\ Selected("security_type") = "preferred"

\* Only a US context has a benchmark pack, exact or broadly compatible.
HasBenchmarkPack == Selected("geography") = "us"
Grounded == published /\ (HasBenchmarkPack => benchmark)

-----------------------------------------------------------------------------
(* The Evidence Pack *)

\* The relative tolerance of a field's materiality rule, in percent.
Tolerance(field) == CASE field = "arr" -> 5 [] field = "reported_valuation" -> 1 [] OTHER -> 0
Numeric == {"arr", "reported_valuation", "exit_multiple"}
Material(field, v, w) ==
    IF field \in Numeric THEN 100 * (v - w) > Tolerance(field) * v ELSE v # w
OpenConflict(field) == \E f, g \in facts[field] : Material(field, f.value, g.value)

\* arr_path is assumed from the only accepted ARR fact, when nothing contradicts it.
ArrPath == IF Cardinality(Accepted("arr")) = 1 /\ ~OpenConflict("arr") THEN Accepted("arr") ELSE {}

\* Mutant: what is accepted counts, however old or disputed.
AcceptedForAny(field) == Accepted(field) # {}
AcceptedFor(field) == Sound(field) # {}
MinimumComplete == \A field \in Minimum : AcceptedFor(field)
CriticalComplete ==
    /\ \A field \in Critical : AcceptedFor(field) /\ ~OpenConflict(field)
    /\ published

-----------------------------------------------------------------------------
(* Valuation *)

\* The value of the field's first accepted fact, in the order of the pack.
AcceptedFact(field) == (CHOOSE f \in Accepted(field) : \A g \in Accepted(field) : f.id <= g.id).value

Target == TargetMoic[Selected("stage")]
\* The exit value over the target, before the half that later rounds dilute.
MaxPostMoney == LET arr == (CHOOSE f \in ArrPath : TRUE).value
                IN (arr * AcceptedFact("exit_multiple")) \div (2 * Target)

Market == HasBenchmarkPack /\ ~policy.custom
Venture == ArrPath # {} /\ Accepted("exit_multiple") # {} /\ MaxPostMoney >= CheckMax
\* Mutant: a price without a basis is taken to be pre-money.
OwnershipByDefault ==
    /\ Accepted("reported_valuation") # {}
    /\ Accepted("reported_valuation_basis") = {} \/ AcceptedFact("reported_valuation_basis") = "pre_money"
Ownership == Accepted("reported_valuation") # {} /\ Accepted("reported_valuation_basis") # {}
             /\ AcceptedFact("reported_valuation_basis") = "pre_money"
Returns == Ownership /\ Venture
CurrentAsk == AcceptedFact("reported_valuation")
PostMoney == CurrentAsk + CheckMax

-----------------------------------------------------------------------------
(* The decision rules *)

PmfEvidence ==
    /\ Accepted("customer_evidence") # {}
    /\ Selected("stage") = "seed" \/ \E f \in Accepted("arr") : f.value > 0

Supportive == {card \in Cards : judgments[card] = "supportive"}
CompanyQuality ==
    IF \E card \in Cards : judgments[card] = "abstain" THEN "unavailable"
    ELSE IF specialist \/ \E card \in Cards : judgments[card] = "negative" THEN "fail"
    ELSE IF "pmf" \in Supportive /\ PmfEvidence /\ Cardinality(Supportive) >= 2 THEN "pass"
    ELSE "mixed"

PriceAttractiveness ==
    IF ~(Market \/ Venture \/ Ownership) THEN "unavailable"
    ELSE IF ~(Market /\ Returns) THEN "mixed"
    ELSE IF 2 * CurrentAsk > 3 * BenchmarkValue THEN "fail"
    ELSE IF /\ PostMoney <= MaxPostMoney
            /\ 4 * CurrentAsk <= 5 * BenchmarkValue
         THEN "pass" ELSE "mixed"

Check == IF policy.selected = 0 THEN CheckMax ELSE policy.selected
WithinRange == CheckMin <= Check /\ Check <= CheckMax
OwnershipAtLeast(thousandths) == 1000 * CheckMax >= thousandths * PostMoney
OwnershipVeto == Ownership /\ policy.hardMinimum # 0 /\ ~OwnershipAtLeast(policy.hardMinimum)
ConcentrationVeto == 10 * (Check + Check) > Committed
MandateMismatch == Selected("stage") \notin policy.stages
HardVeto == policy.veto \/ OwnershipVeto \/ ConcentrationVeto

FundFit ==
    IF MandateMismatch \/ HardVeto \/ ~WithinRange THEN "fail"
    ELSE IF ~Ownership THEN "unavailable"
    ELSE IF OwnershipAtLeast(75) /\ 1000 * CheckMax <= 150 * PostMoney THEN "pass"
    ELSE "mixed"

Matrix ==
    IF HardVeto \/ MandateMismatch \/ CompanyQuality = "fail" THEN "Pass"
    ELSE IF CompanyQuality = "pass" /\ PriceAttractiveness = "fail" THEN "Watch"
    ELSE IF CompanyQuality = "mixed" /\ Supportive = {} THEN "Watch"
    ELSE IF /\ CompanyQuality = "pass" /\ PriceAttractiveness = "pass" /\ FundFit = "pass"
            /\ CriticalComplete
         THEN "Invest Candidate" ELSE "Advance"

Ceiling == IF CriticalComplete THEN "Invest Candidate" ELSE "Advance"
Capped == IF Rank[Matrix] <= Rank[Ceiling] THEN Matrix ELSE Ceiling

\* The policy the engine is always given is that of one context.
PolicySelected == Selected("stage") = "seed" /\ Selected("business_model") = "b2b_saas"

Analysis ==
    LET label == IF ~Supported \/ ~Grounded \/ ~MinimumComplete THEN "unavailable"
                 ELSE IF ~PolicySelected THEN "error" ELSE Capped
        decided == Rank[label] # 0
    IN [label |-> label,
        company |-> IF decided THEN CompanyQuality ELSE "unavailable",
        price |-> IF decided THEN PriceAttractiveness ELSE "unavailable",
        ownershipVeto |-> decided /\ OwnershipVeto]

-----------------------------------------------------------------------------
(* Changes of an input *)

\* A seed B2B SaaS company; with the first price and judgments its analysis ends in
\* "Invest Candidate".
First == [stage |-> "seed", business_model |-> "b2b_saas", geography |-> "us",
          security_type |-> "preferred", customer_evidence |-> "two", arr |-> 40,
          reported_valuation |-> 120, exit_multiple |-> 40, reported_valuation_basis |-> "pre_money"]

DecisionInit ==
    /\ \E ask \in Values.reported_valuation :
          facts = [field \in Fields |-> {Fact(0, [First EXCEPT !.reported_valuation = ask][field], TRUE)}]
    /\ judgments \in {[card \in Cards |-> IF card = "market" THEN c ELSE "supportive"]
                         : c \in {"supportive", "mixed"}}
    /\ specialist = FALSE
    /\ policy \in {Balanced, [Balanced EXCEPT !.hardMinimum = 110]}
    /\ published = TRUE
    /\ benchmark = TRUE
    /\ result = Analysis
    /\ lost = FALSE
    /\ edits = 0

\* A source revision states a field anew, adds a statement, or is withdrawn.
Restate(field, value) ==
    /\ facts' = [facts EXCEPT ![field] = {Fact(0, value, TRUE)}]
    /\ UNCHANGED <<judgments, specialist, policy, published, benchmark>>
Tell(id, field, value, accepted) ==
    /\ facts' = [facts EXCEPT ![field] = @ \cup {Fact(id, value, accepted)}]
    /\ UNCHANGED <<judgments, specialist, policy, published, benchmark>>
Withdraw(field, f) ==
    /\ facts' = [facts EXCEPT ![field] = @ \ {f}]
    /\ UNCHANGED <<judgments, specialist, policy, published, benchmark>>
Outdate(field, f) ==
    /\ f.current
    /\ facts' = [facts EXCEPT ![field] = (@ \ {f}) \cup {[f EXCEPT !.current = FALSE]}]
    /\ UNCHANGED <<judgments, specialist, policy, published, benchmark>>

\* A framework lens concludes otherwise.
Judge(card, conclusion) ==
    /\ judgments[card] # conclusion
    /\ judgments' = [judgments EXCEPT ![card] = conclusion]
    /\ UNCHANGED <<facts, specialist, policy, published, benchmark>>
SpecialistObjects ==
    /\ ~specialist
    /\ specialist' = TRUE
    /\ UNCHANGED <<facts, judgments, policy, published, benchmark>>

\* Another policy version is activated, or a reference is retired.
Activate(newPolicy) ==
    /\ policy' = newPolicy
    /\ UNCHANGED <<facts, judgments, specialist, published, benchmark>>
Retire ==
    /\ \/ published' = FALSE /\ UNCHANGED benchmark
       \/ benchmark' = FALSE /\ UNCHANGED published
    /\ UNCHANGED <<facts, judgments, specialist, policy>>

Severity == [supportive |-> 0, mixed |-> 1, negative |-> 2, abstain |-> 3]

\* A change that takes something away from the candidate's case: a field's last
\* accepted or last sound fact, the agreement of the sources on it, a framework's
\* support or its whole judgment, the fund's mandate or consent.
Loss ==
    \/ \E field \in Fields : \E f \in facts[field] :
          \/ Accepted(field) = {f} /\ Withdraw(field, f)
          \/ Sound(field) = {f} /\ Outdate(field, f)
    \/ \E field \in Fields : \E value \in Values[field] \ ValuesOf(Accepted(field)) :
          Tell(edits + 1, field, value, FALSE)
    \/ \E card \in Cards, conclusion \in Conclusions :
          Severity[judgments[card]] < Severity[conclusion] /\ Judge(card, conclusion)
    \/ SpecialistObjects
    \/ Activate([policy EXCEPT !.veto = TRUE])
    \/ Activate([policy EXCEPT !.stages = {"series_a"}])
    \/ Retire

OtherChange ==
    \/ \E field \in Fields : \E value \in Values[field] : Restate(field, value)
    \/ \E field \in Fields : \E value \in Values[field], id \in {edits + 1, -edits - 1} :
          Tell(id, field, value, TRUE)
    \/ \E card \in Cards, conclusion \in Conclusions :
          Severity[conclusion] < Severity[judgments[card]] /\ Judge(card, conclusion)
    \/ Activate([policy EXCEPT !.custom = TRUE])
    \/ \E check \in {2, 24} : Activate([policy EXCEPT !.selected = check])

DecisionNext ==
    /\ edits < MaxEdits
    /\ edits' = edits + 1
    /\ \/ Loss /\ lost' = TRUE
       \/ OtherChange /\ lost' = FALSE
    /\ result' = Analysis'

FactsOf(field) ==
    [id : -MaxEdits..MaxEdits, value : Values[field], accepted : BOOLEAN, current : BOOLEAN]
Policies == [custom : BOOLEAN, veto : BOOLEAN, stages : SUBSET Values.stage,
             selected : {0, 2, 24}, hardMinimum : {0, 110}]

DecisionTypeOK ==
    /\ DOMAIN facts = Fields /\ \A field \in Fields : facts[field] \subseteq FactsOf(field)
    /\ judgments \in [Cards -> Conclusions] /\ policy \in Policies
    /\ {specialist, published, benchmark, lost} \subseteq BOOLEAN
    /\ result = Analysis /\ result.label \in DOMAIN Rank /\ edits \in 0..MaxEdits

DecisionSpec == DecisionInit /\ [][DecisionNext]_decisionVars

-----------------------------------------------------------------------------
(* Properties *)

\* An Invest Candidate is one the evidence, the frameworks and the fund's policy all
\* support: what every critical field says is accepted, current and undisputed, the
\* frameworks object to nothing and the customers are there, the ask is pre-money,
\* within a quarter over the benchmark and low enough for the fund's share of the exit to
\* return the target, and the fund may write the check.
InvestCandidateEarned ==
    result.label = "Invest Candidate" =>
        LET stated(field) == {f.value : f \in facts[field]}
            ask == CHOOSE v \in stated("reported_valuation") : TRUE
            arr == CHOOSE v \in stated("arr") : TRUE
            multiple == CHOOSE v \in {f.value : f \in Accepted("exit_multiple")} : TRUE
        IN /\ \A field \in Critical : \E f \in facts[field] : f.accepted /\ f.current
           /\ \A field \in Critical : Cardinality(stated(field)) = 1
           /\ \A card \in Cards : judgments[card] \in {"supportive", "mixed"}
           /\ judgments["pmf"] = "supportive" /\ \E card \in {"market", "founder"} : judgments[card] = "supportive"
           /\ ~specialist /\ ~policy.veto /\ "seed" \in policy.stages
           /\ \E f \in facts["reported_valuation_basis"] : f.accepted /\ f.value = "pre_money"
           /\ 4 * ask <= 5 * BenchmarkValue
           /\ arr * multiple >= 2 * TargetMoic["seed"] * (ask + CheckMax)
           /\ 75 * (ask + CheckMax) <= 1000 * CheckMax /\ 1000 * CheckMax <= 150 * (ask + CheckMax)
           /\ policy.selected = 0 \/ policy.selected \in CheckMin..CheckMax

\* Losing evidence, agreement, support or consent never makes an Invest Candidate.  It
\* raises a lower label only where the rules read what they no longer know as no
\* objection: the returns that made a high price fail, the price and basis that
\* showed the ownership to be too small, and a judgment whose abstention leaves the
\* objections of the others, or the lack of any support, unread.
LossNeverLifts ==
    [][lost' /\ Rank[result'.label] > Rank[result.label] =>
          /\ result'.label # "Invest Candidate"
          /\ \/ result.price = "fail" /\ result.label = "Watch"
             \/ result.ownershipVeto
             \/ result.company \in {"fail", "mixed"} /\ result'.company = "unavailable"]_decisionVars

\* The plan's promise: a candidate of each stage and business model in scope, its
\* minimum inputs and references at hand, gets a label.
SupportedContextsDecide ==
    Supported /\ Grounded /\ MinimumComplete => Rank[result.label] # 0
=============================================================================
