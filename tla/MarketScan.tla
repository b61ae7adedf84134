------------------------------ MODULE MarketScan ------------------------------
(***************************************************************************)
(* The market half of a scan: the providers answer or fail on their own,    *)
(* what they report is merged into events (dedupe.ts), the events are        *)
(* stored, and at most Slots of them are chosen for the analysis so that      *)
(* every deal keeps its best one (selection.ts).                            *)
(*                                                                         *)
(* An item is its URL, the provider's own id of it, its text - title,       *)
(* summary and excerpt, which the content checksum is taken of - and its     *)
(* confidence.  All items are published at one moment and retrieved by the    *)
(* scan.                                                                   *)
(***************************************************************************)
EXTENDS Naturals, FiniteSets, SequencesExt

CONSTANTS
    Providers,      \* in the order they are configured
    Items,          \* what a provider may report; texts are numbered in the order
                    \* of the event ids made from them
    Alike,          \* pairs of texts with titles similar enough to be one event
    Themed,         \* texts in which the classification finds a theme
    Portfolio,      \* the deals
    Overlap,        \* how many terms a text shares with a deal
    MaxItems,       \* bound: items of one provider
    Slots           \* MAX_MARKET_EVENTS_FOR_ANALYSIS

\* Terms are counted, and the portfolio is what the registry lists.
ASSUME MarketAssumption ==
    /\ Providers \in Seq(ToSet(Providers))
    /\ \A item \in Items : item.text \in Nat /\ item.confident \in BOOLEAN
    /\ \A item \in Items, d \in Portfolio : Overlap[item.text][d] \in Nat
    /\ IsFiniteSet(Portfolio)
    /\ Slots \in Nat

VARIABLES
    answers,        \* each provider's accepted items, or that it failed
    market,         \* the merged events and the scan's status
    stored,         \* the market events in the database
    chosen,         \* the events for the analysis
    step            \* where the run is

marketVars == <<answers, market, stored, chosen, step>>

Waiting == [state |-> "waiting", items |-> <<>>]
Failed == [state |-> "failed", items |-> <<>>]

\* normalizeMarketItem: the event's id is made from its text, the source's id is not:
\* it is the provider, the URL and the provider's own id of the item.
SourceId(p, item) == [provider |-> p, url |-> item.url, externalId |-> item.externalId]
Event(p, item) ==
    [url |-> item.url, text |-> item.text, confident |-> item.confident,
     sources |-> {[id |-> SourceId(p, item), text |-> item.text]}]

IdsOf(e) == {s.id : s \in e.sources}

EventsMatch(e, f) ==
    \/ e.url = f.url
    \/ e.text = f.text
    \/ {e.text, f.text} \in Alike

Preferred(left, right) ==
    IF left.confident # right.confident THEN IF right.confident THEN right ELSE left
    ELSE IF Cardinality(right.sources) > Cardinality(left.sources) THEN right ELSE left

\* Mutant: the sources of the event that is not preferred are dropped.
MergePreferred(left, right) == Preferred(left, right)
\* Of the sources with one id the first stays, with its text.
MergedSources(left, right) ==
    left.sources \cup {s \in right.sources : \A t \in left.sources : t.id # s.id}
MergeEvents(left, right) ==
    [Preferred(left, right) EXCEPT !.sources = MergedSources(left, right)]

\* Each event joins the first one it matches.
Dedupe(events) ==
    LET Add(merged, e) ==
            LET at == SelectInSeq(merged, LAMBDA m : EventsMatch(m, e))
            IN IF at = 0 THEN Append(merged, e)
               ELSE [merged EXCEPT ![at] = MergeEvents(@, e)]
    IN FoldLeft(Add, <<>>, events)

Succeeded == {i \in 1..Len(Providers) : answers[i].state = "succeeded"}

\* Everything the providers that succeeded reported, in the order of the providers.
AllAccepted ==
    LET eventsOf(i) == [n \in 1..Len(answers[i].items) |-> Event(Providers[i], answers[i].items[n])]
    IN FlattenSeq([i \in 1..Len(Providers) |-> eventsOf(i)])

MarketInit ==
    /\ answers = [i \in 1..Len(Providers) |-> Waiting]
    /\ market = [events |-> <<>>, status |-> "running"]
    /\ stored = {}
    /\ chosen = {}
    /\ step = "market_scan"

\* The providers are asked together and answer in any order.
Answer(i, items) ==
    /\ answers[i] = Waiting
    /\ answers' = [answers EXCEPT ![i] = [state |-> "succeeded", items |-> items]]
    /\ UNCHANGED <<market, stored, chosen, step>>
ProviderFails(i) ==
    /\ answers[i] = Waiting
    /\ answers' = [answers EXCEPT ![i] = Failed]
    /\ UNCHANGED <<market, stored, chosen, step>>

Merge ==
    /\ step = "market_scan"
    /\ \A i \in 1..Len(Providers) : answers[i] # Waiting
    /\ market' = [events |-> Dedupe(AllAccepted),
                  status |-> IF Cardinality(Succeeded) = Len(Providers) THEN "completed"
                             ELSE IF Succeeded # {} THEN "partial" ELSE "failed"]
    /\ step' = "save"
    /\ UNCHANGED <<answers, stored, chosen>>

\* One upsert of all the events: the database refuses one that names a row twice.
SaveMarketEvents ==
    /\ step = "save"
    /\ IF Cardinality({e.text : e \in ToSet(market.events)}) = Len(market.events)
       THEN stored' = ToSet(market.events) /\ step' = "select"
       ELSE step' = "failed" /\ UNCHANGED stored
    /\ UNCHANGED <<answers, market, chosen>>

\* classifyMarketEventForAnalysis reads the event's text and its sources'.
Eligible == {e \in ToSet(market.events) : e.text \in Themed \/ \E s \in e.sources : s.text \in Themed}

Relevance(e) == CHOOSE n \in {Overlap[e.text][d] : d \in Portfolio} : \A d \in Portfolio : n >= Overlap[e.text][d]

\* The main ranking: relevance, confidence, number of sources, id.
Better(e, f) ==
    LET re == Relevance(e)
        rf == Relevance(f)
        ne == Cardinality(e.sources)
        nf == Cardinality(f.sources)
    IN \/ re > rf
       \/ re = rf /\ e.confident /\ ~f.confident
       \/ re = rf /\ e.confident = f.confident /\ ne > nf
       \/ re = rf /\ e.confident = f.confident /\ ne = nf /\ e.text < f.text

\* The best-ranked of the events that share most terms with a deal.
BestForDeal(e, d) ==
    /\ Overlap[e.text][d] > 0
    /\ \A f \in Eligible \ {e} :
          \/ Overlap[e.text][d] > Overlap[f.text][d]
          \/ Overlap[e.text][d] = Overlap[f.text][d] /\ Better(e, f)
\* Mutant: no slots are reserved.
NoneReserved == {}
Reserved == {e \in Eligible : \E d \in Portfolio : BestForDeal(e, d)}

\* The reserved events first, the others after them, cut at the limit.
Before(e, f) ==
    \/ e \in Reserved /\ f \notin Reserved
    \/ (e \in Reserved <=> f \in Reserved) /\ Better(e, f)
SelectEvents ==
    /\ step = "select"
    /\ chosen' = {f \in Eligible : Cardinality({e \in Eligible : Before(e, f)}) < Slots}
    /\ step' = "analysis"
    /\ UNCHANGED <<answers, market, stored>>

MarketNext ==
    \/ \E i \in 1..Len(Providers) :
          \/ \E n \in 0..MaxItems : \E items \in [1..n -> Items] : Answer(i, items)
          \/ ProviderFails(i)
    \/ Merge \/ SaveMarketEvents \/ SelectEvents

MarketSpec == MarketInit /\ [][MarketNext]_marketVars

-----------------------------------------------------------------------------
(* Properties *)

\* Merging loses no source and counts none twice: the first item reported for a source
\* keeps its excerpt in an event, the sources of an event have different ids, and an
\* event is worded as an item that was reported for one of its own sources.  (A later
\* item of the same source only adds its wording, when it is the more confident one:
\* its excerpt is dropped.)
NoSourceLost ==
    step # "market_scan" =>
        LET first(n) == \A m \in 1..(n - 1) : IdsOf(AllAccepted[m]) # IdsOf(AllAccepted[n])
        IN /\ \A n \in 1..Len(AllAccepted) :
                 first(n) => \E e \in ToSet(market.events) : AllAccepted[n].sources \subseteq e.sources
           /\ \A e \in ToSet(market.events) :
                 /\ \A s, t \in e.sources : s.id = t.id => s = t
                 /\ \E n \in 1..Len(AllAccepted) :
                       /\ AllAccepted[n].url = e.url /\ AllAccepted[n].text = e.text
                       /\ IdsOf(AllAccepted[n]) \subseteq IdsOf(e)

\* The comment on the reserved slots: however much confident noise the scan met, the
\* analysis gets, for each deal an eligible event is about, one that shares as much
\* with the deal as any.
DealsKeepTheirEvent ==
    step = "analysis" =>
        \A d \in Portfolio : \A e \in Eligible :
            Overlap[e.text][d] > 0 => \E f \in chosen : Overlap[f.text][d] >= Overlap[e.text][d]
=============================================================================
