---------------------------- MODULE EvidenceProofs ----------------------------
(***************************************************************************)
(* Theorems about EvidencePacks, for any revisions, memories, links and    *)
(* bounds, about UploadEvidence, for any files and answers, and about      *)
(* MemoryPromotion, for any uploads, deals, companies and throwing steps.  *)
(***************************************************************************)
EXTENDS EvidencePacks, UploadEvidence, MemoryPromotion, NaturalsInduction, WellFoundedInduction, TLAPS

-----------------------------------------------------------------------------
(* Evidence Packs. *)

\* The record of the candidate has these fields.
IsProgress(g) ==
    g = [step |-> g.step, needed |-> g.needed, revisions |-> g.revisions, recalled |-> g.recalled,
         unresolved |-> g.unresolved, lineage |-> g.lineage, builds |-> g.builds, pack |-> g.pack]

Grounded(inputs) ==
    /\ inputs.lineage \subseteq inputs.revisions
    /\ ~NamesAnotherCompany(inputs.revisions)
    /\ inputs.memories # {} => inputs.lineage # {}

\* Saved or still to be saved, every pack is grounded.
PacksSound ==
    /\ \A p \in builds \cup late : Grounded(p.inputs)
    /\ grounding.step \in {"find", "save", "check", "packed"} => Grounded(grounding.pack.inputs)

\* Past the reading of the deal, none of its revisions names another company.
RevisionsOwn ==
    grounding.step \notin {"idle", "unavailable"} => ~NamesAnotherCompany(grounding.revisions)

PackedStored == grounding.step = "packed" => Saved(grounding.pack.inputs) = {grounding.pack}

PacksInv == IsProgress(grounding) /\ PacksSound /\ RevisionsOwn /\ PackedStored

-----------------------------------------------------------------------------
(* What a step does. *)

LEMMA PinKeeps ==
    ASSUME PacksInv, NEW active, NEW recalled, PinCandidate(active, recalled)
    PROVE  PacksInv'
<1>1. /\ grounding'.step \in {"unavailable", "load"} /\ IsProgress(grounding)'
      /\ grounding'.step = "load" => ~NamesAnotherCompany(active)
      /\ grounding'.revisions = active
  BY DEF PinCandidate, PacksInv, IsProgress
<1>2. builds' = builds /\ late' = late
  BY DEF PinCandidate, Rest
<1>3. QED BY <1>1, <1>2 DEF PacksInv, PacksSound, RevisionsOwn, PackedStored

\* A step to one where no pack is at hand, of the same candidate.
LEMMA TurnKeeps ==
    ASSUME PacksInv, NEW s \in {"build", "load", "unavailable", "failed"}, Turns(s),
           s = "unavailable" \/ grounding.step \notin {"idle", "unavailable"},
           builds' = builds, \A p \in late' : Grounded(p.inputs)
    PROVE  PacksInv'
<1>1. /\ grounding'.step = s /\ IsProgress(grounding)'
      /\ grounding'.revisions = grounding.revisions
  BY DEF Turns, PacksInv, IsProgress
<1>2. QED BY <1>1 DEF PacksInv, PacksSound, RevisionsOwn, PackedStored

\* A step with the pack of the step before.
LEMMA CarryKeeps ==
    ASSUME PacksInv, NEW s \in {"save", "check"}, Turns(s),
           grounding.step \in {"find", "save"}, late' = late,
           \A p \in builds' : p \in builds \/ p = grounding.pack
    PROVE  PacksInv'
<1>1. /\ grounding'.step = s /\ IsProgress(grounding)'
      /\ grounding'.revisions = grounding.revisions /\ grounding'.pack = grounding.pack
  BY DEF Turns, PacksInv, IsProgress
<1>2. Grounded(grounding.pack.inputs)
  BY DEF PacksInv, PacksSound
<1>3. QED BY <1>1, <1>2 DEF PacksInv, PacksSound, RevisionsOwn, PackedStored

LEMMA ResolveKeeps ==
    ASSUME PacksInv, NEW m, ResolveMemory(m) PROVE PacksInv'
<1>1. CASE memoryLinks[m] # NoLink /\ IsExact(memoryLinks[m])
  <2>1. /\ grounding'.step = "load" /\ IsProgress(grounding)' /\ grounding.step = "load"
        /\ grounding'.revisions = grounding.revisions
    BY <1>1 DEF ResolveMemory, PacksInv, IsProgress
  <2>2. builds' = builds /\ late' = late
    BY DEF ResolveMemory, Rest
  <2>3. QED BY <2>1, <2>2 DEF PacksInv, PacksSound, RevisionsOwn, PackedStored
<1>2. CASE ~(memoryLinks[m] # NoLink /\ IsExact(memoryLinks[m]))
  <2>1. Turns("unavailable") /\ builds' = builds /\ late' = late
    BY <1>2 DEF ResolveMemory, Rest
  <2>2. \A p \in late' : Grounded(p.inputs)
    BY <2>1 DEF PacksInv, PacksSound
  <2>3. QED BY <2>1, <2>2, TurnKeeps
<1>3. QED BY <1>1, <1>2

LEMMA LateGrounded == ASSUME PacksInv PROVE \A p \in late : Grounded(p.inputs)
BY DEF PacksInv, PacksSound

LEMMA FinishLoadKeeps == ASSUME PacksInv, FinishLoad PROVE PacksInv'
<1>1. PICK s \in {"unavailable", "build"} : Turns(s)
  BY DEF FinishLoad
<1>2. grounding.step = "load" /\ builds' = builds /\ late' = late
  BY DEF FinishLoad, Rest
<1>3. QED BY <1>1, <1>2, LateGrounded, TurnKeeps

LEMMA StartKeeps == ASSUME PacksInv, StartBuild PROVE PacksInv'
<1> DEFINE version == IF grounding.needed THEN offered ELSE 0
           inputs == InputsOf(version)
<1>1. grounding.step = "build" /\ builds' = builds /\ late' = late
  BY DEF StartBuild, Rest
<1>2. CASE Turns("unavailable") \/ Turns("failed")
  <2>1. PICK s \in {"unavailable", "failed"} : Turns(s)
    BY <1>2
  <2>2. QED BY <1>1, <2>1, LateGrounded, TurnKeeps
<1>3. CASE /\ IsValidLineage(inputs)
           /\ grounding' = [grounding EXCEPT
                  !.step = "find", !.builds = @ + 1,
                  !.pack = [inputs |-> inputs, at |-> grounding.builds + 1]]
  <2>1. /\ grounding'.step = "find" /\ IsProgress(grounding)'
        /\ grounding'.revisions = grounding.revisions /\ grounding'.pack.inputs = inputs
    BY <1>3 DEF PacksInv, IsProgress
  <2>2. ~NamesAnotherCompany(grounding.revisions)
    BY <1>1 DEF PacksInv, RevisionsOwn
  <2>3. inputs.revisions = grounding.revisions
    BY DEF InputsOf
  <2>4. Grounded(inputs)
    BY <1>3, <2>2, <2>3 DEF IsValidLineage, Grounded
  <2>5. QED BY <1>1, <2>1, <2>2, <2>4 DEF PacksInv, PacksSound, RevisionsOwn, PackedStored
<1>4. QED BY <1>2, <1>3 DEF StartBuild

LEMMA FindKeeps == ASSUME PacksInv, FindBuild PROVE PacksInv'
<1>1. grounding.step = "find" /\ builds' = builds /\ late' = late
  BY DEF FindBuild, Rest
<1>2. CASE Turns("save")
  BY <1>1, <1>2, CarryKeeps
<1>3. ASSUME NEW p \in Saved(grounding.pack.inputs),
             grounding' = [grounding EXCEPT !.step = "check", !.pack = p]
      PROVE  PacksInv'
  <2>1. /\ grounding'.step = "check" /\ IsProgress(grounding)'
        /\ grounding'.revisions = grounding.revisions /\ grounding'.pack = p
    BY <1>3 DEF PacksInv, IsProgress
  <2>2. p \in builds
    BY <1>3 DEF Saved
  <2>3. QED BY <1>1, <2>1, <2>2 DEF PacksInv, PacksSound, RevisionsOwn, PackedStored
<1>4. QED BY <1>2, <1>3 DEF FindBuild

LEMMA SaveKeeps == ASSUME PacksInv, SaveBuild PROVE PacksInv'
<1>1. /\ grounding.step = "save" /\ late' = late
      /\ \A p \in builds' : p \in builds \/ p = grounding.pack
  BY DEF SaveBuild, With
<1>2. CASE Turns("check")
  BY <1>1, <1>2, CarryKeeps
<1>3. CASE Turns("failed")
  <2>1. /\ grounding'.step = "failed" /\ IsProgress(grounding)'
        /\ grounding'.revisions = grounding.revisions
    BY <1>3 DEF Turns, PacksInv, IsProgress
  <2>2. Grounded(grounding.pack.inputs)
    BY <1>1 DEF PacksInv, PacksSound
  <2>3. QED BY <1>1, <2>1, <2>2 DEF PacksInv, PacksSound, RevisionsOwn, PackedStored
<1>4. QED BY <1>2, <1>3 DEF SaveBuild

LEMMA CheckKeeps == ASSUME PacksInv, CheckBuild PROVE PacksInv'
<1>1. grounding.step = "check" /\ builds' = builds /\ late' = late
  BY DEF CheckBuild, Rest
<1>2. CASE Saved(grounding.pack.inputs) = {grounding.pack} /\ Turns("packed")
  <2>1. /\ grounding'.step = "packed" /\ IsProgress(grounding)'
        /\ grounding'.revisions = grounding.revisions /\ grounding'.pack = grounding.pack
    BY <1>2 DEF Turns, PacksInv, IsProgress
  <2>2. Saved(grounding.pack.inputs)' = {grounding.pack}
    BY <1>1, <1>2, <2>1 DEF Saved
  <2>3. QED BY <1>1, <2>1, <2>2 DEF PacksInv, PacksSound, RevisionsOwn, PackedStored
<1>3. CASE Turns("unavailable")
  BY <1>1, <1>3, LateGrounded, TurnKeeps
<1>4. QED BY <1>2, <1>3 DEF CheckBuild

LEMMA LoseKeeps == ASSUME PacksInv, LoseBuildRequest PROVE PacksInv'
<1>1. PICK s \in {"build", "failed"} : Turns(s)
  BY DEF LoseBuildRequest
<1>2. grounding.step \in {"find", "save", "check"} /\ builds' = builds
  BY DEF LoseBuildRequest
<1>3. \A p \in late' : p \in late \/ p = grounding.pack
  BY DEF LoseBuildRequest
<1>4. \A p \in late' : Grounded(p.inputs)
  BY <1>2, <1>3 DEF PacksInv, PacksSound
<1>5. QED BY <1>1, <1>2, <1>4, TurnKeeps

\* A save that lands late leaves the build of the same inputs alone.
LEMMA LandKeeps ==
    ASSUME PacksInv, NEW p \in late, LandLate(p)
    PROVE  PacksInv'
<1>1. grounding' = grounding /\ builds' = With(p) /\ late' \subseteq late
  BY DEF LandLate
<1>2. PacksSound'
  BY <1>1 DEF PacksInv, PacksSound, With
<1>3. ASSUME grounding.step = "packed"
      PROVE  Saved(grounding.pack.inputs)' = {grounding.pack}
  <2>1. Saved(grounding.pack.inputs) = {grounding.pack}
    BY <1>3 DEF PacksInv, PackedStored
  <2>2. Saved(p.inputs) = {} => p.inputs # grounding.pack.inputs
    BY <2>1 DEF Saved
  <2>3. QED BY <1>1, <2>1, <2>2 DEF Saved, With
<1>4. QED BY <1>1, <1>2, <1>3 DEF PacksInv, RevisionsOwn, PackedStored

\* The database and the references move on while the candidate does not.
LEMMA OthersKeep ==
    ASSUME PacksInv, UNCHANGED <<grounding, builds, late>>
    PROVE  PacksInv'
BY DEF PacksInv, IsProgress, PacksSound, RevisionsOwn, PackedStored, Saved

-----------------------------------------------------------------------------

LEMMA PacksInvInit == PacksInit => PacksInv
BY DEF PacksInit, PacksInv, IsProgress, PacksSound, RevisionsOwn, PackedStored

LEMMA PacksInvNext == PacksInv /\ [PacksNext]_packVars => PacksInv'
<1> SUFFICES ASSUME PacksInv, [PacksNext]_packVars PROVE PacksInv'
  OBVIOUS
<1>1. ASSUME NEW m, NEW link, LinkMemory(m, link) PROVE PacksInv'
  BY <1>1, OthersKeep DEF LinkMemory
<1>2. CASE PublishBenchmark
  BY <1>2, OthersKeep DEF PublishBenchmark
<1>3. ASSUME NEW active, NEW recalled, PinCandidate(active, recalled) PROVE PacksInv'
  BY <1>3, PinKeeps
<1>4. ASSUME NEW m, ResolveMemory(m) PROVE PacksInv'
  BY <1>4, ResolveKeeps
<1>5. ASSUME NEW p \in late, LandLate(p) PROVE PacksInv'
  BY <1>5, LandKeeps
<1>6. CASE UNCHANGED packVars
  BY <1>6, OthersKeep DEF packVars
<1>7. QED BY <1>1, <1>2, <1>3, <1>4, <1>5, <1>6, FinishLoadKeeps, StartKeeps, FindKeeps,
             SaveKeeps, CheckKeeps, LoseKeeps DEF PacksNext

\* Whatever links, benchmarks, lost requests and late saves do, the pack a candidate was
\* given stays the one stored for its inputs, and every stored pack is grounded.
THEOREM PacksGroundedHolds == PacksSpec => []PacksGrounded
<1>1. PacksInv => PacksGrounded
  BY DEF PacksInv, PackedStored, PacksSound, Grounded, PacksGrounded
<1>2. QED BY PacksInvInit, PacksInvNext, <1>1, PTL DEF PacksSpec

-----------------------------------------------------------------------------
(* What an upload's evidence is traced by. *)

LEMMA LeastExists ==
    ASSUME NEW T \in SUBSET Nat, T # {}
    PROVE  \E k \in T : \A l \in T : k <= l
<1> DEFINE R == OpToRel(<, Nat)
<1>1. IsWellFoundedOn(R, Nat)
  BY NatLessThanWellFounded
<1>2. \A x, y \in Nat : <<x, y>> \in R <=> x < y
  BY DEF OpToRel
<1> HIDE DEF R
<1>3. PICK x \in T : \A y \in T : <<y, x>> \notin R
  BY <1>1, WFMin
<1>4. ASSUME NEW y \in T PROVE x <= y
  <2>1. x \in Nat /\ y \in Nat
    OBVIOUS
  <2>2. ~(y < x)
    BY <1>2, <1>3, <2>1
  <2>3. QED BY <2>1, <2>2
<1>5. QED BY <1>4

LEMMA ElementIsIn == ASSUME NEW S, NEW s \in Seq(S), NEW i \in DOMAIN s PROVE s[i] \in S
OBVIOUS

\* A quote that has a place stands there whole.
LEMMA LocationStands ==
    ASSUME NEW quote, Occurrences(quote) \in Seq([page : Nat \ {0}, whole : BOOLEAN]), Location(quote) # 0
    PROVE  \E i \in DOMAIN Occurrences(quote) :
              Occurrences(quote)[i] = [page |-> Location(quote), whole |-> TRUE]
<1> DEFINE at == Occurrences(quote)
           whole == {i \in DOMAIN at : at[i].whole}
           first == CHOOSE i \in whole : \A j \in whole : i <= j
<1>0. at \in Seq([page : Nat \ {0}, whole : BOOLEAN]) /\ DOMAIN at = 1..Len(at) /\ Len(at) \in Nat
  OBVIOUS
<1>1. whole \in SUBSET Nat /\ whole # {}
  <2>1. whole # {}
    BY DEF Location
  <2>2. whole \subseteq DOMAIN at
    OBVIOUS
  <2>3. QED BY <1>0, <2>1, <2>2
<1>2. \E i \in whole : \A j \in whole : i <= j
  BY <1>1, LeastExists
<1>3. first \in whole /\ Location(quote) = at[first].page
  BY <1>1, <1>2 DEF Location
<1> HIDE DEF first
<1>4. first \in DOMAIN at /\ at[first] \in [page : Nat \ {0}, whole : BOOLEAN] /\ at[first].whole
  <2>1. first \in DOMAIN at /\ at[first].whole
    BY <1>3
  <2>2. QED BY <1>0, <2>1, ElementIsIn
<1>5. at[first] = [page |-> Location(quote), whole |-> TRUE]
  BY <1>3, <1>4
<1>6. QED BY <1>4, <1>5

LEMMA LocatedIs ==
    ASSUME NEW fact
    PROVE  /\ Located(fact).structured = fact.structured
           /\ Located(fact).stated = fact.stated
           /\ Located(fact).quote = IF IsImage THEN NoQuote ELSE fact.quote
           /\ Located(fact).page = IF IsImage THEN 1 ELSE Location(fact.quote)
BY DEF Located

\* What the preview says of a fact it keeps.
LEMMA KeptIsSound ==
    ASSUME file \in Files, NEW answer \in Answers, NEW n \in DOMAIN answer, IsLocatable(answer[n])
    PROVE  LET p == Located(answer[n]) IN
           IF IsImage THEN p.quote = NoQuote
           ELSE /\ p.quote # NoQuote
                /\ \E i \in DOMAIN Occurrences(p.quote) :
                      Occurrences(p.quote)[i] = [page |-> p.page, whole |-> TRUE]
<1> DEFINE fact == answer[n]
<1>1. CASE IsImage
  BY <1>1, LocatedIs
<1>2. CASE ~IsImage
  <2>1. fact.quote # NoQuote /\ Location(fact.quote) # 0
    BY <1>2 DEF IsLocatable
  <2>2. Occurrences(fact.quote) \in Seq([page : Nat \ {0}, whole : BOOLEAN])
    BY <2>1, UploadEvidenceAssumption DEF Occurrences
  <2>3. \E i \in DOMAIN Occurrences(fact.quote) :
            Occurrences(fact.quote)[i] = [page |-> Location(fact.quote), whole |-> TRUE]
    BY <2>1, <2>2, LocationStands
  <2>4. QED BY <1>2, <2>1, <2>3, LocatedIs
<1>3. QED BY <1>1, <1>2

\* The database accepts exactly what the application found complete, although each
\* has a list of its own.
LEMMA DatabaseAgrees ==
    ASSUME NEW fact
    PROVE  IsAcceptedByDatabase(Submitted(fact), fact) <=> IsComplete(fact)
<1> DEFINE s == fact.structured
<1>1. CASE ~IsComplete(fact)
  BY <1>1 DEF IsAcceptedByDatabase, Submitted
<1>2. CASE IsComplete(fact)
  <2>1. Submitted(fact) = s /\ s # NoStructure /\ IsShaped(s)
    BY <1>2 DEF Submitted, IsComplete
  <2>2. s.value # "blank" /\ HasFormalUnit(s)
    BY <2>1 DEF IsShaped, HasFormalUnit
  <2>3. s.period \notin {"one_sided", "reversed"} /\ s.time # "improper"
    BY <2>1 DEF IsShaped
  <2>4. fact.quote # NoQuote \/ IsImage
    BY <1>2 DEF IsComplete
  <2>5. ~IsImage => MissingInExcerpt(s, fact.stated) = {}
    <3>1. SUFFICES ASSUME PartsOf(s) \subseteq fact.stated PROVE MissingInExcerpt(s, fact.stated) = {}
      BY <1>2 DEF IsComplete
    <3>2. {"field", "value"} \subseteq fact.stated
      BY <3>1 DEF PartsOf
    <3>3. s.category = "currency" => "currency" \in fact.stated
      BY <3>1 DEF PartsOf
    <3>4. s.category = "rate" /\ s.value # "percent" => "percent" \in fact.stated
      BY <3>1 DEF PartsOf
    <3>5. /\ s.period # "none" => "period" \in fact.stated
          /\ s.time # "none" => "time" \in fact.stated
      BY <3>1 DEF PartsOf, HasPeriod, HasTime
    <3>6. QED BY <3>2, <3>3, <3>4, <3>5 DEF MissingInExcerpt
  <2>6. QED BY <1>2, <2>1, <2>2, <2>3, <2>4, <2>5 DEF IsAcceptedByDatabase
<1>3. QED BY <1>1, <1>2

\* A preview's facts are located as their kind of document locates.
PreviewSound ==
    \A n \in DOMAIN preview :
        IF IsImage THEN preview[n].quote = NoQuote
        ELSE /\ preview[n].quote # NoQuote
             /\ \E i \in DOMAIN Occurrences(preview[n].quote) :
                   Occurrences(preview[n].quote)[i] = [page |-> preview[n].page, whole |-> TRUE]

IsRow(r) == r = [fact |-> r.fact, page |-> r.page, quarantined |-> r.quarantined, text |-> r.text]

\* A row that is not quarantined quotes, except for an image's before the migration.
RowsSound ==
    /\ \A r \in rows :
          /\ IsRow(r)
          /\ r.fact \in DOMAIN preview /\ r.page = preview[r.fact].page
          /\ ~IsImage => ~r.quarantined /\ r.text = "quotation"
          /\ IsImage /\ migrated => r.quarantined
    /\ ~IsImage /\ stage \in {"confirmed", "ready"} => {r.fact : r \in rows} = DOMAIN preview

ItemsSound ==
    \A i \in items :
        /\ i.fact \in DOMAIN preview /\ i.image = IsImage
        /\ i.accepted = IsComplete(preview[i.fact])

\* Before the migration no fact has a structured value.
LegacySound ==
    ~migrated =>
        /\ stage \in {"confirmed", "ready"} /\ items = {}
        /\ \A n \in DOMAIN preview : preview[n].structured = NoStructure

\* What was told or reported is no summary, unless the migration will forget it.
ToldSound ==
    \A e \in told \cup reported : e.shown = "summary" => IsImage /\ ~migrated

\* Nothing is written of a document before it is confirmed.
Unwritten ==
    /\ stage \in {"none", "queued"} => preview = <<>>
    /\ stage \in {"none", "queued", "awaiting_confirmation"} =>
           rows = {} /\ items = {} /\ told = {} /\ reported = {}

ReadySound ==
    stage = "ready" =>
        /\ EvidenceBundle # {}
        /\ ~IsImage => {e.fact : e \in told} = DOMAIN preview

EvidenceInv ==
    /\ file \in Files
    /\ PreviewSound /\ RowsSound /\ ItemsSound /\ LegacySound /\ ToldSound /\ Unwritten /\ ReadySound

-----------------------------------------------------------------------------
(* What a bundle holds. *)

LEMMA BundleIsClean ==
    ASSUME EvidenceInv, migrated
    PROVE  \A e \in EvidenceBundle : e.shown # "summary"
BY DEF EvidenceInv, RowsSound, EvidenceBundle, ShownFromImage

LEMMA BundleIsWhole ==
    ASSUME EvidenceInv, ~IsImage, stage \in {"confirmed", "ready"}
    PROVE  {e.fact : e \in EvidenceBundle} = DOMAIN preview
<1>1. ShownFromImage = {}
  BY DEF EvidenceInv, ItemsSound, ShownFromImage, IsShownFromImage
<1>2. EvidenceBundle = {[fact |-> r.fact, shown |-> r.text] : r \in rows}
  BY <1>1 DEF EvidenceBundle, EvidenceInv, RowsSound
<1>3. {e.fact : e \in EvidenceBundle} = {r.fact : r \in rows}
  <2>1. ASSUME NEW r \in rows PROVE \E e \in EvidenceBundle : e.fact = r.fact
    <3>1. [fact |-> r.fact, shown |-> r.text] \in EvidenceBundle
      BY <1>2
    <3>2. QED BY <3>1
  <2>2. ASSUME NEW e \in EvidenceBundle PROVE \E r \in rows : e.fact = r.fact
    BY <1>2
  <2>3. QED BY <2>1, <2>2
<1>4. QED BY <1>3 DEF EvidenceInv, RowsSound

\* The bundle is read of these variables alone.
LEMMA BundleStays ==
    ASSUME UNCHANGED <<file, rows, items>>
    PROVE  EvidenceBundle' = EvidenceBundle
BY DEF EvidenceBundle, ShownFromImage, IsShownFromImage

-----------------------------------------------------------------------------
(* The steps. *)

LEMMA LegacyRowsQuoteAll == {r.fact : r \in LegacyRows} = DOMAIN preview
<1>1. ASSUME NEW n \in DOMAIN preview PROVE \E r \in LegacyRows : r.fact = n
  <2> DEFINE r == [fact |-> n, page |-> preview[n].page, quarantined |-> FALSE,
                   text |-> IF IsImage THEN "summary" ELSE "quotation"]
  <2>1. r \in LegacyRows /\ r.fact = n
    BY DEF LegacyRows
  <2>2. QED BY <2>1
<1>2. \A r \in LegacyRows : r.fact \in DOMAIN preview
  BY DEF LegacyRows
<1>3. QED BY <1>1, <1>2

LEMMA EvidenceInvInit == EvidenceInit => EvidenceInv
<1> SUFFICES ASSUME EvidenceInit PROVE EvidenceInv
  OBVIOUS
<1>1. CASE stage = "none"
  BY <1>1 DEF EvidenceInit, EvidenceInv, PreviewSound, RowsSound, ItemsSound, LegacySound, ToldSound,
     Unwritten, ReadySound
<1>2. CASE stage # "none"
  <2>1. /\ file \in Files /\ stage \in {"confirmed", "ready"} /\ ~migrated /\ items = {}
        /\ rows = LegacyRows /\ told = (IF stage = "ready" THEN EvidenceBundle ELSE {})
        /\ reported \in {{}, EvidenceBundle}
    BY <1>2 DEF EvidenceInit
  <2>2. PICK answer \in LegacyAnswers : preview = [n \in DOMAIN answer |-> Located(answer[n])]
    BY <1>2 DEF EvidenceInit
  <2>3. /\ answer \in Answers /\ DOMAIN answer # {}
        /\ \A n \in DOMAIN answer : answer[n].structured = NoStructure /\ IsLocatable(answer[n])
    BY DEF LegacyAnswers
  <2>4. PreviewSound
    BY <2>1, <2>2, <2>3, KeptIsSound DEF PreviewSound
  <2>5. LegacySound
    BY <2>1, <2>2, <2>3, LocatedIs DEF LegacySound
  <2>6. RowsSound /\ ItemsSound
    <3>1. \A r \in rows : \E n \in DOMAIN preview :
              r = [fact |-> n, page |-> preview[n].page, quarantined |-> FALSE,
                   text |-> IF IsImage THEN "summary" ELSE "quotation"]
      BY <2>1 DEF LegacyRows
    <3>2. {r.fact : r \in rows} = DOMAIN preview
      BY <2>1, LegacyRowsQuoteAll
    <3>3. \A r \in rows : /\ r.fact \in DOMAIN preview /\ r.page = preview[r.fact].page
                          /\ ~r.quarantined /\ (~IsImage => r.text = "quotation")
      BY <3>1
    <3>4. \A r \in rows : IsRow(r)
      BY <3>1 DEF IsRow
    <3>6. RowsSound
      BY <2>1, <3>2, <3>3, <3>4 DEF RowsSound
    <3>5. QED BY <2>1, <3>6 DEF ItemsSound
  <2>7. ShownFromImage = {} /\ EvidenceBundle = {[fact |-> r.fact, shown |-> r.text] : r \in rows}
    BY <2>1 DEF EvidenceBundle, ShownFromImage, LegacyRows
  <2>8. ToldSound
    BY <2>1, <2>7 DEF ToldSound, LegacyRows
  <2>9. \E n : n \in DOMAIN preview
    BY <2>2, <2>3
  <2>10. {r.fact : r \in rows} = DOMAIN preview
    BY <2>1, LegacyRowsQuoteAll
  <2>11. EvidenceBundle # {} /\ (~IsImage => {e.fact : e \in EvidenceBundle} = DOMAIN preview)
    <3>1. PICK r : r \in rows
      BY <2>9, <2>10
    <3>2. [fact |-> r.fact, shown |-> r.text] \in EvidenceBundle
      BY <2>7, <3>1
    <3>3. ASSUME NEW e \in EvidenceBundle PROVE \E q \in rows : e.fact = q.fact
      BY <2>7
    <3>4. ASSUME NEW q \in rows PROVE \E e \in EvidenceBundle : e.fact = q.fact
      <4>1. [fact |-> q.fact, shown |-> q.text] \in EvidenceBundle
        BY <2>7
      <4>2. QED BY <4>1
    <3>5. {e.fact : e \in EvidenceBundle} = {q.fact : q \in rows}
      BY <3>3, <3>4
    <3>6. QED BY <2>10, <3>2, <3>5
  <2>12. QED
    BY <2>1, <2>4, <2>5, <2>6, <2>8, <2>11 DEF EvidenceInv, Unwritten, ReadySound
<1>3. QED BY <1>1, <1>2

LEMMA QuarantineKeeps ==
    ASSUME EvidenceInv
    PROVE  \A r \in QuarantinedRows : \E q \in rows : IsRow(r) /\ r.fact = q.fact /\ r.page = q.page /\ r.quarantined
<1> SUFFICES ASSUME NEW r \in QuarantinedRows
             PROVE  \E q \in rows : IsRow(r) /\ r.fact = q.fact /\ r.page = q.page /\ r.quarantined
  OBVIOUS
<1>1. PICK q \in rows : r = [q EXCEPT !.quarantined = TRUE]
  BY DEF QuarantinedRows
<1>2. IsRow(q)
  BY DEF EvidenceInv, RowsSound
<1>3. IsRow(r) /\ r.fact = q.fact /\ r.page = q.page /\ r.quarantined
  BY <1>1, <1>2 DEF IsRow
<1>4. QED BY <1>3

LEMMA MigrateKeeps == ASSUME EvidenceInv, Migrate PROVE EvidenceInv'
<1>0. /\ ~migrated /\ migrated' = TRUE /\ UNCHANGED <<file, preview>>
      /\ IsImage' = IsImage /\ stage \in {"confirmed", "ready"} /\ items = {}
  BY DEF Migrate, EvidenceInv, LegacySound, IsImage
<1>1. PreviewSound'
  BY <1>0 DEF EvidenceInv, PreviewSound, Occurrences, IsImage
<1>2. CASE IsImage
  <2>1. stage' = "failed" /\ rows' = QuarantinedRows /\ told' = {} /\ reported' = {} /\ items' = items
    BY <1>2 DEF Migrate
  <2>3. RowsSound'
    <3>1. \A r \in rows' : \E q \in rows : IsRow(r) /\ r.fact = q.fact /\ r.page = q.page /\ r.quarantined
      BY <2>1, QuarantineKeeps
    <3>2. \A r \in rows' : /\ r.fact \in DOMAIN preview' /\ r.page = preview'[r.fact].page
                           /\ IsRow(r) /\ r.quarantined
      BY <1>0, <3>1 DEF EvidenceInv, RowsSound
    <3>3. QED BY <1>0, <1>2, <2>1, <3>2 DEF RowsSound
  <2>4. QED
    BY <1>0, <1>1, <2>1, <2>3 DEF EvidenceInv, ItemsSound, LegacySound, ToldSound, Unwritten, ReadySound
<1>3. CASE ~IsImage
  <2>1. items' = BridgedItems /\ UNCHANGED <<stage, rows, told, reported>>
    BY <1>3 DEF Migrate
  <2>2. \A n \in DOMAIN preview : ~IsComplete(preview[n])
    BY <1>0 DEF EvidenceInv, LegacySound, IsComplete
  <2>3. ItemsSound'
    <3>1. \A i \in items' : \E r \in rows : i = [fact |-> r.fact, image |-> FALSE, accepted |-> FALSE]
      BY <2>1 DEF BridgedItems
    <3>2. \A n : IsComplete(preview[n])' <=> IsComplete(preview[n])
      BY <1>0 DEF IsComplete, IsImage
    <3>3. ASSUME NEW i \in items' PROVE i.fact \in DOMAIN preview' /\ i.image = IsImage' /\ i.accepted = IsComplete(preview[i.fact])'
      <4>1. PICK r \in rows : i = [fact |-> r.fact, image |-> FALSE, accepted |-> FALSE]
        BY <3>1
      <4>2. i.fact = r.fact /\ i.image = FALSE /\ i.accepted = FALSE /\ r.fact \in DOMAIN preview
        BY <4>1 DEF EvidenceInv, RowsSound
      <4>3. ~IsComplete(preview[i.fact])'
        BY <1>0, <2>2, <3>2, <4>2
      <4>4. i.accepted = IsComplete(preview[i.fact])'
        BY <4>2, <4>3 DEF IsComplete
      <4>5. i.image = IsImage'
        BY <1>0, <1>3, <4>2 DEF IsImage
      <4>6. i.fact \in DOMAIN preview'
        BY <1>0, <4>2
      <4>7. QED BY <4>4, <4>5, <4>6
    <3>4. QED BY <3>3 DEF ItemsSound
  <2>4. RowsSound' /\ ToldSound'
    BY <1>0, <1>3, <2>1 DEF EvidenceInv, RowsSound, ToldSound
  <2>5. ReadySound'
    <3>1. ShownFromImage = {} /\ ShownFromImage' = {}
      <4>1. \A i \in items \cup items' : i.image = FALSE
        BY <1>0, <2>1 DEF BridgedItems
      <4>2. QED BY <4>1 DEF ShownFromImage, IsShownFromImage
    <3>2. EvidenceBundle' = EvidenceBundle
      BY <2>1, <3>1 DEF EvidenceBundle
    <3>3. QED BY <1>0, <2>1, <3>2 DEF EvidenceInv, ReadySound
  <2>6. QED
    BY <1>0, <1>1, <2>1, <2>3, <2>4, <2>5 DEF EvidenceInv, LegacySound, Unwritten
<1>4. QED BY <1>2, <1>3

LEMMA ReceiveFileKeeps == ASSUME EvidenceInv, ReceiveFile PROVE EvidenceInv'
<1>1. /\ file' \in Files /\ stage' = "queued" /\ preview' = <<>> /\ rows' = {} /\ items' = {}
      /\ told' = {} /\ reported' = {} /\ migrated' /\ migrated' = migrated
  BY DEF EvidenceInv, Unwritten, LegacySound, ReceiveFile
<1>2. QED
  BY <1>1 DEF EvidenceInv, PreviewSound, RowsSound, ItemsSound, LegacySound, ToldSound, Unwritten, ReadySound

LEMMA ExtractPreviewKeeps == ASSUME EvidenceInv, ExtractPreview PROVE EvidenceInv'
<1>1. /\ UNCHANGED <<file, migrated>> /\ migrated /\ rows' = {} /\ items' = {} /\ told' = {} /\ reported' = {}
      /\ stage' \in {"awaiting_confirmation", "failed"}
  BY DEF EvidenceInv, Unwritten, LegacySound, ExtractPreview
<1>2. PreviewSound'
  <2>1. CASE preview' = preview
    BY <1>1, <2>1 DEF EvidenceInv, PreviewSound, Occurrences, IsImage
  <2>2. ASSUME NEW answer \in Answers, preview' = PreviewOf(answer) PROVE PreviewSound'
    <3>1. \A n \in DOMAIN preview' :
              n \in DOMAIN answer /\ IsLocatable(answer[n]) /\ preview'[n] = Located(answer[n])
      BY <2>2 DEF PreviewOf
    <3>2. ASSUME NEW n \in DOMAIN preview'
          PROVE  IF IsImage THEN preview'[n].quote = NoQuote
                 ELSE /\ preview'[n].quote # NoQuote
                      /\ \E i \in DOMAIN Occurrences(preview'[n].quote) :
                            Occurrences(preview'[n].quote)[i] = [page |-> preview'[n].page, whole |-> TRUE]
      BY <3>1, KeptIsSound DEF EvidenceInv
    <3>3. QED BY <1>1, <3>2 DEF PreviewSound, Occurrences, IsImage
  <2>3. QED BY <2>1, <2>2 DEF ExtractPreview
<1>3. QED
  BY <1>1, <1>2 DEF EvidenceInv, RowsSound, ItemsSound, LegacySound, ToldSound, Unwritten, ReadySound

LEMMA ConfirmEvidenceKeeps == ASSUME EvidenceInv, ConfirmEvidence PROVE EvidenceInv'
<1>1. /\ UNCHANGED <<file, preview, told, reported, migrated>> /\ stage' = "confirmed"
      /\ told = {} /\ reported = {} /\ migrated
  BY DEF EvidenceInv, Unwritten, LegacySound, ConfirmEvidence, IsConfirmable
<1>2. PreviewSound' /\ IsImage' = IsImage
  BY <1>1 DEF EvidenceInv, PreviewSound, Occurrences, IsImage
<1>3. RowsSound'
  <2>1. rows' = {[fact |-> n, page |-> preview[n].page, text |-> "quotation", quarantined |-> FALSE] :
                     n \in {m \in DOMAIN preview : preview[m].quote # NoQuote /\ ~IsImage}}
    BY DEF ConfirmEvidence
  <2>2. ASSUME NEW r \in rows'
        PROVE  /\ IsRow(r) /\ r.fact \in DOMAIN preview /\ r.page = preview[r.fact].page
               /\ ~r.quarantined /\ r.text = "quotation" /\ ~IsImage
    BY <2>1 DEF IsRow
  <2>3. ~IsImage => {r.fact : r \in rows'} = DOMAIN preview
    <3>1. SUFFICES ASSUME ~IsImage PROVE {r.fact : r \in rows'} = DOMAIN preview
      OBVIOUS
    <3>2. {m \in DOMAIN preview : preview[m].quote # NoQuote /\ ~IsImage} = DOMAIN preview
      BY <3>1 DEF EvidenceInv, PreviewSound
    <3>3. ASSUME NEW m \in DOMAIN preview PROVE \E r \in rows' : r.fact = m
      <4>1. [fact |-> m, page |-> preview[m].page, text |-> "quotation", quarantined |-> FALSE] \in rows'
        BY <2>1, <3>2
      <4>2. QED BY <4>1
    <3>4. \A r \in rows' : r.fact \in DOMAIN preview
      BY <2>2
    <3>5. QED BY <3>3, <3>4
  <2>4. QED BY <1>1, <1>2, <2>2, <2>3 DEF RowsSound
<1>4. ItemsSound'
  <2>1. \A n : IsComplete(preview[n])' <=> IsComplete(preview[n])
    BY <1>1 DEF IsComplete, IsImage
  <2>2. ASSUME NEW i \in items'
        PROVE  i.fact \in DOMAIN preview' /\ i.image = IsImage' /\ i.accepted = IsComplete(preview[i.fact])'
    <3>1. PICK n \in DOMAIN preview :
              i = [fact |-> n, image |-> IsImage,
                   accepted |-> IsAcceptedByDatabase(Submitted(preview[n]), preview[n])]
      BY DEF ConfirmEvidence
    <3>2. /\ i.fact = n /\ i.image = IsImage
          /\ i.accepted = IsAcceptedByDatabase(Submitted(preview[n]), preview[n])
      BY <3>1
    <3>3. i.accepted = IsComplete(preview[n])
      BY <3>2, DatabaseAgrees DEF IsAcceptedByDatabase, IsComplete
    <3>4. QED BY <1>1, <1>2, <2>1, <3>2, <3>3 DEF IsComplete
  <2>3. QED BY <2>2 DEF ItemsSound
<1>5. QED
  BY <1>1, <1>2, <1>3, <1>4 DEF EvidenceInv, LegacySound, ToldSound, Unwritten, ReadySound

\* Only what is told or reported changes.
LEMMA TellingKeeps ==
    ASSUME EvidenceInv, UNCHANGED <<file, preview, rows, items, migrated>>,
           stage \in {"confirmed", "ready"}, stage' \in {"confirmed", "ready"},
           ToldSound', ReadySound'
    PROVE  EvidenceInv'
<1>1. PreviewSound' /\ IsImage' = IsImage
  BY DEF EvidenceInv, PreviewSound, Occurrences, IsImage
<1>2. RowsSound'
  BY <1>1 DEF EvidenceInv, RowsSound
<1>3. ItemsSound'
  BY <1>1 DEF EvidenceInv, ItemsSound, IsComplete, IsImage
<1>4. QED BY <1>1, <1>2, <1>3 DEF EvidenceInv, LegacySound, Unwritten

LEMMA IngestEvidenceKeeps == ASSUME EvidenceInv, IngestEvidence PROVE EvidenceInv'
<1>1. /\ UNCHANGED <<file, preview, rows, items, migrated, reported>> /\ migrated
      /\ stage = "confirmed" /\ stage' = "ready" /\ EvidenceBundle # {}
      /\ told' \in {told, EvidenceBundle} /\ (~IsImage => told' = EvidenceBundle)
  BY DEF IngestEvidence, IsImageWithoutExactQuote
<1>2. EvidenceBundle' = EvidenceBundle /\ IsImage' = IsImage
  BY <1>1, BundleStays DEF IsImage
<1>3. ToldSound'
  BY <1>1, BundleIsClean DEF EvidenceInv, ToldSound
<1>4. ReadySound'
  BY <1>1, <1>2, BundleIsWhole DEF ReadySound
<1>5. QED BY <1>1, <1>3, <1>4, TellingKeeps

LEMMA ReportEvidenceKeeps == ASSUME EvidenceInv, ReportEvidence PROVE EvidenceInv'
<1>1. /\ UNCHANGED <<file, preview, rows, items, migrated, stage, told>> /\ migrated
      /\ stage \in {"confirmed", "ready"} /\ reported' = reported \cup EvidenceBundle
  BY DEF ReportEvidence
<1>2. EvidenceBundle' = EvidenceBundle /\ IsImage' = IsImage
  BY <1>1, BundleStays DEF IsImage
<1>3. ToldSound'
  BY <1>1, BundleIsClean DEF EvidenceInv, ToldSound
<1>4. ReadySound'
  BY <1>1, <1>2 DEF EvidenceInv, ReadySound
<1>5. QED BY <1>1, <1>3, <1>4, TellingKeeps

LEMMA EvidenceInvNext == EvidenceInv /\ [EvidenceNext]_uploadEvidenceVars => EvidenceInv'
<1> SUFFICES ASSUME EvidenceInv, [EvidenceNext]_uploadEvidenceVars PROVE EvidenceInv'
  OBVIOUS
<1>1. CASE UNCHANGED uploadEvidenceVars
  BY <1>1 DEF uploadEvidenceVars, EvidenceInv, PreviewSound, RowsSound, ItemsSound, LegacySound, ToldSound,
     Unwritten, ReadySound, EvidenceBundle, ShownFromImage, IsShownFromImage, Occurrences, IsImage, IsComplete
<1>2. QED
  BY <1>1, MigrateKeeps, ReceiveFileKeeps, ExtractPreviewKeeps, ConfirmEvidenceKeeps, IngestEvidenceKeeps,
     ReportEvidenceKeeps DEF EvidenceNext

\* Whatever a model answers of whatever file: a quotation stands whole where it is said
\* to stand, no summary is shown, told or cited once the migration ran, the database and
\* the application accept the same values, and a ready document can be read.
THEOREM EvidenceTraceableHolds == EvidenceSpec => []EvidenceTraceable
<1>1. EvidenceInv => EvidenceTraceable
  <2> SUFFICES ASSUME EvidenceInv, migrated
               PROVE  EvidenceTraceable
    BY DEF EvidenceTraceable
  <2>1. \A e \in EvidenceBundle \cup told \cup reported : e.shown # "summary"
    BY BundleIsClean DEF EvidenceInv, ToldSound
  <2>2. ASSUME NEW r \in rows, ~r.quarantined
        PROVE  \E i \in DOMAIN Occurrences(preview[r.fact].quote) :
                  Occurrences(preview[r.fact].quote)[i] = [page |-> r.page, whole |-> TRUE]
    BY <2>2 DEF EvidenceInv, RowsSound, PreviewSound
  <2>3. ASSUME NEW i \in items
        PROVE  /\ i.accepted = IsComplete(preview[i.fact])
               /\ i.accepted /\ ~i.image => PartsOf(preview[i.fact].structured) \subseteq preview[i.fact].stated
    <3>1. i.accepted = IsComplete(preview[i.fact]) /\ i.image = IsImage
      BY DEF EvidenceInv, ItemsSound
    <3>2. QED BY <3>1 DEF IsComplete
  <2>4. QED
    BY <2>1, <2>2, <2>3 DEF EvidenceTraceable, EvidenceInv, ReadySound
<1>2. QED BY EvidenceInvInit, EvidenceInvNext, <1>1, PTL DEF EvidenceSpec

-----------------------------------------------------------------------------
(* The in-memory promotion of uploads. *)

\* Past the locks; and not yet past the last step that may throw.
InProgress(p) == PC(p) \notin {"idle", "confirm", "source"}
MayFail(p) == PC(p) \in {"revised", "assigned", "evidenced", "threw"}

AllRequests == PendingUploads \cup AssignmentRequests
RowType == [request : AllRequests, deal : RegistryDeals, revision : AllRevisions, live : BOOLEAN]
ItemType == (1..ItemCount) \X RegistryDeals
DealStateType ==
    [exists : BOOLEAN, active : SUBSET AllRevisions, company : BOOLEAN, rows : SUBSET RowType,
     request : AllRequests \cup {Nothing}, memory : PendingUploads \cup {Nothing}, exact : BOOLEAN]
StateType == [source : BOOLEAN, deal : DealStateType, evidence : SUBSET ItemType,
              upload : RegistryDeals \cup {Nothing}]

PromotionTypeOK ==
    /\ known \subseteq AllRevisions
    /\ registered \subseteq RegistryDeals
    /\ activeIn \in [RegistryDeals -> SUBSET AllRevisions]
    /\ assignments \subseteq RowType
    /\ requested \in [AllRequests -> AllRequests \cup {Nothing}]
    /\ remembered \in [RegistryDeals -> PendingUploads \cup {Nothing}]
    /\ exactBundles \subseteq RegistryDeals \X AllRevisions
    /\ evidenceOf \in [PendingUploads -> SUBSET ItemType]
    /\ confirmedFor \in [PendingUploads -> RegistryDeals \cup {Nothing}]
    /\ answered \subseteq RegistryDeals \X AllRevisions
    /\ throws \in Nat

StepNames == {"none", "source", "deal", "evidence", "upload"}
IdleType == {NoPromotion}
AskedType == [pc : {"confirm", "source"}, upload : PendingUploads, deal : RegistryDeals,
              step : {"none"}, before : {Nothing}, expected : {Nothing}]
GoingType == [pc : {"revised", "assigned", "evidenced", "marked"}, upload : PendingUploads,
              deal : RegistryDeals, step : {"none"}, before : StateType, expected : StateType]
ThrewType == [pc : {"threw"}, upload : PendingUploads, deal : RegistryDeals,
              step : StepNames \ {"none"}, before : StateType, expected : StateType]
PlacesOK == promotion \in [Promotions -> IdleType \cup AskedType \cup GoingType \cup ThrewType]

UploadOf(p) == promotion[p].upload
DealOf(p) == promotion[p].deal

\* The locks: promotions at once are of different uploads, and past the locks of different deals.
Exclusive ==
    \A p, r \in Promotions : p # r =>
        /\ PC(p) # "idle" /\ PC(r) # "idle" => UploadOf(p) # UploadOf(r)
        /\ InProgress(p) /\ InProgress(r) => DealOf(p) # DealOf(r)

RowsOfSource(u) == {a \in assignments : SourceOfRevision[a.revision] = u}

\* The deal registry knows nothing of the upload, or exactly its promotion to the deal.
NotAssigned(u) ==
    /\ RowsOfSource(u) = {} /\ requested[u] = Nothing
    /\ \A d \in RegistryDeals : remembered[d] # u /\ <<d, u>> \notin exactBundles

AssignedOnly(u, d) ==
    /\ RowsOfSource(u) = {LiveRow(u, d, u)} /\ requested[u] = u
    /\ \A e \in RegistryDeals : (remembered[e] = u) = (e = d) /\ (<<e, u>> \in exactBundles) = (e = d)

\* How far a promotion has come, whether it goes on or threw.
HasRevision(p) == ~(PC(p) = "threw" /\ promotion[p].step = "source")
HasAssignment(p) ==
    PC(p) \in {"assigned", "evidenced"}
    \/ (PC(p) = "threw" /\ promotion[p].step \in {"evidence", "upload"})
HasEvidence(p) ==
    PC(p) = "evidenced" \/ (PC(p) = "threw" /\ promotion[p].step = "upload")

\* What was captured before: nothing of the upload, the deal's other revisions as they are
\* still, a memory bundle that stays, and a company only if a deal of the corpus has it.
BeforeOK(p) ==
    LET b == promotion[p].before
        u == UploadOf(p)
        d == DealOf(p) IN
    /\ b.source = FALSE /\ b.evidence = {} /\ b.upload = Nothing
    /\ b.deal.rows = {} /\ b.deal.request = Nothing /\ b.deal.exact = FALSE
    /\ b.deal.memory # u
    /\ b.deal.memory # Nothing => confirmedFor[b.deal.memory] # Nothing
    /\ ~HasAssignment(p) => remembered[d] = b.deal.memory
    /\ b.deal.active = ActiveRows(assignments, d) \ {u}
    /\ b.deal.exists = (b.deal.active # {})
    /\ d \notin PendingUploads => b.deal.exists
    /\ b.deal.exists => b.deal.company
    /\ b.deal.company /\ ~b.deal.exists =>
          \E e \in registered \ PendingUploads : CompanyOf[e] = CompanyOf[d]

\* Of the upload there is what the steps so far made.
StageOK(p) ==
    LET u == UploadOf(p)
        d == DealOf(p) IN
    /\ (u \in known) = HasRevision(p)
    /\ IF HasAssignment(p) THEN AssignedOnly(u, d) ELSE NotAssigned(u)
    /\ HasEvidence(p) => evidenceOf[u] = (1..ItemCount) \X {d}
    /\ PC(p) = "threw" /\ promotion[p].step = "evidence" => evidenceOf[u] \subseteq (1..ItemCount) \X {d}
    /\ ~HasEvidence(p) /\ ~(PC(p) = "threw" /\ promotion[p].step = "evidence") => evidenceOf[u] = {}
    /\ confirmedFor[u] = Nothing

\* What was captured after each step is what is there, but for the deal before it is assigned.
ExpectedOK(p) ==
    LET e == promotion[p].expected
        u == UploadOf(p)
        d == DealOf(p) IN
    /\ e.upload = Nothing
    /\ e.evidence = IF PC(p) = "threw" /\ promotion[p].step = "upload" THEN evidenceOf[u] ELSE {}
    /\ e.source = (HasRevision(p) /\ PC(p) # "revised")
    /\ e.deal = IF HasAssignment(p) /\ PC(p) # "assigned" THEN DealState(u, d) ELSE promotion[p].before.deal

AskedOK(p) ==
    /\ LeavesNoTrace(UploadOf(p)) /\ confirmedFor[UploadOf(p)] = Nothing
    /\ DealOf(p) \notin PendingUploads => DealOf(p) \in registered

PromotionOK(p) ==
    /\ PC(p) \in {"confirm", "source"} => AskedOK(p)
    /\ MayFail(p) => BeforeOK(p) /\ StageOK(p) /\ ExpectedOK(p)
    /\ PC(p) = "marked" => confirmedFor[UploadOf(p)] = DealOf(p) /\ IsPromotedTo(UploadOf(p), DealOf(p))

\* Only confirmed uploads are revised, answered for, or remembered by a deal nobody holds.
LaterAreOfConfirmed ==
    \A r \in DOMAIN LaterRevisions :
        r \in known /\ LaterRevisions[r] \in PendingUploads => confirmedFor[LaterRevisions[r]] # Nothing

AnsweredAreConfirmed ==
    \A pair \in answered : pair[2] \in PendingUploads => confirmedFor[pair[2]] # Nothing

RememberedAreKept ==
    \A d \in RegistryDeals : remembered[d] # Nothing =>
        \/ confirmedFor[remembered[d]] # Nothing
        \/ \E p \in Promotions : InProgress(p) /\ DealOf(p) = d /\ UploadOf(p) = remembered[d]

PromotionInv ==
    /\ PromotionTypeOK /\ PlacesOK /\ Exclusive
    /\ \A p \in Promotions : PromotionOK(p)
    /\ LaterAreOfConfirmed /\ AnsweredAreConfirmed /\ RememberedAreKept
    /\ PromotionsAreWhole

-----------------------------------------------------------------------------
\* Uploads, their revisions and the deals they found have one name.
LEMMA UploadFacts ==
    ASSUME NEW u \in PendingUploads
    PROVE  /\ u \in AllRevisions /\ SourceOfRevision[u] = u /\ u \in RegistryDeals
           /\ u # Nothing /\ u \in AllRequests
  BY PromotionAssumption DEF AllRevisions, SourceOfRevision, AllRequests

LEMMA InvGives ==
    ASSUME PromotionInv
    PROVE  /\ PromotionTypeOK /\ PlacesOK /\ Exclusive
           /\ \A p \in Promotions : PromotionOK(p)
           /\ LaterAreOfConfirmed /\ AnsweredAreConfirmed /\ RememberedAreKept
           /\ \A u \in PendingUploads : UploadIsFree(u) =>
                IF confirmedFor[u] = Nothing THEN LeavesNoTrace(u) ELSE IsPromotedTo(u, confirmedFor[u])
           /\ \A d \in RegistryDeals : DealAgrees(d)
           /\ \A a \in assignments : a.revision \in known
           /\ companies = {CompanyOf[d] : d \in registered}
           /\ \A pair \in answered : \E a \in assignments : a.deal = pair[1] /\ a.revision = pair[2]
  BY DEF PromotionInv, PromotionsAreWhole

LEMMA PlaceFacts ==
    ASSUME PlacesOK, NEW p \in Promotions
    PROVE  /\ PC(p) = "idle" => promotion[p] = NoPromotion
           /\ PC(p) \in {"idle", "confirm", "source", "revised", "assigned", "evidenced", "marked", "threw"}
           /\ PC(p) # "idle" => UploadOf(p) \in PendingUploads /\ DealOf(p) \in RegistryDeals
           /\ PC(p) \in {"confirm", "source"} => promotion[p] \in AskedType
           /\ PC(p) \in {"revised", "assigned", "evidenced", "marked"} => promotion[p] \in GoingType
           /\ PC(p) = "threw" => promotion[p] \in ThrewType
           /\ InProgress(p) => promotion[p].before \in StateType /\ promotion[p].expected \in StateType
<1>1. promotion[p] \in IdleType \cup AskedType \cup GoingType \cup ThrewType
  BY DEF PlacesOK
<1>2. QED BY <1>1 DEF PC, UploadOf, DealOf, InProgress, IdleType, AskedType, GoingType, ThrewType, NoPromotion

-----------------------------------------------------------------------------
LEMMA SupersededFacts ==
    ASSUME assignments \subseteq RowType, NEW d \in RegistryDeals, NEW r \in AllRevisions
    PROVE  /\ Superseded(d, r) \subseteq RowType
           /\ \A a \in assignments : \E b \in Superseded(d, r) :
                 b.request = a.request /\ b.deal = a.deal /\ b.revision = a.revision
           /\ \A b \in Superseded(d, r) : \E a \in assignments :
                 b.request = a.request /\ b.deal = a.deal /\ b.revision = a.revision
           /\ \A a : a \in RowType /\ (a.deal # d \/ SourceOfRevision[a.revision] # SourceOfRevision[r])
                 => (a \in assignments) = (a \in Superseded(d, r))
<1> DEFINE New(a) == IF a.deal = d /\ SourceOfRevision[a.revision] = SourceOfRevision[r]
                     THEN [a EXCEPT !.live = FALSE] ELSE a
<1>1. Superseded(d, r) = {New(a) : a \in assignments}
  BY DEF Superseded
<1>2. \A a \in assignments : /\ New(a) \in RowType
                             /\ New(a).request = a.request /\ New(a).deal = a.deal
                             /\ New(a).revision = a.revision
  BY DEF RowType
<1>3. \A a \in assignments : a.deal # d \/ SourceOfRevision[a.revision] # SourceOfRevision[r] => New(a) = a
  OBVIOUS
<1> HIDE DEF New
<1>4. QED BY <1>1, <1>2, <1>3

LEMMA ActiveFacts ==
    ASSUME NEW some, NEW d, NEW r
    PROVE  r \in ActiveRows(some, d) <=> \E a \in some : a.deal = d /\ a.live /\ a.revision = r
  BY DEF ActiveRows

\* What an assignment changes, and what it leaves.
ConfirmsWell(q, d, r) ==
    /\ assignments' \subseteq RowType
    /\ requested' \in [AllRequests -> AllRequests \cup {Nothing}]
    /\ \A x \in AllRequests : x # q => requested'[x] = requested[x]
    /\ \A e \in RegistryDeals : e # d => ActiveRows(assignments', e) = ActiveRows(assignments, e)
    /\ r \in ActiveRows(assignments', d)
    /\ \A s : s # SourceOfRevision[r] => RowsOfSource(s)' = RowsOfSource(s)
    /\ RowsOfSource(SourceOfRevision[r]) = {} =>
          /\ RowsOfSource(SourceOfRevision[r])' = {LiveRow(q, d, r)}
          /\ requested'[q] = q
          /\ ActiveRows(assignments', d) = ActiveRows(assignments, d) \cup {r}
    /\ \A a \in assignments : \E b \in assignments' :
          b.request = a.request /\ b.deal = a.deal /\ b.revision = a.revision
    /\ \A b \in assignments' : b.revision = r \/ \E a \in assignments : b.revision = a.revision
    /\ \E b \in assignments' : b.deal = d /\ b.revision = r

LEMMA AssigningAnew ==
    ASSUME assignments \subseteq RowType, requested \in [AllRequests -> AllRequests \cup {Nothing}],
           NEW q \in AllRequests, NEW d \in RegistryDeals, NEW r \in AllRevisions,
           requested' = [requested EXCEPT ![q] = q],
           assignments' = Superseded(d, r) \cup {LiveRow(q, d, r)}
    PROVE  ConfirmsWell(q, d, r)
<1> DEFINE row == LiveRow(q, d, r)
<1>1. row \in RowType /\ row.deal = d /\ row.revision = r /\ row.live = TRUE /\ row.request = q
  BY DEF LiveRow, RowType
<1> HIDE DEF row
<1>a. assignments' = Superseded(d, r) \cup {row}
  BY DEF row
<1>2. assignments' \subseteq RowType
  BY <1>1, <1>a, SupersededFacts
<1>3. \A a \in RowType : a.deal # d \/ SourceOfRevision[a.revision] # SourceOfRevision[r]
        => (a \in assignments) = (a \in assignments')
  BY <1>1, <1>a, SupersededFacts
<1>4. ASSUME NEW e \in RegistryDeals, e # d
      PROVE  ActiveRows(assignments', e) = ActiveRows(assignments, e)
  BY <1>2, <1>3, <1>4 DEF ActiveRows
<1>5. r \in ActiveRows(assignments', d)
  BY <1>1, <1>a, ActiveFacts
<1>6. ASSUME NEW s, s # SourceOfRevision[r]
      PROVE  RowsOfSource(s)' = RowsOfSource(s)
  BY <1>2, <1>3, <1>6 DEF RowsOfSource
<1>7. ASSUME RowsOfSource(SourceOfRevision[r]) = {}
      PROVE  /\ RowsOfSource(SourceOfRevision[r])' = {LiveRow(q, d, r)}
             /\ ActiveRows(assignments', d) = ActiveRows(assignments, d) \cup {r}
  <2>1. \A b \in Superseded(d, r) : SourceOfRevision[b.revision] # SourceOfRevision[r]
    BY <1>7, SupersededFacts DEF RowsOfSource
  <2>2. Superseded(d, r) = assignments
    BY <1>7 DEF Superseded, RowsOfSource
  <2>3. RowsOfSource(SourceOfRevision[r])' = {row}
    BY <2>1, <1>a, <1>1 DEF RowsOfSource
  <2>4. ActiveRows(assignments', d) = ActiveRows(assignments, d) \cup {r}
    BY <2>2, <1>a, <1>1 DEF ActiveRows
  <2>5. QED BY <2>3, <2>4 DEF row
<1>8. \A a \in assignments : \E b \in assignments' :
          b.request = a.request /\ b.deal = a.deal /\ b.revision = a.revision
  BY <1>a, SupersededFacts
<1>9. \A b \in assignments' : b.revision = r \/ \E a \in assignments : b.revision = a.revision
  BY <1>a, <1>1, SupersededFacts
<1>10. \E b \in assignments' : b.deal = d /\ b.revision = r
  BY <1>1, <1>a
<1>11. /\ requested' \in [AllRequests -> AllRequests \cup {Nothing}]
       /\ \A x \in AllRequests : x # q => requested'[x] = requested[x]
       /\ requested'[q] = q
  OBVIOUS
<1>12. QED BY <1>2, <1>4, <1>5, <1>6, <1>7, <1>8, <1>9, <1>10, <1>11 DEF ConfirmsWell

LEMMA ConfirmingWell ==
    ASSUME assignments \subseteq RowType, requested \in [AllRequests -> AllRequests \cup {Nothing}],
           NEW q \in AllRequests, NEW d \in RegistryDeals, NEW r \in AllRevisions,
           requested[q] = Nothing, ConfirmAssignment(q, d, r)
    PROVE  ConfirmsWell(q, d, r)
<1>1. CASE IsAssigned(d, r)
  <2> DEFINE a == CHOOSE a \in assignments : a.deal = d /\ a.revision = r /\ a.live
  <2>1. a \in assignments /\ a.deal = d /\ a.revision = r /\ a.live
    BY <1>1 DEF IsAssigned
  <2>2. requested' = [requested EXCEPT ![q] = a.request] /\ assignments' = assignments
    BY <1>1 DEF ConfirmAssignment
  <2> HIDE DEF a
  <2>3. a.request \in AllRequests
    BY <2>1 DEF RowType
  <2>4. r \in ActiveRows(assignments', d)
    BY <2>1, <2>2, ActiveFacts
  <2>5. RowsOfSource(SourceOfRevision[r]) # {}
    BY <2>1 DEF RowsOfSource
  <2>6. \A s : RowsOfSource(s)' = RowsOfSource(s)
    BY <2>2 DEF RowsOfSource
  <2>7. \A e : ActiveRows(assignments', e) = ActiveRows(assignments, e)
    BY <2>2
  <2>8. QED BY <2>1, <2>2, <2>3, <2>4, <2>5, <2>6, <2>7 DEF ConfirmsWell
<1>2. CASE ~IsAssigned(d, r)
  <2>1. /\ requested' = [requested EXCEPT ![q] = q]
        /\ assignments' = Superseded(d, r) \cup {LiveRow(q, d, r)}
    BY <1>2 DEF ConfirmAssignment
  <2>2. QED BY <2>1, AssigningAnew
<1>3. QED BY <1>1, <1>2

-----------------------------------------------------------------------------
(* What the others see of a step. *)

SameUpload(u) ==
    /\ (u \in known') = (u \in known)
    /\ RowsOfSource(u)' = RowsOfSource(u)
    /\ requested'[u] = requested[u]
    /\ \A e \in RegistryDeals : remembered'[e] = u => remembered[e] = u \/ confirmedFor[u] # Nothing
    /\ \A e \in RegistryDeals : (<<e, u>> \in exactBundles') = (<<e, u>> \in exactBundles)
    /\ evidenceOf'[u] = evidenceOf[u] /\ confirmedFor'[u] = confirmedFor[u]

\* A confirmed upload may get other assignments, as long as it stays promoted.
Undisturbed(u) ==
    \/ SameUpload(u)
    \/ /\ confirmedFor[u] # Nothing /\ confirmedFor'[u] = confirmedFor[u]
       /\ \A d \in RegistryDeals : IsPromotedTo(u, d) => IsPromotedTo(u, d)'

SameDeal(d) ==
    /\ ActiveRows(assignments', d) = ActiveRows(assignments, d)
    /\ activeIn'[d] = activeIn[d] /\ remembered'[d] = remembered[d]
    /\ (d \in registered') = (d \in registered)
    /\ d \in registered => CompanyOf[d] \in companies'

NothingLost ==
    /\ \A v \in PendingUploads : confirmedFor[v] # Nothing => confirmedFor'[v] # Nothing
    /\ \A e \in registered : e \notin PendingUploads => e \in registered'

LEMMA AssignedIsRegistered ==
    ASSUME PromotionInv, NEW u \in PendingUploads, NEW d \in RegistryDeals, AssignedOnly(u, d)
    PROVE  d \in registered /\ CompanyOf[d] \in companies /\ u \in activeIn[d]
<1>1. LiveRow(u, d, u) \in assignments
  BY DEF AssignedOnly, RowsOfSource
<1>2. u \in ActiveRows(assignments, d)
  BY <1>1, ActiveFacts DEF LiveRow
<1>3. QED BY <1>2, InvGives DEF DealAgrees

LEMMA StateStays ==
    ASSUME PromotionInv, NEW u \in PendingUploads, NEW d \in RegistryDeals,
           SameUpload(u), SameDeal(d), AssignedOnly(u, d)
    PROVE  DealState(u, d)' = DealState(u, d)
<1>1. CompanyOf[d] \in companies /\ CompanyOf[d] \in companies'
  BY AssignedIsRegistered DEF SameDeal
<1>2. {a \in assignments' : a.deal = d /\ SourceOfRevision[a.revision] = u}
      = {a \in assignments : a.deal = d /\ SourceOfRevision[a.revision] = u}
  BY DEF SameUpload, RowsOfSource
<1>3. QED BY <1>1, <1>2 DEF DealState, SameUpload, SameDeal

LEMMA AskedStays ==
    ASSUME PromotionInv, NEW p \in Promotions, NEW u \in PendingUploads, NEW d \in RegistryDeals,
           u = UploadOf(p), d = DealOf(p), promotion'[p] = promotion[p],
           SameUpload(u), NothingLost, PC(p) \in {"confirm", "source"}
    PROVE  PromotionOK(p)'
<1>1. AskedOK(p)
  BY InvGives DEF PromotionOK
<1>2. PC(p)' = PC(p) /\ UploadOf(p)' = u /\ DealOf(p)' = d /\ ~MayFail(p)' /\ PC(p)' # "marked"
  BY DEF PC, UploadOf, DealOf, MayFail
<1>3. LeavesNoTrace(u) /\ confirmedFor[u] = Nothing
  BY <1>1 DEF AskedOK
<1>4. (\A a \in assignments' : SourceOfRevision[a.revision] # u)
  BY <1>3 DEF LeavesNoTrace, SameUpload, RowsOfSource
<1>5. LeavesNoTrace(u)'
  BY <1>3, <1>4 DEF LeavesNoTrace, SameUpload
<1>6. d \notin PendingUploads => d \in registered'
  BY <1>1 DEF AskedOK, NothingLost
<1>7. AskedOK(p)'
  BY <1>2, <1>3, <1>5, <1>6 DEF AskedOK, SameUpload
<1>8. QED BY <1>2, <1>7 DEF PromotionOK

LEMMA GoingStays ==
    ASSUME PromotionInv, NEW p \in Promotions, NEW u \in PendingUploads, NEW d \in RegistryDeals,
           u = UploadOf(p), d = DealOf(p), promotion'[p] = promotion[p],
           SameUpload(u), SameDeal(d), NothingLost, MayFail(p)
    PROVE  PromotionOK(p)'
<1>1. BeforeOK(p) /\ StageOK(p) /\ ExpectedOK(p)
  BY InvGives DEF PromotionOK
<1>0. confirmedFor[u] = Nothing
  BY <1>1 DEF StageOK
<1>2. /\ PC(p)' = PC(p) /\ UploadOf(p)' = u /\ DealOf(p)' = d /\ MayFail(p)'
      /\ PC(p) \notin {"confirm", "source", "marked"}
      /\ HasRevision(p)' = HasRevision(p) /\ HasAssignment(p)' = HasAssignment(p)
      /\ HasEvidence(p)' = HasEvidence(p)
  BY DEF PC, UploadOf, DealOf, MayFail, HasRevision, HasAssignment, HasEvidence
<1>3. promotion[p].before.deal.memory \in PendingUploads \cup {Nothing}
  BY InvGives, PlaceFacts DEF StateType, DealStateType, InProgress, MayFail
<1>4. BeforeOK(p)'
  <2>1. promotion[p].before.deal.memory # Nothing => confirmedFor'[promotion[p].before.deal.memory] # Nothing
    BY <1>1, <1>3 DEF BeforeOK, NothingLost
  <2>2. (\E e \in registered \ PendingUploads : CompanyOf[e] = CompanyOf[d])
        => \E e \in registered' \ PendingUploads : CompanyOf[e] = CompanyOf[d]
    BY DEF NothingLost
  <2>3. QED BY <1>1, <1>2, <2>1, <2>2 DEF BeforeOK, SameDeal
<1>5. StageOK(p)'
  <2>1. NotAssigned(u) => NotAssigned(u)'
    BY <1>0 DEF NotAssigned, SameUpload
  <2>2. AssignedOnly(u, d) => AssignedOnly(u, d)'
    BY <1>0 DEF AssignedOnly, SameUpload, SameDeal, LiveRow
  <2>3. QED BY <1>1, <1>2, <2>1, <2>2 DEF StageOK, SameUpload
<1>6. ExpectedOK(p)'
  <2>1. HasAssignment(p) => DealState(u, d)' = DealState(u, d)
    BY <1>1, StateStays DEF StageOK
  <2>2. QED BY <1>1, <1>2, <2>1 DEF ExpectedOK, SameUpload
<1>7. QED BY <1>2, <1>4, <1>5, <1>6 DEF PromotionOK

LEMMA PromotedStays ==
    ASSUME NEW u \in PendingUploads, NEW d \in RegistryDeals, SameUpload(u), IsPromotedTo(u, d)
    PROVE  IsPromotedTo(u, d)'
<1>1. PICK a \in assignments : a.request = u /\ a.deal = d /\ a.revision = u
  BY DEF IsPromotedTo
<1>2. a \in assignments'
  BY <1>1, UploadFacts DEF SameUpload, RowsOfSource
<1>3. QED BY <1>1, <1>2 DEF IsPromotedTo, SameUpload

LEMMA MarkedStays ==
    ASSUME PromotionInv, NEW p \in Promotions, NEW u \in PendingUploads, NEW d \in RegistryDeals,
           u = UploadOf(p), d = DealOf(p), promotion'[p] = promotion[p],
           Undisturbed(u), PC(p) = "marked"
    PROVE  PromotionOK(p)'
<1>1. confirmedFor[u] = d /\ IsPromotedTo(u, d)
  BY InvGives DEF PromotionOK
<1>2. PC(p)' = "marked" /\ UploadOf(p)' = u /\ DealOf(p)' = d /\ ~MayFail(p)'
  BY DEF PC, UploadOf, DealOf, MayFail
<1>3. confirmedFor'[u] = d /\ IsPromotedTo(u, d)'
  BY <1>1, PromotedStays DEF Undisturbed, SameUpload
<1>4. QED BY <1>2, <1>3 DEF PromotionOK

\* Of every other confirmation the invariant holds on.
LEMMA OthersStay ==
    ASSUME PromotionInv, NEW p \in Promotions, promotion'[p] = promotion[p], NothingLost,
           \A u \in PendingUploads : PC(p) # "idle" /\ u = UploadOf(p) => Undisturbed(u),
           \A d \in RegistryDeals : InProgress(p) /\ d = DealOf(p) => SameDeal(d)
    PROVE  PromotionOK(p)'
<1>1. CASE PC(p) = "idle"
  BY <1>1 DEF PromotionOK, MayFail, PC
<1>2. CASE PC(p) # "idle"
  <2>1. PICK u \in PendingUploads, d \in RegistryDeals : u = UploadOf(p) /\ d = DealOf(p)
    BY <1>2, InvGives, PlaceFacts
  <2>2. Undisturbed(u)
    BY <1>2, <2>1
  <2>3. CASE PC(p) \in {"confirm", "source"}
    <3>1. confirmedFor[u] = Nothing
      BY <2>1, <2>3, InvGives DEF PromotionOK, AskedOK
    <3>2. QED BY <2>1, <2>2, <2>3, <3>1, AskedStays DEF Undisturbed
  <2>4. CASE MayFail(p)
    <3>1. confirmedFor[u] = Nothing /\ InProgress(p)
      BY <2>1, <2>4, InvGives DEF PromotionOK, StageOK, MayFail, InProgress
    <3>2. QED BY <2>1, <2>2, <2>4, <3>1, GoingStays DEF Undisturbed
  <2>5. CASE PC(p) = "marked"
    BY <2>1, <2>2, <2>5, MarkedStays
  <2>6. QED BY <1>2, <2>3, <2>4, <2>5, InvGives, PlaceFacts DEF MayFail
<1>3. QED BY <1>1, <1>2

-----------------------------------------------------------------------------
(* Steps that leave the repositories as they are. *)

RepositoriesStay == UNCHANGED <<known, dealVars, evidenceOf, confirmedFor>>

LEMMA Staying ==
    ASSUME PromotionInv, RepositoriesStay
    PROVE  /\ \A u \in PendingUploads : SameUpload(u)
           /\ \A d \in RegistryDeals : SameDeal(d)
           /\ NothingLost /\ LaterAreOfConfirmed'
           /\ \A u \in PendingUploads : LeavesNoTrace(u) => LeavesNoTrace(u)'
           /\ \A u \in PendingUploads, d \in RegistryDeals : IsPromotedTo(u, d) => IsPromotedTo(u, d)'
           /\ \A d \in RegistryDeals : DealAgrees(d)'
           /\ \A a \in assignments' : a.revision \in known'
           /\ companies' = {CompanyOf[d] : d \in registered'}
<1>1. /\ known' = known /\ evidenceOf' = evidenceOf /\ confirmedFor' = confirmedFor
      /\ registered' = registered /\ activeIn' = activeIn /\ companies' = companies
      /\ assignments' = assignments /\ requested' = requested /\ remembered' = remembered
      /\ exactBundles' = exactBundles
  BY DEF RepositoriesStay, dealVars
<1>2. \A u \in PendingUploads : SameUpload(u)
  BY <1>1 DEF SameUpload, RowsOfSource
<1>3. \A d \in RegistryDeals : SameDeal(d)
  BY <1>1, InvGives DEF SameDeal
<1>4. NothingLost /\ LaterAreOfConfirmed'
  BY <1>1, InvGives DEF NothingLost, LaterAreOfConfirmed
<1>5. \A u \in PendingUploads : LeavesNoTrace(u) => LeavesNoTrace(u)'
  BY <1>1 DEF LeavesNoTrace
<1>6. \A u \in PendingUploads, d \in RegistryDeals : IsPromotedTo(u, d) => IsPromotedTo(u, d)'
  BY <1>1 DEF IsPromotedTo
<1>7. \A d \in RegistryDeals : DealAgrees(d)'
  BY <1>1, InvGives DEF DealAgrees
<1>8. QED BY <1>1, <1>2, <1>3, <1>4, <1>5, <1>6, <1>7, InvGives

LEMMA StayingTyped ==
    ASSUME PromotionTypeOK, RepositoriesStay,
           answered' \subseteq RegistryDeals \X AllRevisions, throws' \in Nat
    PROVE  PromotionTypeOK'
  BY DEF PromotionTypeOK, RepositoriesStay, dealVars

\* An upload nobody promotes before or after a step that leaves the repositories alone.
LEMMA FreeStayWhole ==
    ASSUME PromotionInv, RepositoriesStay, NEW u \in PendingUploads,
           UploadIsFree(u) \/ (confirmedFor[u] # Nothing /\ IsPromotedTo(u, confirmedFor[u]))
    PROVE  IF confirmedFor'[u] = Nothing THEN LeavesNoTrace(u)' ELSE IsPromotedTo(u, confirmedFor[u])'
<1>1. confirmedFor' = confirmedFor /\ confirmedFor[u] \in RegistryDeals \cup {Nothing}
  BY InvGives DEF RepositoriesStay, PromotionTypeOK
<1>2. CASE confirmedFor[u] = Nothing
  <2>1. LeavesNoTrace(u)
    BY <1>2, InvGives
  <2>2. QED BY <1>1, <1>2, <2>1, Staying
<1>3. CASE confirmedFor[u] # Nothing
  <2>1. PICK d \in RegistryDeals : d = confirmedFor[u]
    BY <1>1, <1>3
  <2>2. IsPromotedTo(u, d)
    BY <1>3, <2>1, InvGives
  <2>3. IsPromotedTo(u, d)'
    BY <2>2, Staying
  <2>4. IsPromotedTo(u, confirmedFor[u])'
    BY <2>1, <2>3, <1>1
  <2>5. QED BY <1>1, <1>3, <2>4
<1>4. QED BY <1>2, <1>3

LEMMA PlacesStay ==
    ASSUME PlacesOK, NEW p \in Promotions, NEW record,
           record \in IdleType \cup AskedType \cup GoingType \cup ThrewType, GoesOn(p, record)
    PROVE  /\ PlacesOK' /\ promotion'[p] = record
           /\ \A r \in Promotions : r # p => promotion'[r] = promotion[r]
  BY DEF PlacesOK, GoesOn

\* Only p goes on, with the locks it had or fewer.
LEMMA ExclusiveStays ==
    ASSUME Exclusive, NEW p \in Promotions,
           \A r \in Promotions : r # p => promotion'[r] = promotion[r],
           promotion'[p].pc # "idle" =>
              /\ promotion[p].pc # "idle"
              /\ promotion'[p].upload = promotion[p].upload /\ promotion'[p].deal = promotion[p].deal
              /\ promotion'[p].pc \notin {"confirm", "source"} => promotion[p].pc \notin {"confirm", "source"}
    PROVE  Exclusive'
  BY DEF Exclusive, PC, InProgress, UploadOf, DealOf

LEMMA FreeWasFree ==
    ASSUME NEW p \in Promotions, NEW u,
           \A r \in Promotions : r # p => promotion'[r] = promotion[r],
           UploadIsFree(u)', ~HoldsUpload(p, u)
    PROVE  UploadIsFree(u)
  BY DEF UploadIsFree, HoldsUpload, PC

\* Only p goes on and keeps its upload.
LEMMA HeldStaysHeld ==
    ASSUME NEW p \in Promotions, NEW u,
           \A r \in Promotions : r # p => promotion'[r] = promotion[r],
           promotion'[p].pc # "idle", promotion'[p].upload = UploadOf(p),
           UploadIsFree(u)'
    PROVE  UploadIsFree(u)
  BY DEF UploadIsFree, HoldsUpload, PC, UploadOf

-----------------------------------------------------------------------------
LEMMA AskKeeps ==
    ASSUME PromotionInv, NEW p \in Promotions, NEW u \in PendingUploads, NEW d \in RegistryDeals,
           AskConfirmation(p, u, d)
    PROVE  PromotionInv'
<1>1. RepositoriesStay /\ throws' = throws
  BY DEF AskConfirmation, RepositoriesStay
<1>2. PC(p) = "idle" /\ UploadIsFree(u) /\ (d = u \/ d \in registered)
  BY DEF AskConfirmation
<1>3. CASE confirmedFor[u] = Nothing /\ GoesOn(p, [NoPromotion EXCEPT !.pc = "confirm", !.upload = u, !.deal = d])
           /\ answered' = answered
  <2> DEFINE record == [NoPromotion EXCEPT !.pc = "confirm", !.upload = u, !.deal = d]
  <2>1. /\ record \in AskedType /\ record.pc = "confirm" /\ record.upload = u /\ record.deal = d
    BY DEF NoPromotion, AskedType
  <2> HIDE DEF record
  <2>2. /\ PlacesOK' /\ promotion'[p] = record
        /\ \A r \in Promotions : r # p => promotion'[r] = promotion[r]
    BY <1>3, <2>1, PlacesStay, InvGives DEF record
  <2>3. Exclusive'
    BY <1>2, <2>1, <2>2, InvGives DEF Exclusive, PC, InProgress, UploadOf, DealOf, UploadIsFree, HoldsUpload
  <2>4. ASSUME NEW r \in Promotions PROVE PromotionOK(r)'
    <3>1. CASE r # p
      BY <3>1, <1>1, <2>2, OthersStay, Staying DEF Undisturbed
    <3>2. CASE r = p
      <4>1. LeavesNoTrace(u)' /\ confirmedFor'[u] = Nothing
        BY <1>1, <1>2, <1>3, Staying, InvGives DEF RepositoriesStay
      <4>2. d \notin PendingUploads => d \in registered'
        BY <1>1, <1>2 DEF RepositoriesStay, dealVars
      <4>3. AskedOK(p)'
        BY <2>1, <2>2, <4>1, <4>2 DEF AskedOK, UploadOf, DealOf
      <4>4. QED BY <3>2, <2>1, <2>2, <4>3 DEF PromotionOK, MayFail, PC
    <3>3. QED BY <3>1, <3>2
  <2>5. ASSUME NEW v \in PendingUploads, UploadIsFree(v)'
        PROVE  IF confirmedFor'[v] = Nothing THEN LeavesNoTrace(v)' ELSE IsPromotedTo(v, confirmedFor[v])'
    <3>1. UploadIsFree(v)
      BY <2>2, <2>5, <1>2, FreeWasFree DEF HoldsUpload
    <3>2. QED BY <3>1, <1>1, FreeStayWhole
  <2>6. AnsweredAreConfirmed' /\ RememberedAreKept'
    <3>1. \A r \in Promotions : InProgress(r) => InProgress(r)' /\ UploadOf(r)' = UploadOf(r) /\ DealOf(r)' = DealOf(r)
      BY <1>2, <2>2 DEF InProgress, UploadOf, DealOf, PC
    <3>2. QED BY <1>1, <1>3, <3>1, InvGives
            DEF AnsweredAreConfirmed, RememberedAreKept, RepositoriesStay, dealVars
  <2>7. \A pair \in answered' : \E a \in assignments' : a.deal = pair[1] /\ a.revision = pair[2]
    BY <1>1, <1>3, InvGives DEF RepositoriesStay, dealVars
  <2>8. PromotionTypeOK'
    BY <1>1, <1>3, InvGives, StayingTyped DEF PromotionTypeOK
  <2>9. QED BY <1>1, <2>2, <2>3, <2>4, <2>5, <2>6, <2>7, <2>8, Staying DEF PromotionInv, PromotionsAreWhole
<1>4. CASE confirmedFor[u] = d /\ answered' = answered \cup {<<d, u>>} /\ promotion' = promotion
  <2>1. d # Nothing /\ u \in AllRevisions
    BY PromotionAssumption, UploadFacts
  <2>2. IsPromotedTo(u, d)
    BY <1>2, <1>4, <2>1, InvGives
  <2>3. \E a \in assignments : a.deal = d /\ a.revision = u
    BY <2>2 DEF IsPromotedTo
  <2>4. \A pair \in answered' : \E a \in assignments' : a.deal = pair[1] /\ a.revision = pair[2]
    <3>1. ASSUME NEW pair \in answered'
          PROVE  \E a \in assignments : a.deal = pair[1] /\ a.revision = pair[2]
      <4>1. CASE pair = <<d, u>>
        BY <4>1, <2>3
      <4>2. CASE pair \in answered
        BY <4>2, InvGives
      <4>3. QED BY <4>1, <4>2, <1>4
    <3>2. QED BY <3>1, <1>1 DEF RepositoriesStay, dealVars
  <2>5. AnsweredAreConfirmed'
    BY <1>1, <1>4, <2>1, InvGives DEF AnsweredAreConfirmed, RepositoriesStay
  <2>6. RememberedAreKept' /\ PlacesOK' /\ Exclusive'
    BY <1>1, <1>4, InvGives DEF RememberedAreKept, RepositoriesStay, dealVars, PlacesOK, Exclusive,
       InProgress, UploadOf, DealOf, PC
  <2>7. \A r \in Promotions : PromotionOK(r)'
    BY <1>1, <1>4, OthersStay, Staying DEF Undisturbed
  <2>8. PromotionTypeOK'
    BY <1>1, <1>4, <2>1, InvGives, StayingTyped DEF PromotionTypeOK
  <2>9. ASSUME NEW v \in PendingUploads, UploadIsFree(v)'
        PROVE  IF confirmedFor'[v] = Nothing THEN LeavesNoTrace(v)' ELSE IsPromotedTo(v, confirmedFor[v])'
    <3>1. UploadIsFree(v)
      BY <2>9, <1>4 DEF UploadIsFree, HoldsUpload, PC
    <3>2. QED BY <3>1, <1>1, FreeStayWhole
  <2>10. QED BY <1>1, <2>4, <2>5, <2>6, <2>7, <2>8, <2>9, Staying DEF PromotionInv, PromotionsAreWhole
<1>5. QED BY <1>3, <1>4 DEF AskConfirmation

-----------------------------------------------------------------------------
(* A step of a confirmation that keeps its locks. *)

LEMMA FreeUploadStays ==
    ASSUME PromotionInv, NEW v \in PendingUploads, Undisturbed(v), UploadIsFree(v)
    PROVE  IF confirmedFor'[v] = Nothing THEN LeavesNoTrace(v)' ELSE IsPromotedTo(v, confirmedFor[v])'
<1>1. confirmedFor'[v] = confirmedFor[v] /\ confirmedFor[v] \in RegistryDeals \cup {Nothing}
  BY InvGives DEF SameUpload, Undisturbed, PromotionTypeOK
<1>2. CASE confirmedFor[v] = Nothing
  <2>1. LeavesNoTrace(v) /\ SameUpload(v)
    BY <1>2, InvGives DEF Undisturbed
  <2>2. \A a \in assignments' : SourceOfRevision[a.revision] # v
    BY <2>1 DEF LeavesNoTrace, SameUpload, RowsOfSource
  <2>3. LeavesNoTrace(v)'
    BY <1>2, <2>1, <2>2 DEF LeavesNoTrace, SameUpload
  <2>4. QED BY <1>1, <1>2, <2>3
<1>3. CASE confirmedFor[v] # Nothing
  <2>1. PICK e \in RegistryDeals : e = confirmedFor[v]
    BY <1>1, <1>3
  <2>2. IsPromotedTo(v, e)
    BY <1>3, <2>1, InvGives
  <2>5. IsPromotedTo(v, e)'
    BY <2>2, PromotedStays DEF Undisturbed
  <2>6. IsPromotedTo(v, confirmedFor[v])'
    BY <2>1, <2>5, <1>1
  <2>7. QED BY <1>1, <1>3, <2>6
<1>4. QED BY <1>2, <1>3

RowsPersist ==
    \A a \in assignments : \E b \in assignments' : b.deal = a.deal /\ b.revision = a.revision

DealsAgreeAfter ==
    /\ \A e \in RegistryDeals : DealAgrees(e)'
    /\ \A a \in assignments' : a.revision \in known'
    /\ companies' = {CompanyOf[e] : e \in registered'}

Enclosed(u, d) ==
    /\ \A v \in PendingUploads : v # u => SameUpload(v)
    /\ \A e \in RegistryDeals : e # d => SameDeal(e)
    /\ NothingLost /\ RowsPersist
    /\ known' \subseteq known \cup {u}

LEMMA OwnStep ==
    ASSUME PromotionInv, NEW p \in Promotions, NEW u \in PendingUploads, NEW d \in RegistryDeals,
           u = UploadOf(p), d = DealOf(p), PC(p) # "idle",
           NEW record \in AskedType \cup GoingType \cup ThrewType,
           record.upload = u, record.deal = d, GoesOn(p, record),
           record \in AskedType => ~InProgress(p) /\ RepositoriesStay,
           InProgress(p) \/ record \in AskedType \/ DealIsFree(d),
           answered' = answered, Enclosed(u, d), PromotionTypeOK', PromotionOK(p)', DealsAgreeAfter,
           \A e \in RegistryDeals : remembered'[e] = remembered[e] \/ (e = d /\ remembered'[e] = u)
    PROVE  PromotionInv'
<1>1. /\ PlacesOK' /\ promotion'[p] = record
      /\ \A r \in Promotions : r # p => promotion'[r] = promotion[r]
  BY PlacesStay, InvGives
<1>2. record.pc # "idle" /\ (record.pc \in {"confirm", "source"} <=> record \in AskedType)
  BY DEF AskedType, GoingType, ThrewType
<1>3. Exclusive'
  BY <1>1, <1>2, InvGives DEF Exclusive, PC, InProgress, UploadOf, DealOf, DealIsFree, HoldsDeal
<1>4. PC(p)' # "idle" /\ UploadOf(p)' = u /\ DealOf(p)' = d /\ (InProgress(p)' <=> record \notin AskedType)
  BY <1>1, <1>2 DEF PC, UploadOf, DealOf, InProgress
<1>5. ASSUME NEW r \in Promotions PROVE PromotionOK(r)'
  <2>1. CASE r = p
    BY <2>1
  <2>2. CASE r # p
    <3>1. promotion'[r] = promotion[r]
      BY <1>1, <2>2
    <3>2. PC(r)' = PC(r) /\ UploadOf(r)' = UploadOf(r) /\ DealOf(r)' = DealOf(r) /\ InProgress(r)' = InProgress(r)
      BY <3>1 DEF PC, UploadOf, DealOf, InProgress
    <3>3. PC(r) # "idle" => UploadOf(r) # u
      BY <1>3, <1>4, <2>2, <3>2 DEF Exclusive
    <3>4. CASE record \notin AskedType
      <4>1. InProgress(r) => DealOf(r) # d
        BY <1>3, <1>4, <2>2, <3>2, <3>4 DEF Exclusive
      <4>2. QED BY <3>1, <3>3, <4>1, OthersStay DEF Enclosed, Undisturbed
    <3>5. CASE record \in AskedType
      BY <3>1, <3>5, OthersStay, Staying DEF Undisturbed
    <3>6. QED BY <3>4, <3>5
  <2>3. QED BY <2>1, <2>2
<1>6. ASSUME NEW v \in PendingUploads, UploadIsFree(v)'
      PROVE  IF confirmedFor'[v] = Nothing THEN LeavesNoTrace(v)' ELSE IsPromotedTo(v, confirmedFor[v])'
  <2>1. v # u
    BY <1>4, <1>6 DEF UploadIsFree, HoldsUpload, UploadOf
  <2>2. UploadIsFree(v)
    BY <1>1, <1>2, <1>6, HeldStaysHeld
  <2>3. QED BY <2>1, <2>2, FreeUploadStays DEF Enclosed, Undisturbed
<1>7. LaterAreOfConfirmed' /\ AnsweredAreConfirmed'
  <2>1. u \notin DOMAIN LaterRevisions
    BY PromotionAssumption
  <2>2. LaterAreOfConfirmed'
    BY <2>1, InvGives DEF LaterAreOfConfirmed, Enclosed, NothingLost
  <2>3. AnsweredAreConfirmed'
    BY InvGives DEF AnsweredAreConfirmed, Enclosed, NothingLost
  <2>4. QED BY <2>2, <2>3
<1>8. RememberedAreKept'
  <2> SUFFICES ASSUME NEW e \in RegistryDeals, remembered'[e] # Nothing
               PROVE  \/ confirmedFor'[remembered'[e]] # Nothing
                      \/ \E r \in Promotions : InProgress(r)' /\ DealOf(r)' = e /\ UploadOf(r)' = remembered'[e]
    BY DEF RememberedAreKept
  <2>1. CASE remembered'[e] = remembered[e]
    <3>1. remembered[e] \in PendingUploads
      BY <2>1, InvGives DEF PromotionTypeOK
    <3>2. CASE confirmedFor[remembered[e]] # Nothing
      BY <2>1, <3>1, <3>2 DEF Enclosed, NothingLost
    <3>3. CASE \E r \in Promotions : InProgress(r) /\ DealOf(r) = e /\ UploadOf(r) = remembered[e]
      <4>1. PICK r \in Promotions : InProgress(r) /\ DealOf(r) = e /\ UploadOf(r) = remembered[e]
        BY <3>3
      <4>2. InProgress(r)' /\ DealOf(r)' = DealOf(r) /\ UploadOf(r)' = UploadOf(r)
        BY <4>1, <1>1, <1>4 DEF InProgress, DealOf, UploadOf, PC
      <4>3. QED BY <4>1, <4>2, <2>1
    <3>4. QED BY <2>1, <3>2, <3>3, InvGives DEF RememberedAreKept
  <2>2. CASE remembered'[e] # remembered[e]
    BY <2>2, <1>4 DEF RepositoriesStay, dealVars
  <2>3. QED BY <2>1, <2>2
<1>9. \A pair \in answered' : \E a \in assignments' : a.deal = pair[1] /\ a.revision = pair[2]
  BY InvGives DEF Enclosed, RowsPersist
<1>10. QED BY <1>1, <1>3, <1>5, <1>6, <1>7, <1>8, <1>9 DEF PromotionInv, PromotionsAreWhole, DealsAgreeAfter

LEMMA StayingEncloses ==
    ASSUME PromotionInv, RepositoriesStay, NEW u, NEW d
    PROVE  /\ Enclosed(u, d) /\ DealsAgreeAfter /\ remembered' = remembered
  BY Staying DEF Enclosed, DealsAgreeAfter, RowsPersist, RepositoriesStay, dealVars

LEMMA LockSourceKeeps ==
    ASSUME PromotionInv, NEW p \in Promotions, LockSource(p)
    PROVE  PromotionInv'
<1>1. PC(p) = "confirm" /\ RepositoriesStay /\ answered' = answered /\ throws' = throws
  BY DEF LockSource, RepositoriesStay
<1>2. PICK u \in PendingUploads, d \in RegistryDeals : u = UploadOf(p) /\ d = DealOf(p)
  BY <1>1, InvGives, PlaceFacts
<1> DEFINE record == [promotion[p] EXCEPT !.pc = "source"]
<1>3. promotion[p] \in AskedType
  BY <1>1, InvGives, PlaceFacts
<1>4. /\ record \in AskedType /\ record.pc = "source" /\ record.upload = u /\ record.deal = d
  BY <1>2, <1>3 DEF AskedType, UploadOf, DealOf
<1>5. GoesOn(p, record)
  BY DEF LockSource
<1> HIDE DEF record
<1>6. promotion'[p] = record
  BY <1>4, <1>5, InvGives, PlacesStay
<1>7. AskedOK(p)
  BY <1>1, InvGives DEF PromotionOK
<1>8. LeavesNoTrace(u)' /\ confirmedFor'[u] = Nothing /\ (d \notin PendingUploads => d \in registered')
  BY <1>1, <1>2, <1>7, Staying DEF AskedOK, RepositoriesStay, dealVars
<1>9. PC(p)' = "source" /\ UploadOf(p)' = u /\ DealOf(p)' = d
  BY <1>4, <1>6 DEF PC, UploadOf, DealOf
<1>10. PromotionOK(p)'
  BY <1>8, <1>9 DEF PromotionOK, AskedOK, MayFail
<1>11. PromotionTypeOK'
  BY <1>1, InvGives, StayingTyped DEF PromotionTypeOK
<1>12. ~InProgress(p)
  BY <1>1 DEF InProgress
<1>13. Enclosed(u, d) /\ DealsAgreeAfter /\ remembered' = remembered
  BY <1>1, StayingEncloses
<1>14. PC(p) # "idle"
  BY <1>1
<1>15. QED BY <1>1, <1>2, <1>4, <1>5, <1>10, <1>11, <1>12, <1>13, <1>14, OwnStep

LEMMA CapturedWell ==
    ASSUME PromotionInv, NEW u \in PendingUploads, NEW d \in RegistryDeals,
           LeavesNoTrace(u), confirmedFor[u] = Nothing, d \notin PendingUploads => d \in registered,
           DealIsFree(d)
    PROVE  LET c == Captured(u, d) IN
           /\ c \in StateType
           /\ c.source = FALSE /\ c.evidence = {} /\ c.upload = Nothing
           /\ c.deal.rows = {} /\ c.deal.request = Nothing /\ c.deal.exact = FALSE
           /\ c.deal.memory = remembered[d] /\ remembered[d] # u
           /\ remembered[d] # Nothing => confirmedFor[remembered[d]] # Nothing
           /\ c.deal.active = ActiveRows(assignments, d) \ {u}
           /\ c.deal.exists = (c.deal.active # {})
           /\ d \notin PendingUploads => c.deal.exists
           /\ c.deal.exists => c.deal.company
           /\ c.deal.company /\ ~c.deal.exists =>
                 \E e \in registered \ PendingUploads : CompanyOf[e] = CompanyOf[d]
<1> DEFINE c == Captured(u, d)
<1>1. /\ c = [source |-> u \in known, deal |-> DealState(u, d),
              evidence |-> evidenceOf[u], upload |-> confirmedFor[u]]
      /\ c.source = (u \in known) /\ c.evidence = evidenceOf[u] /\ c.upload = confirmedFor[u]
      /\ c.deal = DealState(u, d)
  BY DEF Captured
<1> HIDE DEF c
<1>2. {a \in assignments : a.deal = d /\ SourceOfRevision[a.revision] = u} = {}
  BY DEF LeavesNoTrace
<1>b. (<<d, u>> \in exactBundles) = FALSE /\ (u \in known) = FALSE
      /\ requested[u] = Nothing /\ evidenceOf[u] = {}
  BY DEF LeavesNoTrace
<1>3. DealState(u, d) = [exists |-> d \in registered, active |-> activeIn[d], company |-> CompanyOf[d] \in companies,
                   rows |-> {}, request |-> Nothing, memory |-> remembered[d], exact |-> FALSE]
  BY <1>2, <1>b DEF DealState
<1>a. /\ c.deal.exists = (d \in registered) /\ c.deal.active = activeIn[d]
      /\ c.deal.company = (CompanyOf[d] \in companies) /\ c.deal.rows = {}
      /\ c.deal.request = Nothing /\ c.deal.memory = remembered[d] /\ c.deal.exact = FALSE
  BY <1>1, <1>3
<1>4. u \notin ActiveRows(assignments, d)
  BY UploadFacts, ActiveFacts DEF LeavesNoTrace
<1>5. activeIn[d] = ActiveRows(assignments, d) /\ (d \in registered) = (activeIn[d] # {})
  BY InvGives DEF DealAgrees
<1>6. c.deal \in DealStateType
  BY <1>1, <1>3, InvGives DEF PromotionTypeOK, DealStateType
<1>7. c \in StateType
  BY <1>1, <1>6, InvGives DEF PromotionTypeOK, StateType
<1>8. remembered[d] # Nothing => confirmedFor[remembered[d]] # Nothing
  BY InvGives DEF RememberedAreKept, DealIsFree, HoldsDeal, InProgress, DealOf, PC
<1>9. c.deal.company /\ ~c.deal.exists =>
        \E e \in registered \ PendingUploads : CompanyOf[e] = CompanyOf[d]
  <2> SUFFICES ASSUME CompanyOf[d] \in companies, d \notin registered
               PROVE  \E e \in registered \ PendingUploads : CompanyOf[e] = CompanyOf[d]
    BY <1>a
  <2>1. d \in PendingUploads
    OBVIOUS
  <2>2. PICK e \in registered : CompanyOf[e] = CompanyOf[d]
    BY InvGives
  <2>3. e \notin PendingUploads
    BY <2>1, <2>2, PromotionAssumption
  <2>4. QED BY <2>2, <2>3
<1>10. d \in registered => CompanyOf[d] \in companies
  BY InvGives
<1>11. /\ c.deal.rows = {} /\ c.deal.request = Nothing /\ c.deal.exact = FALSE
       /\ c.deal.memory = remembered[d] /\ remembered[d] # u
       /\ c.deal.active = ActiveRows(assignments, d) \ {u}
       /\ c.deal.exists = (c.deal.active # {})
       /\ d \notin PendingUploads => c.deal.exists
       /\ c.deal.exists => c.deal.company
  BY <1>a, <1>4, <1>5, <1>10 DEF LeavesNoTrace
<1>12. c.source = FALSE /\ c.evidence = {} /\ c.upload = Nothing
  BY <1>1, <1>b
<1>13. QED BY <1>7, <1>8, <1>9, <1>11, <1>12 DEF c

LEMMA LockDealAndReviseKeeps ==
    ASSUME PromotionInv, NEW p \in Promotions, LockDealAndRevise(p)
    PROVE  PromotionInv'
<1>1. PC(p) = "source" /\ answered' = answered /\ UNCHANGED <<dealVars, evidenceOf, confirmedFor>>
  BY DEF LockDealAndRevise
<1>2. PICK u \in PendingUploads, d \in RegistryDeals : u = UploadOf(p) /\ d = DealOf(p)
  BY <1>1, InvGives, PlaceFacts
<1>3. DealIsFree(d) /\ LeavesNoTrace(u) /\ confirmedFor[u] = Nothing
      /\ (d \notin PendingUploads => d \in registered)
  BY <1>1, <1>2, InvGives DEF LockDealAndRevise, DealOf, PromotionOK, AskedOK
<1> DEFINE c == Captured(u, d)
           made == [promotion[p] EXCEPT !.before = c, !.expected = c, !.pc = "revised"]
           failed == [promotion[p] EXCEPT !.before = c, !.expected = c, !.pc = "threw", !.step = "source"]
<1>4. promotion[p] \in AskedType
  BY <1>1, InvGives, PlaceFacts
<1>5. /\ c \in StateType
      /\ c.source = FALSE /\ c.evidence = {} /\ c.upload = Nothing
      /\ c.deal.rows = {} /\ c.deal.request = Nothing /\ c.deal.exact = FALSE
      /\ c.deal.memory = remembered[d] /\ remembered[d] # u
      /\ remembered[d] # Nothing => confirmedFor[remembered[d]] # Nothing
      /\ c.deal.active = ActiveRows(assignments, d) \ {u}
      /\ c.deal.exists = (c.deal.active # {})
      /\ d \notin PendingUploads => c.deal.exists
      /\ c.deal.exists => c.deal.company
      /\ c.deal.company /\ ~c.deal.exists =>
            \E e \in registered \ PendingUploads : CompanyOf[e] = CompanyOf[d]
  BY <1>3, CapturedWell
<1>6. \/ GoesOn(p, made) /\ known' = known \cup {u} /\ throws' = throws
      \/ GoesOn(p, failed) /\ known' = known /\ throws' = throws + 1
  BY <1>2 DEF LockDealAndRevise, UploadOf, DealOf
<1> HIDE DEF c
<1>7. /\ made \in GoingType /\ made.pc = "revised" /\ made.step = "none"
      /\ failed \in ThrewType /\ failed.pc = "threw" /\ failed.step = "source"
      /\ made.upload = u /\ made.deal = d /\ made.before = c /\ made.expected = c
      /\ failed.upload = u /\ failed.deal = d /\ failed.before = c /\ failed.expected = c
  BY <1>2, <1>4, <1>5 DEF AskedType, GoingType, ThrewType, StepNames, UploadOf, DealOf
<1> HIDE DEF made, failed
<1>8. PICK record \in {made, failed} :
        /\ GoesOn(p, record)
        /\ known' = IF record = made THEN known \cup {u} ELSE known
        /\ throws' = throws \/ throws' = throws + 1
  BY <1>6, <1>7
<1>9. /\ record \in GoingType \cup ThrewType
      /\ record.upload = u /\ record.deal = d /\ record.before = c /\ record.expected = c
      /\ (record = made /\ record.pc = "revised" /\ record.step = "none")
         \/ (record = failed /\ record # made /\ record.pc = "threw" /\ record.step = "source")
  BY <1>7, <1>8
<1>10. promotion'[p] = record
  BY <1>8, <1>9, InvGives, PlacesStay
<1>11. /\ PC(p)' = record.pc /\ UploadOf(p)' = u /\ DealOf(p)' = d /\ InProgress(p)' /\ MayFail(p)'
       /\ ~HasAssignment(p)' /\ ~HasEvidence(p)' /\ HasRevision(p)' = (record = made)
       /\ promotion'[p].before = c /\ promotion'[p].expected = c
  BY <1>9, <1>10 DEF PC, UploadOf, DealOf, InProgress, MayFail, HasAssignment, HasEvidence, HasRevision
<1>12. /\ registered' = registered /\ activeIn' = activeIn /\ companies' = companies
       /\ assignments' = assignments /\ requested' = requested /\ remembered' = remembered
       /\ exactBundles' = exactBundles /\ evidenceOf' = evidenceOf /\ confirmedFor' = confirmedFor
  BY <1>1 DEF dealVars
<1>13. BeforeOK(p)'
  BY <1>5, <1>11, <1>12 DEF BeforeOK
<1>14. StageOK(p)'
  <2>1. (u \in known') = (record = made)
    BY <1>3, <1>8 DEF LeavesNoTrace
  <2>2. NotAssigned(u)'
    BY <1>3, <1>12 DEF LeavesNoTrace, NotAssigned, RowsOfSource
  <2>3. evidenceOf'[u] = {} /\ confirmedFor'[u] = Nothing
    BY <1>3, <1>12 DEF LeavesNoTrace
  <2>4. PC(p)' # "marked" /\ ~(PC(p)' = "threw" /\ promotion'[p].step = "evidence")
    BY <1>9, <1>10, <1>11
  <2>5. QED BY <1>11, <2>1, <2>2, <2>3, <2>4 DEF StageOK
<1>15. ExpectedOK(p)'
  <2>1. PC(p)' # "marked" /\ ~(PC(p)' = "threw" /\ promotion'[p].step = "upload")
        /\ (HasRevision(p)' => PC(p)' = "revised")
    BY <1>9, <1>10, <1>11
  <2>2. QED BY <1>5, <1>11, <2>1 DEF ExpectedOK
<1>16. PromotionOK(p)'
  BY <1>11, <1>13, <1>14, <1>15, <1>9 DEF PromotionOK
<1>17. PromotionTypeOK'
  BY <1>1, <1>8, <1>12, UploadFacts, InvGives DEF PromotionTypeOK
<1>18. known' \subseteq known \cup {u} /\ known \subseteq known' /\ \A v : v # u => (v \in known') = (v \in known)
  BY <1>8
<1>19. Enclosed(u, d)
  <2>1. \A v \in PendingUploads : v # u => SameUpload(v)
    BY <1>12, <1>18 DEF SameUpload, RowsOfSource
  <2>2. \A e \in RegistryDeals : SameDeal(e)
    BY <1>12, InvGives DEF SameDeal
  <2>3. QED BY <2>1, <2>2, <1>12, <1>18 DEF Enclosed, NothingLost, RowsPersist
<1>20. DealsAgreeAfter
  BY <1>12, <1>18, InvGives DEF DealsAgreeAfter, DealAgrees
<1>21. record \notin AskedType /\ PC(p) # "idle" /\ remembered' = remembered
  BY <1>1, <1>9, <1>12 DEF AskedType
<1>22. QED BY <1>1, <1>2, <1>3, <1>8, <1>9, <1>16, <1>17, <1>19, <1>20, <1>21, OwnStep

Steps == {"source", "deal", "evidence", "upload"}

LEMMA CapturedAfterFacts ==
    ASSUME PromotionTypeOK, NEW p \in Promotions, NEW u \in PendingUploads, NEW d \in RegistryDeals,
           u = UploadOf(p), d = DealOf(p), promotion[p].expected \in StateType, NEW step \in Steps
    PROVE  LET c == CapturedAfter(p, step)
               e == promotion[p].expected IN
           /\ c \in StateType
           /\ c.source = IF step = "source" THEN u \in known ELSE e.source
           /\ c.deal = IF step = "deal" THEN DealState(u, d) ELSE e.deal
           /\ c.evidence = IF step = "evidence" THEN evidenceOf[u] ELSE e.evidence
           /\ c.upload = IF step = "upload" THEN confirmedFor[u] ELSE e.upload
<1> DEFINE c == CapturedAfter(p, step)
           e == promotion[p].expected
           now == Captured(u, d)
<1>1. {a \in assignments : a.deal = d /\ SourceOfRevision[a.revision] = u} \subseteq RowType
  BY DEF PromotionTypeOK
<1>2. DealState(u, d) \in DealStateType
  BY <1>1, UploadFacts DEF DealState, DealStateType, PromotionTypeOK
<1>3. /\ now \in StateType
      /\ now.source = (u \in known) /\ now.deal = DealState(u, d)
      /\ now.evidence = evidenceOf[u] /\ now.upload = confirmedFor[u]
  BY <1>2 DEF Captured, StateType, PromotionTypeOK
<1>4. c = [e EXCEPT ![step] = now[step]]
  BY DEF CapturedAfter, UploadOf, DealOf
<1> HIDE DEF c, e, now
<1>5. e \in StateType
  BY DEF e
<1>6. CASE step = "source"
  <2>1. c = [e EXCEPT !.source = now.source]
    BY <1>4, <1>6
  <2>2. QED BY <2>1, <1>3, <1>5, <1>6 DEF StateType, c, e
<1>7. CASE step = "deal"
  <2>1. c = [e EXCEPT !.deal = now.deal]
    BY <1>4, <1>7
  <2>2. QED BY <2>1, <1>3, <1>5, <1>7 DEF StateType, c, e
<1>8. CASE step = "evidence"
  <2>1. c = [e EXCEPT !.evidence = now.evidence]
    BY <1>4, <1>8
  <2>2. QED BY <2>1, <1>3, <1>5, <1>8 DEF StateType, c, e
<1>9. CASE step = "upload"
  <2>1. c = [e EXCEPT !.upload = now.upload]
    BY <1>4, <1>9
  <2>2. QED BY <2>1, <1>3, <1>5, <1>9 DEF StateType, c, e
<1>10. QED BY <1>6, <1>7, <1>8, <1>9 DEF Steps

\* A confirmation that has come so far.
LEMMA GoingFacts ==
    ASSUME PromotionInv, NEW p \in Promotions, MayFail(p)
    PROVE  /\ PC(p) # "idle" /\ PC(p) \notin {"confirm", "source", "marked"} /\ InProgress(p)
           /\ BeforeOK(p) /\ StageOK(p) /\ ExpectedOK(p)
           /\ promotion[p] \in GoingType \cup ThrewType
           /\ promotion[p].before \in StateType /\ promotion[p].expected \in StateType
           /\ \E u \in PendingUploads, d \in RegistryDeals : u = UploadOf(p) /\ d = DealOf(p)
<1>1. PC(p) # "idle" /\ PC(p) \notin {"confirm", "source", "marked"} /\ InProgress(p)
  BY DEF InProgress, MayFail
<1>2. QED BY <1>1, InvGives, PlaceFacts DEF PromotionOK

\* A step of one that throws and leaves the repositories as they are.
LEMMA ThrowKeeps ==
    ASSUME PromotionInv, NEW p \in Promotions, MayFail(p), NEW step \in Steps, NEW captured \in Steps,
           Throws(p, step, CapturedAfter(p, captured)), RepositoriesStay, answered' = answered,
           \/ PC(p) = "revised" /\ step = "deal" /\ captured = "source"
           \/ PC(p) = "evidenced" /\ step = "upload" /\ captured = "evidence"
    PROVE  PromotionInv'
<1>1. PICK u \in PendingUploads, d \in RegistryDeals : u = UploadOf(p) /\ d = DealOf(p)
  BY GoingFacts
<1>2. /\ PC(p) # "idle" /\ InProgress(p) /\ BeforeOK(p) /\ StageOK(p) /\ ExpectedOK(p)
      /\ promotion[p] \in GoingType \cup ThrewType
      /\ promotion[p].before \in StateType /\ promotion[p].expected \in StateType
  BY GoingFacts
<1> DEFINE c == CapturedAfter(p, captured)
           e == promotion[p].expected
           record == [promotion[p] EXCEPT !.pc = "threw", !.step = step, !.expected = c]
<1>3. /\ c \in StateType
      /\ c.source = IF captured = "source" THEN u \in known ELSE e.source
      /\ c.deal = IF captured = "deal" THEN DealState(u, d) ELSE e.deal
      /\ c.evidence = IF captured = "evidence" THEN evidenceOf[u] ELSE e.evidence
      /\ c.upload = IF captured = "upload" THEN confirmedFor[u] ELSE e.upload
  BY <1>1, <1>2, InvGives, CapturedAfterFacts
<1>4. GoesOn(p, record) /\ throws' = throws + 1
  BY DEF Throws
<1> HIDE DEF c
<1>5. /\ record \in ThrewType /\ record.pc = "threw" /\ record.step = step
      /\ record.upload = u /\ record.deal = d /\ record.before = promotion[p].before /\ record.expected = c
  BY <1>1, <1>2, <1>3 DEF GoingType, ThrewType, StepNames, Steps, UploadOf, DealOf
<1> HIDE DEF record
<1>6. promotion'[p] = record
  BY <1>4, <1>5, InvGives, PlacesStay
<1>7. /\ PC(p)' = "threw" /\ UploadOf(p)' = u /\ DealOf(p)' = d /\ MayFail(p)'
      /\ promotion'[p].step = step
      /\ promotion'[p].before = promotion[p].before /\ promotion'[p].expected = c
      /\ HasAssignment(p)' = HasAssignment(p) /\ HasEvidence(p)' = HasEvidence(p)
      /\ HasRevision(p)' = TRUE /\ HasRevision(p) = TRUE
      /\ HasAssignment(p) = (captured = "evidence") /\ HasEvidence(p) = (captured = "evidence")
  BY <1>5, <1>6 DEF PC, UploadOf, DealOf, MayFail, HasAssignment, HasEvidence, HasRevision
<1>8. /\ known' = known /\ evidenceOf' = evidenceOf /\ confirmedFor' = confirmedFor
      /\ registered' = registered /\ activeIn' = activeIn /\ companies' = companies
      /\ assignments' = assignments /\ requested' = requested /\ remembered' = remembered
      /\ exactBundles' = exactBundles
  BY DEF RepositoriesStay, dealVars
<1>9. BeforeOK(p)'
  BY <1>1, <1>2, <1>7, <1>8 DEF BeforeOK
<1>10. StageOK(p)'
  <2>1. NotAssigned(u)' = NotAssigned(u)
    BY <1>8 DEF NotAssigned, RowsOfSource
  <2>2. AssignedOnly(u, d)' = AssignedOnly(u, d)
    BY <1>8 DEF AssignedOnly, RowsOfSource, LiveRow
  <2>3. step # "evidence" /\ PC(p) # "marked" /\ PC(p) # "threw"
    OBVIOUS
  <2>4. /\ (u \in known) = HasRevision(p)
        /\ IF HasAssignment(p) THEN AssignedOnly(u, d) ELSE NotAssigned(u)
        /\ HasEvidence(p) => evidenceOf[u] = (1..ItemCount) \X {d}
        /\ ~HasEvidence(p) => evidenceOf[u] = {}
        /\ confirmedFor[u] = Nothing
    BY <1>1, <1>2, <2>3 DEF StageOK
  <2>5. QED BY <1>7, <1>8, <2>1, <2>2, <2>3, <2>4 DEF StageOK
<1>11. ExpectedOK(p)'
  <2>1. (u \in known) = TRUE
    BY <1>1, <1>2, <1>7 DEF StageOK
  <2>2. DealState(u, d)' = DealState(u, d)
    BY <1>8 DEF DealState
  <2>3. CASE captured = "source"
    BY <1>1, <1>2, <1>3, <1>7, <1>8, <2>1, <2>2, <2>3 DEF ExpectedOK
  <2>4. CASE captured = "evidence"
    BY <1>1, <1>2, <1>3, <1>7, <1>8, <2>1, <2>2, <2>4 DEF ExpectedOK
  <2>5. QED BY <2>3, <2>4
<1>12. PromotionOK(p)'
  BY <1>7, <1>9, <1>10, <1>11 DEF PromotionOK
<1>13. PromotionTypeOK'
  BY <1>4, InvGives, StayingTyped DEF PromotionTypeOK
<1>14. Enclosed(u, d) /\ DealsAgreeAfter
  BY StayingEncloses
<1>15. record \notin AskedType
  BY <1>5 DEF AskedType
<1>16. QED BY <1>1, <1>2, <1>4, <1>5, <1>8, <1>12, <1>13, <1>14, <1>15, OwnStep

-----------------------------------------------------------------------------
(* Steps that assign. *)

LEMMA ConfirmedDeals ==
    ASSUME PromotionInv, NEW q \in AllRequests, NEW d \in RegistryDeals, NEW r \in AllRevisions,
           requested[q] = Nothing, ConfirmAssignment(q, d, r),
           known' = known, r \in known, evidenceOf' = evidenceOf, confirmedFor' = confirmedFor,
           answered' \subseteq RegistryDeals \X AllRevisions, throws' \in Nat
    PROVE  /\ ConfirmsWell(q, d, r) /\ PromotionTypeOK'
           /\ registered' = registered \cup {d} /\ companies' = companies \cup {CompanyOf[d]}
           /\ activeIn' = [activeIn EXCEPT ![d] = ActiveRows(assignments', d)]
           /\ remembered' = IF q \in PendingUploads THEN [remembered EXCEPT ![d] = q] ELSE remembered
           /\ exactBundles' = exactBundles \cup {<<d, r>>}
           /\ DealsAgreeAfter /\ RowsPersist /\ NothingLost
           /\ \A e \in RegistryDeals : e # d => SameDeal(e)
<1>1. ConfirmsWell(q, d, r)
  BY ConfirmingWell, InvGives DEF PromotionTypeOK
<1>2. /\ registered' = registered \cup {d} /\ companies' = companies \cup {CompanyOf[d]}
      /\ activeIn' = [activeIn EXCEPT ![d] = ActiveRows(assignments', d)]
      /\ remembered' = IF q \in PendingUploads THEN [remembered EXCEPT ![d] = q] ELSE remembered
      /\ exactBundles' = exactBundles \cup {<<d, r>>}
  BY DEF ConfirmAssignment
<1>3. activeIn \in [RegistryDeals -> SUBSET AllRevisions]
  BY InvGives DEF PromotionTypeOK
<1>4. ActiveRows(assignments', d) \subseteq AllRevisions
  BY <1>1 DEF ConfirmsWell, ActiveRows, RowType
<1>5. PromotionTypeOK'
  BY <1>1, <1>2, <1>3, <1>4, InvGives DEF PromotionTypeOK, ConfirmsWell
<1>6. ASSUME NEW e \in RegistryDeals, e # d
      PROVE  SameDeal(e)
  <2>1. ActiveRows(assignments', e) = ActiveRows(assignments, e)
    BY <1>1, <1>6 DEF ConfirmsWell
  <2>2. activeIn'[e] = activeIn[e] /\ remembered'[e] = remembered[e]
    BY <1>2, <1>3, <1>6, InvGives DEF PromotionTypeOK
  <2>3. (e \in registered') = (e \in registered)
    BY <1>2, <1>6
  <2>4. e \in registered => CompanyOf[e] \in companies'
    BY <1>2, InvGives
  <2>5. QED BY <2>1, <2>2, <2>3, <2>4 DEF SameDeal
<1>7. ASSUME NEW e \in RegistryDeals PROVE DealAgrees(e)'
  <2>1. CASE e = d
    <3>1. activeIn'[d] = ActiveRows(assignments', d) /\ d \in registered' /\ r \in activeIn'[d]
      BY <1>1, <1>2, <1>3 DEF ConfirmsWell
    <3>2. QED BY <2>1, <3>1 DEF DealAgrees
  <2>2. CASE e # d
    BY <2>2, <1>6, InvGives DEF DealAgrees, SameDeal
  <2>3. QED BY <2>1, <2>2
<1>8. \A a \in assignments' : a.revision \in known'
  BY <1>1, InvGives DEF ConfirmsWell
<1>9. companies' = {CompanyOf[e] : e \in registered'}
  BY <1>2, InvGives
<1>10. RowsPersist /\ NothingLost
  BY <1>1, <1>2 DEF RowsPersist, NothingLost, ConfirmsWell
<1>11. QED BY <1>1, <1>2, <1>5, <1>6, <1>7, <1>8, <1>9, <1>10 DEF DealsAgreeAfter

LEMMA AssignPromotedKeeps ==
    ASSUME PromotionInv, NEW p \in Promotions, AssignPromoted(p)
    PROVE  PromotionInv'
<1>1. /\ PC(p) = "revised" /\ known' = known /\ evidenceOf' = evidenceOf
      /\ confirmedFor' = confirmedFor /\ answered' = answered
  BY DEF AssignPromoted
<1>2. MayFail(p) /\ InProgress(p)
  BY <1>1 DEF MayFail, InProgress
<1>3. CASE Throws(p, "deal", CapturedAfter(p, "source")) /\ UNCHANGED dealVars
  BY <1>1, <1>2, <1>3, ThrowKeeps DEF Steps, RepositoriesStay
<1>4. CASE /\ PassesTo(p, "assigned", CapturedAfter(p, "source"))
           /\ ConfirmAssignment(promotion[p].upload, promotion[p].deal, promotion[p].upload)
  <2>1. PICK u \in PendingUploads, d \in RegistryDeals : u = UploadOf(p) /\ d = DealOf(p)
    BY <1>2, GoingFacts
  <2>2. /\ PC(p) # "idle" /\ BeforeOK(p) /\ StageOK(p) /\ ExpectedOK(p)
        /\ promotion[p] \in GoingType
        /\ promotion[p].before \in StateType /\ promotion[p].expected \in StateType
    BY <1>1, <1>2, GoingFacts, PlaceFacts, InvGives
  <2> DEFINE c == CapturedAfter(p, "source")
             e == promotion[p].expected
             record == [promotion[p] EXCEPT !.pc = "assigned", !.expected = c]
  <2>3. /\ c \in StateType /\ c.source = (u \in known)
        /\ c.deal = e.deal /\ c.evidence = e.evidence /\ c.upload = e.upload
    BY <2>1, <2>2, InvGives, CapturedAfterFacts DEF Steps
  <2>4. GoesOn(p, record) /\ throws' = throws /\ ConfirmAssignment(u, d, u)
    BY <1>4, <2>1 DEF PassesTo, UploadOf, DealOf
  <2> HIDE DEF c
  <2>5. /\ record \in GoingType /\ record.pc = "assigned" /\ record.step = "none"
        /\ record.upload = u /\ record.deal = d /\ record.before = promotion[p].before /\ record.expected = c
    BY <2>1, <2>2, <2>3 DEF GoingType, UploadOf, DealOf
  <2> HIDE DEF record
  <2>6. promotion'[p] = record
    BY <2>4, <2>5, InvGives, PlacesStay
  <2>7. /\ PC(p)' = "assigned" /\ UploadOf(p)' = u /\ DealOf(p)' = d /\ MayFail(p)'
        /\ promotion'[p].before = promotion[p].before /\ promotion'[p].expected = c
        /\ HasAssignment(p)' = TRUE /\ HasEvidence(p)' = FALSE /\ HasRevision(p)' = TRUE
        /\ HasAssignment(p) = FALSE /\ HasEvidence(p) = FALSE /\ HasRevision(p) = TRUE
    BY <1>1, <2>5, <2>6 DEF PC, UploadOf, DealOf, MayFail, HasAssignment, HasEvidence, HasRevision
  <2>8. /\ NotAssigned(u) /\ (u \in known) = TRUE /\ evidenceOf[u] = {} /\ confirmedFor[u] = Nothing
    BY <1>1, <2>1, <2>2, <2>7 DEF StageOK
  <2>9. /\ RowsOfSource(u) = {} /\ requested[u] = Nothing
        /\ \A x \in RegistryDeals : remembered[x] # u /\ <<x, u>> \notin exactBundles
        /\ SourceOfRevision[u] = u /\ u \in AllRequests /\ u \in AllRevisions
    BY <2>8, UploadFacts DEF NotAssigned
  <2>10. answered' \subseteq RegistryDeals \X AllRevisions /\ throws' \in Nat
    BY <1>1, <2>4, InvGives DEF PromotionTypeOK
  <2>11. /\ ConfirmsWell(u, d, u) /\ PromotionTypeOK'
         /\ registered' = registered \cup {d} /\ companies' = companies \cup {CompanyOf[d]}
         /\ remembered' = [remembered EXCEPT ![d] = u]
         /\ exactBundles' = exactBundles \cup {<<d, u>>}
         /\ DealsAgreeAfter /\ RowsPersist /\ NothingLost
         /\ \A x \in RegistryDeals : x # d => SameDeal(x)
    BY <1>1, <2>4, <2>8, <2>9, <2>10, ConfirmedDeals
  <2>12. remembered \in [RegistryDeals -> PendingUploads \cup {Nothing}]
    BY InvGives DEF PromotionTypeOK
  <2>13. /\ \A x \in AllRequests : x # u => requested'[x] = requested[x]
         /\ \A s : s # u => RowsOfSource(s)' = RowsOfSource(s)
         /\ RowsOfSource(u)' = {LiveRow(u, d, u)} /\ requested'[u] = u
         /\ ActiveRows(assignments', d) = ActiveRows(assignments, d) \cup {u}
    BY <2>9, <2>11 DEF ConfirmsWell
  <2>14. BeforeOK(p)'
    <3> DEFINE b == promotion[p].before
    <3>1. /\ b.source = FALSE /\ b.evidence = {} /\ b.upload = Nothing
          /\ b.deal.rows = {} /\ b.deal.request = Nothing /\ b.deal.exact = FALSE
          /\ b.deal.memory # u
          /\ b.deal.memory # Nothing => confirmedFor[b.deal.memory] # Nothing
          /\ b.deal.active = ActiveRows(assignments, d) \ {u}
          /\ b.deal.exists = (b.deal.active # {})
          /\ d \notin PendingUploads => b.deal.exists
          /\ b.deal.exists => b.deal.company
          /\ b.deal.company /\ ~b.deal.exists =>
                \E x \in registered \ PendingUploads : CompanyOf[x] = CompanyOf[d]
      BY <2>1, <2>2 DEF BeforeOK
    <3> HIDE DEF b
    <3>2. b.deal.active = ActiveRows(assignments', d) \ {u}
      BY <3>1, <2>13
    <3>3. b.deal.company /\ ~b.deal.exists =>
                \E x \in registered' \ PendingUploads : CompanyOf[x] = CompanyOf[d]
      BY <3>1, <2>11
    <3>4. promotion'[p].before = b
      BY <2>7 DEF b
    <3>5. QED BY <1>1, <2>7, <3>1, <3>2, <3>3, <3>4 DEF BeforeOK
  <2>15. StageOK(p)'
    <3>1. \A x \in RegistryDeals : (remembered'[x] = u) = (x = d)
      BY <2>9, <2>11, <2>12
    <3>2. \A x \in RegistryDeals : (<<x, u>> \in exactBundles') = (x = d)
      BY <2>9, <2>11
    <3>3. AssignedOnly(u, d)'
      BY <2>13, <3>1, <3>2 DEF AssignedOnly, LiveRow
    <3>4. (u \in known') = TRUE /\ evidenceOf'[u] = {} /\ confirmedFor'[u] = Nothing
      BY <1>1, <2>8
    <3>5. QED BY <2>7, <3>3, <3>4 DEF StageOK
  <2>16. ExpectedOK(p)'
    <3>1. e.upload = Nothing /\ e.evidence = {} /\ e.deal = promotion[p].before.deal
      BY <1>1, <2>1, <2>2, <2>7 DEF ExpectedOK
    <3>2. c.upload = Nothing /\ c.evidence = {} /\ c.deal = promotion[p].before.deal /\ c.source = TRUE
      BY <2>3, <2>8, <3>1
    <3>3. QED BY <2>7, <3>2 DEF ExpectedOK
  <2>17. PromotionOK(p)'
    BY <2>7, <2>14, <2>15, <2>16 DEF PromotionOK
  <2>18. ASSUME NEW v \in PendingUploads, v # u PROVE SameUpload(v)
    <3>1. requested'[v] = requested[v] /\ RowsOfSource(v)' = RowsOfSource(v)
      BY <2>13, <2>18, UploadFacts
    <3>2. \A x \in RegistryDeals : remembered'[x] = v => remembered[x] = v
      BY <2>11, <2>12, <2>18
    <3>3. \A x \in RegistryDeals : (<<x, v>> \in exactBundles') = (<<x, v>> \in exactBundles)
      BY <2>11, <2>18
    <3>4. QED BY <1>1, <3>1, <3>2, <3>3 DEF SameUpload
  <2>19. Enclosed(u, d)
    BY <1>1, <2>11, <2>18 DEF Enclosed
  <2>20. \A x \in RegistryDeals : remembered'[x] = remembered[x] \/ (x = d /\ remembered'[x] = u)
    BY <2>11, <2>12
  <2>21. record \notin AskedType
    BY <2>5 DEF AskedType
  <2>22. QED BY <1>1, <1>2, <2>1, <2>2, <2>4, <2>5, <2>11, <2>17, <2>19, <2>20, <2>21, OwnStep
<1>5. QED BY <1>3, <1>4 DEF AssignPromoted

-----------------------------------------------------------------------------
(* Steps that put evidence and mark the row. *)

\* The registries stay; of the rows of uploads only those of u change.
LEMMA RegistriesStay ==
    ASSUME PromotionInv, NEW u \in PendingUploads, NEW d \in RegistryDeals,
           UNCHANGED <<known, dealVars>>,
           \A v \in PendingUploads : v # u => evidenceOf'[v] = evidenceOf[v] /\ confirmedFor'[v] = confirmedFor[v],
           confirmedFor[u] = Nothing \/ confirmedFor'[u] # Nothing
    PROVE  /\ Enclosed(u, d) /\ DealsAgreeAfter
           /\ known' = known /\ registered' = registered /\ assignments' = assignments
           /\ remembered' = remembered /\ requested' = requested /\ exactBundles' = exactBundles
           /\ activeIn' = activeIn /\ companies' = companies
           /\ DealState(u, d)' = DealState(u, d)
           /\ AssignedOnly(u, d)' = AssignedOnly(u, d)
<1>1. /\ known' = known /\ registered' = registered /\ activeIn' = activeIn /\ companies' = companies
      /\ assignments' = assignments /\ requested' = requested /\ remembered' = remembered
      /\ exactBundles' = exactBundles
  BY DEF dealVars
<1>2. \A v \in PendingUploads : v # u => SameUpload(v)
  BY <1>1 DEF SameUpload, RowsOfSource
<1>3. \A e \in RegistryDeals : SameDeal(e)
  BY <1>1, InvGives DEF SameDeal
<1>4. NothingLost /\ RowsPersist
  BY <1>1 DEF NothingLost, RowsPersist
<1>5. DealsAgreeAfter
  BY <1>1, InvGives DEF DealsAgreeAfter, DealAgrees
<1>6. DealState(u, d)' = DealState(u, d)
  BY <1>1 DEF DealState
<1>7. AssignedOnly(u, d)' = AssignedOnly(u, d)
  BY <1>1 DEF AssignedOnly, RowsOfSource, LiveRow
<1>8. QED BY <1>1, <1>2, <1>3, <1>4, <1>5, <1>6, <1>7 DEF Enclosed

LEMMA PutEvidenceKeeps ==
    ASSUME PromotionInv, NEW p \in Promotions, PutEvidence(p)
    PROVE  PromotionInv'
<1>1. /\ PC(p) = "assigned" /\ UNCHANGED <<known, dealVars>>
      /\ confirmedFor' = confirmedFor /\ answered' = answered
  BY DEF PutEvidence
<1>2. MayFail(p) /\ InProgress(p)
  BY <1>1 DEF MayFail, InProgress
<1>3. PICK u \in PendingUploads, d \in RegistryDeals : u = UploadOf(p) /\ d = DealOf(p)
  BY <1>2, GoingFacts
<1>4. /\ PC(p) # "idle" /\ BeforeOK(p) /\ StageOK(p) /\ ExpectedOK(p)
      /\ promotion[p] \in GoingType
      /\ promotion[p].before \in StateType /\ promotion[p].expected \in StateType
  BY <1>1, <1>2, GoingFacts, PlaceFacts, InvGives
<1> DEFINE c == CapturedAfter(p, "deal")
           e == promotion[p].expected
           put == [promotion[p] EXCEPT !.pc = "evidenced", !.expected = c]
           failed == [promotion[p] EXCEPT !.pc = "threw", !.step = "evidence", !.expected = c]
<1>5. /\ c \in StateType /\ c.source = e.source /\ c.deal = DealState(u, d)
      /\ c.evidence = e.evidence /\ c.upload = e.upload
  BY <1>3, <1>4, InvGives, CapturedAfterFacts DEF Steps
<1>6. PICK record \in {put, failed}, n \in 0..ItemCount :
        /\ GoesOn(p, record) /\ (throws' = throws \/ throws' = throws + 1)
        /\ record = put => n = ItemCount
        /\ evidenceOf' = [evidenceOf EXCEPT ![u] = @ \cup ((1..n) \X {d})]
  <2>1. ItemCount \in 0..ItemCount /\ 0..(ItemCount - 1) \subseteq 0..ItemCount
    BY PromotionAssumption
  <2>2. CASE PassesTo(p, "evidenced", c) /\ PutItems(p, ItemCount)
    BY <2>1, <2>2, <1>3 DEF PassesTo, PutItems, UploadOf, DealOf
  <2>3. CASE \E n \in 0..(ItemCount - 1) : Throws(p, "evidence", c) /\ PutItems(p, n)
    <3>1. PICK n \in 0..(ItemCount - 1) : Throws(p, "evidence", c) /\ PutItems(p, n)
      BY <2>3
    <3>2. failed.pc = "threw" /\ put.pc = "evidenced"
      BY <1>4 DEF GoingType
    <3>3. GoesOn(p, failed) /\ throws' = throws + 1
      BY <3>1 DEF Throws
    <3>4. evidenceOf' = [evidenceOf EXCEPT ![u] = @ \cup ((1..n) \X {d})]
      BY <3>1, <1>3 DEF PutItems, UploadOf, DealOf
    <3>5. n \in 0..ItemCount
      BY <3>1, <2>1
    <3> HIDE DEF put, failed
    <3>6. failed # put
      BY <3>2
    <3>7. QED BY <3>3, <3>4, <3>5, <3>6
  <2>4. QED BY <2>2, <2>3 DEF PutEvidence
<1> HIDE DEF c
<1>7. /\ record \in GoingType \cup ThrewType
      /\ record.upload = u /\ record.deal = d /\ record.before = promotion[p].before /\ record.expected = c
      /\ \/ record = put /\ record.pc = "evidenced" /\ record.step = "none"
         \/ record.pc = "threw" /\ record.step = "evidence"
  BY <1>3, <1>4, <1>5, <1>6 DEF GoingType, ThrewType, StepNames, UploadOf, DealOf
<1> HIDE DEF put, failed
<1>8. promotion'[p] = record
  BY <1>6, <1>7, InvGives, PlacesStay
<1>9. /\ UploadOf(p)' = u /\ DealOf(p)' = d /\ MayFail(p)' /\ PC(p)' = record.pc
      /\ promotion'[p].before = promotion[p].before /\ promotion'[p].expected = c
      /\ promotion'[p].step = record.step
      /\ HasAssignment(p)' = TRUE /\ HasRevision(p)' = TRUE /\ HasEvidence(p)' = (record.pc = "evidenced")
      /\ HasAssignment(p) = TRUE /\ HasRevision(p) = TRUE /\ HasEvidence(p) = FALSE
  BY <1>1, <1>7, <1>8 DEF PC, UploadOf, DealOf, MayFail, HasAssignment, HasEvidence, HasRevision
<1>10. /\ AssignedOnly(u, d) /\ (u \in known) = TRUE /\ evidenceOf[u] = {} /\ confirmedFor[u] = Nothing
  BY <1>1, <1>3, <1>4, <1>9 DEF StageOK
<1>11. evidenceOf \in [PendingUploads -> SUBSET ItemType]
  BY InvGives DEF PromotionTypeOK
<1>12. /\ \A v \in PendingUploads : v # u => evidenceOf'[v] = evidenceOf[v]
       /\ evidenceOf'[u] = (1..n) \X {d}
  BY <1>6, <1>10, <1>11
<1>13. (1..n) \subseteq 1..ItemCount
  BY <1>6, PromotionAssumption
<1>14. (1..n) \X {d} \subseteq (1..ItemCount) \X {d}
  BY <1>13
<1>15. /\ Enclosed(u, d) /\ DealsAgreeAfter
       /\ known' = known /\ registered' = registered /\ assignments' = assignments
       /\ remembered' = remembered /\ requested' = requested /\ exactBundles' = exactBundles
       /\ activeIn' = activeIn /\ companies' = companies
       /\ DealState(u, d)' = DealState(u, d) /\ AssignedOnly(u, d)' = AssignedOnly(u, d)
  BY <1>1, <1>10, <1>12, RegistriesStay
<1>16. BeforeOK(p)'
  BY <1>1, <1>3, <1>4, <1>9, <1>15 DEF BeforeOK
<1>17. StageOK(p)'
  <2>1. record.pc = "evidenced" => evidenceOf'[u] = (1..ItemCount) \X {d}
    BY <1>6, <1>7, <1>12
  <2>2. evidenceOf'[u] \subseteq (1..ItemCount) \X {d}
    BY <1>12, <1>14
  <2>3. record.pc = "threw" => record.step = "evidence"
    BY <1>7
  <2>4. record.pc = "evidenced" \/ record.pc = "threw"
    BY <1>7
  <2>5. AssignedOnly(u, d)' /\ (u \in known') = TRUE /\ confirmedFor'[u] = Nothing
    BY <1>1, <1>10, <1>15
  <2>6. QED BY <1>9, <2>1, <2>2, <2>3, <2>4, <2>5 DEF StageOK
<1>18. ExpectedOK(p)'
  <2>1. e.upload = Nothing /\ e.evidence = {} /\ e.source = TRUE
    BY <1>1, <1>3, <1>4, <1>9 DEF ExpectedOK
  <2>2. c.upload = Nothing /\ c.evidence = {} /\ c.source = TRUE /\ c.deal = DealState(u, d)'
    BY <1>5, <1>15, <2>1
  <2>3. PC(p)' \notin {"marked", "revised", "assigned"} /\ ~(PC(p)' = "threw" /\ promotion'[p].step = "upload")
    BY <1>7, <1>9
  <2>4. QED BY <1>9, <2>2, <2>3 DEF ExpectedOK
<1>19. PromotionOK(p)'
  BY <1>9, <1>7, <1>16, <1>17, <1>18 DEF PromotionOK
<1>20. PromotionTypeOK'
  <2>1. (1..n) \X {d} \subseteq ItemType
    BY <1>14 DEF ItemType
  <2>2. evidenceOf' \in [PendingUploads -> SUBSET ItemType]
    BY <1>6, <1>11, <2>1
  <2>3. throws' \in Nat
    BY <1>6, InvGives DEF PromotionTypeOK
  <2>4. QED BY <1>1, <1>15, <2>2, <2>3, InvGives DEF PromotionTypeOK
<1>21. record \notin AskedType
  BY <1>7 DEF AskedType
<1>22. QED BY <1>1, <1>2, <1>3, <1>4, <1>6, <1>7, <1>15, <1>19, <1>20, <1>21, OwnStep

LEMMA MarkConfirmedKeeps ==
    ASSUME PromotionInv, NEW p \in Promotions, MarkConfirmed(p)
    PROVE  PromotionInv'
<1>1. /\ PC(p) = "evidenced" /\ UNCHANGED <<known, dealVars>>
      /\ evidenceOf' = evidenceOf /\ answered' = answered
  BY DEF MarkConfirmed
<1>2. MayFail(p) /\ InProgress(p)
  BY <1>1 DEF MayFail, InProgress
<1>3. CASE Throws(p, "upload", CapturedAfter(p, "evidence")) /\ UNCHANGED confirmedFor
  BY <1>1, <1>2, <1>3, ThrowKeeps DEF Steps, RepositoriesStay
<1>4. CASE /\ PassesTo(p, "marked", CapturedAfter(p, "evidence"))
           /\ confirmedFor' = [confirmedFor EXCEPT ![promotion[p].upload] = promotion[p].deal]
  <2>1. PICK u \in PendingUploads, d \in RegistryDeals : u = UploadOf(p) /\ d = DealOf(p)
    BY <1>2, GoingFacts
  <2>2. /\ PC(p) # "idle" /\ BeforeOK(p) /\ StageOK(p) /\ ExpectedOK(p)
        /\ promotion[p] \in GoingType
        /\ promotion[p].before \in StateType /\ promotion[p].expected \in StateType
    BY <1>1, <1>2, GoingFacts, PlaceFacts, InvGives
  <2> DEFINE c == CapturedAfter(p, "evidence")
             e == promotion[p].expected
             record == [promotion[p] EXCEPT !.pc = "marked", !.expected = c]
  <2>3. /\ c \in StateType /\ c.source = e.source /\ c.deal = e.deal
        /\ c.evidence = evidenceOf[u] /\ c.upload = e.upload
    BY <2>1, <2>2, InvGives, CapturedAfterFacts DEF Steps
  <2>4. GoesOn(p, record) /\ throws' = throws /\ confirmedFor' = [confirmedFor EXCEPT ![u] = d]
    BY <1>4, <2>1 DEF PassesTo, UploadOf, DealOf
  <2> HIDE DEF c
  <2>5. /\ record \in GoingType /\ record.pc = "marked" /\ record.step = "none"
        /\ record.upload = u /\ record.deal = d /\ record.before = promotion[p].before /\ record.expected = c
    BY <2>1, <2>2, <2>3 DEF GoingType, UploadOf, DealOf
  <2> HIDE DEF record
  <2>6. promotion'[p] = record
    BY <2>4, <2>5, InvGives, PlacesStay
  <2>7. /\ PC(p)' = "marked" /\ UploadOf(p)' = u /\ DealOf(p)' = d /\ ~MayFail(p)'
        /\ HasAssignment(p) = TRUE /\ HasEvidence(p) = TRUE /\ HasRevision(p) = TRUE
    BY <1>1, <2>5, <2>6 DEF PC, UploadOf, DealOf, MayFail, HasAssignment, HasEvidence, HasRevision
  <2>8. /\ AssignedOnly(u, d) /\ (u \in known) = TRUE
        /\ evidenceOf[u] = (1..ItemCount) \X {d} /\ confirmedFor[u] = Nothing
    BY <1>1, <2>1, <2>2, <2>7 DEF StageOK
  <2>9. confirmedFor \in [PendingUploads -> RegistryDeals \cup {Nothing}] /\ d # Nothing
    BY InvGives, PromotionAssumption DEF PromotionTypeOK
  <2>10. /\ \A v \in PendingUploads : v # u => confirmedFor'[v] = confirmedFor[v]
         /\ confirmedFor'[u] = d
         /\ \A v \in PendingUploads : confirmedFor[v] # Nothing => confirmedFor'[v] # Nothing
    BY <2>4, <2>9
  <2>11. /\ Enclosed(u, d) /\ DealsAgreeAfter
         /\ known' = known /\ registered' = registered /\ assignments' = assignments
         /\ remembered' = remembered /\ requested' = requested /\ exactBundles' = exactBundles
         /\ activeIn' = activeIn /\ companies' = companies
         /\ DealState(u, d)' = DealState(u, d) /\ AssignedOnly(u, d)' = AssignedOnly(u, d)
    BY <1>1, <2>8, <2>10, RegistriesStay
  <2>12. IsPromotedTo(u, d)'
    <3>1. LiveRow(u, d, u) \in assignments
      BY <2>8 DEF AssignedOnly, RowsOfSource
    <3>2. \E a \in assignments : a.request = u /\ a.deal = d /\ a.revision = u
      BY <3>1 DEF LiveRow
    <3>3. <<d, u>> \in exactBundles
      BY <2>8 DEF AssignedOnly
    <3>4. QED BY <1>1, <2>8, <2>11, <3>2, <3>3 DEF IsPromotedTo
  <2>16. PromotionOK(p)'
    BY <2>7, <2>10, <2>12 DEF PromotionOK
  <2>17. PromotionTypeOK'
    BY <1>1, <2>4, <2>9, <2>11, InvGives DEF PromotionTypeOK
  <2>18. record \notin AskedType
    BY <2>5 DEF AskedType
  <2>19. QED BY <1>1, <1>2, <2>1, <2>2, <2>4, <2>5, <2>11, <2>16, <2>17, <2>18, OwnStep
<1>5. QED BY <1>3, <1>4 DEF MarkConfirmed

-----------------------------------------------------------------------------
(* Steps that release the locks of a confirmation. *)

LEMMA ReleaseStep ==
    ASSUME PromotionInv, NEW p \in Promotions, NEW u \in PendingUploads, NEW d \in RegistryDeals,
           u = UploadOf(p), d = DealOf(p), InProgress(p), GoesOn(p, NoPromotion),
           \A v \in PendingUploads : v # u => SameUpload(v),
           \A e \in RegistryDeals : e # d => SameDeal(e),
           NothingLost, DealsAgreeAfter, PromotionTypeOK',
           LaterAreOfConfirmed', AnsweredAreConfirmed', RememberedAreKept',
           \A pair \in answered' : \E a \in assignments' : a.deal = pair[1] /\ a.revision = pair[2],
           IF confirmedFor'[u] = Nothing THEN LeavesNoTrace(u)' ELSE IsPromotedTo(u, confirmedFor[u])'
    PROVE  PromotionInv'
<1>1. /\ PlacesOK' /\ promotion'[p] = NoPromotion
      /\ \A r \in Promotions : r # p => promotion'[r] = promotion[r]
  BY PlacesStay, InvGives DEF IdleType
<1>2. PC(p)' = "idle" /\ PC(p) # "idle"
  BY <1>1 DEF NoPromotion, PC, InProgress
<1>3. Exclusive'
  BY <1>1, <1>2, InvGives, ExclusiveStays DEF PC
<1>4. ASSUME NEW r \in Promotions PROVE PromotionOK(r)'
  <2>1. CASE r = p
    BY <2>1, <1>2 DEF PromotionOK, MayFail
  <2>2. CASE r # p
    <3>1. promotion'[r] = promotion[r]
      BY <1>1, <2>2
    <3>2. PC(r) # "idle" => UploadOf(r) # u
      BY <1>2, <2>2, InvGives DEF Exclusive
    <3>3. InProgress(r) => DealOf(r) # d
      BY <2>2, InvGives DEF Exclusive
    <3>4. QED BY <3>1, <3>2, <3>3, OthersStay DEF Undisturbed
  <2>3. QED BY <2>1, <2>2
<1>5. ASSUME NEW v \in PendingUploads, UploadIsFree(v)'
      PROVE  IF confirmedFor'[v] = Nothing THEN LeavesNoTrace(v)' ELSE IsPromotedTo(v, confirmedFor[v])'
  <2>1. CASE v = u
    BY <2>1
  <2>2. CASE v # u
    <3>1. UploadIsFree(v)
      BY <1>1, <1>5, <2>2, FreeWasFree DEF HoldsUpload, UploadOf
    <3>2. QED BY <2>2, <3>1, FreeUploadStays DEF Undisturbed
  <2>3. QED BY <2>1, <2>2
<1>6. QED BY <1>1, <1>3, <1>4, <1>5 DEF PromotionInv, PromotionsAreWhole, DealsAgreeAfter

LEMMA AnswerPromotedKeeps ==
    ASSUME PromotionInv, NEW p \in Promotions, AnswerPromoted(p)
    PROVE  PromotionInv'
<1>1. /\ PC(p) = "marked" /\ RepositoriesStay /\ throws' = throws /\ GoesOn(p, NoPromotion)
  BY DEF AnswerPromoted, RepositoriesStay
<1>2. PC(p) # "idle" /\ InProgress(p)
  BY <1>1 DEF InProgress
<1>3. PICK u \in PendingUploads, d \in RegistryDeals : u = UploadOf(p) /\ d = DealOf(p)
  BY <1>2, InvGives, PlaceFacts
<1>4. confirmedFor[u] = d /\ IsPromotedTo(u, d) /\ d # Nothing /\ u \in AllRevisions
  BY <1>1, <1>3, InvGives, PromotionAssumption, UploadFacts DEF PromotionOK
<1>5. answered' = answered \cup {<<d, u>>}
  BY <1>3 DEF AnswerPromoted, UploadOf, DealOf
<1>6. /\ assignments' = assignments /\ remembered' = remembered /\ confirmedFor' = confirmedFor
  BY <1>1 DEF RepositoriesStay, dealVars
<1>7. /\ \A v \in PendingUploads : SameUpload(v)
      /\ \A e \in RegistryDeals : SameDeal(e)
      /\ NothingLost /\ LaterAreOfConfirmed' /\ IsPromotedTo(u, d)'
  BY <1>1, <1>4, Staying
<1>8. DealsAgreeAfter
  BY <1>1, StayingEncloses
<1>9. PromotionTypeOK'
  BY <1>1, <1>4, <1>5, InvGives, StayingTyped DEF PromotionTypeOK
<1>10. AnsweredAreConfirmed'
  BY <1>4, <1>5, <1>6, InvGives DEF AnsweredAreConfirmed
<1>11. \A pair \in answered' : \E a \in assignments' : a.deal = pair[1] /\ a.revision = pair[2]
  <2>1. \E a \in assignments : a.deal = d /\ a.revision = u
    BY <1>4 DEF IsPromotedTo
  <2>2. ASSUME NEW pair \in answered'
        PROVE  \E a \in assignments : a.deal = pair[1] /\ a.revision = pair[2]
    <3>1. CASE pair = <<d, u>>
      BY <3>1, <2>1
    <3>2. CASE pair \in answered
      BY <3>2, InvGives
    <3>3. QED BY <3>1, <3>2, <1>5
  <2>3. QED BY <2>2, <1>6
<1>12. RememberedAreKept'
  <2>1. \A r \in Promotions : r # p => promotion'[r] = promotion[r]
    BY <1>1 DEF GoesOn
  <2> SUFFICES ASSUME NEW e \in RegistryDeals, remembered'[e] # Nothing
               PROVE  \/ confirmedFor'[remembered'[e]] # Nothing
                      \/ \E r \in Promotions : InProgress(r)' /\ DealOf(r)' = e /\ UploadOf(r)' = remembered'[e]
    BY DEF RememberedAreKept
  <2>2. CASE confirmedFor[remembered[e]] # Nothing
    BY <2>2, <1>6
  <2>3. CASE \E r \in Promotions : InProgress(r) /\ DealOf(r) = e /\ UploadOf(r) = remembered[e]
    <3>1. PICK r \in Promotions : InProgress(r) /\ DealOf(r) = e /\ UploadOf(r) = remembered[e]
      BY <2>3
    <3>2. CASE r = p
      BY <3>1, <3>2, <1>3, <1>4, <1>6
    <3>3. CASE r # p
      <4>1. InProgress(r)' /\ DealOf(r)' = DealOf(r) /\ UploadOf(r)' = UploadOf(r)
        BY <3>1, <3>3, <2>1 DEF InProgress, PC, DealOf, UploadOf
      <4>2. QED BY <3>1, <4>1, <1>6
    <3>4. QED BY <3>2, <3>3
  <2>4. QED BY <2>2, <2>3, <1>6, InvGives DEF RememberedAreKept
<1>13. IF confirmedFor'[u] = Nothing THEN LeavesNoTrace(u)' ELSE IsPromotedTo(u, confirmedFor[u])'
  <2>1. confirmedFor'[u] = d
    BY <1>4, <1>6
  <2>2. IsPromotedTo(u, confirmedFor[u])'
    BY <1>7, <2>1
  <2>3. QED BY <1>4, <2>1, <2>2
<1>14. QED BY <1>1, <1>2, <1>3, <1>7, <1>8, <1>9, <1>10, <1>11, <1>12, <1>13, ReleaseStep

\* What a failed promotion expects agrees with what is there, up to a company that another
\* deal brought or took since.
LEMMA ExpectedAgrees ==
    ASSUME PromotionInv, NEW p \in Promotions, PC(p) = "threw",
           NEW u \in PendingUploads, NEW d \in RegistryDeals, u = UploadOf(p), d = DealOf(p)
    PROVE  LET c == CapturedAfter(p, promotion[p].step)
               b == promotion[p].before IN
           /\ c.source = (u \in known) /\ c.evidence = evidenceOf[u] /\ c.upload = Nothing
           /\ c.deal.rows = RowsOfSource(u) /\ c.deal.request = requested[u]
           /\ c.deal.memory = remembered[d] /\ c.deal.exact = (<<d, u>> \in exactBundles)
           /\ c.deal.exists = (d \in registered) /\ c.deal.active = activeIn[d]
           /\ \/ c.deal.company = (CompanyOf[d] \in companies)
              \/ b.deal.exists = (d \in registered)
<1>1. /\ BeforeOK(p) /\ StageOK(p) /\ ExpectedOK(p)
      /\ promotion[p].before \in StateType /\ promotion[p].expected \in StateType
  BY GoingFacts DEF MayFail
<1>2. promotion[p] \in ThrewType
  BY InvGives, PlaceFacts
<1> DEFINE step == promotion[p].step
           c == CapturedAfter(p, step)
           b == promotion[p].before
           e == promotion[p].expected
<1>3. step \in Steps
  BY <1>2 DEF ThrewType, StepNames, Steps
<1>4. /\ c.source = IF step = "source" THEN u \in known ELSE e.source
      /\ c.deal = IF step = "deal" THEN DealState(u, d) ELSE e.deal
      /\ c.evidence = IF step = "evidence" THEN evidenceOf[u] ELSE e.evidence
      /\ c.upload = IF step = "upload" THEN confirmedFor[u] ELSE e.upload
  BY <1>1, <1>3, InvGives, CapturedAfterFacts
<1>5. /\ DealState(u, d).exists = (d \in registered) /\ DealState(u, d).active = activeIn[d]
      /\ DealState(u, d).company = (CompanyOf[d] \in companies)
      /\ DealState(u, d).rows = {a \in assignments : a.deal = d /\ SourceOfRevision[a.revision] = u}
      /\ DealState(u, d).request = requested[u] /\ DealState(u, d).memory = remembered[d]
      /\ DealState(u, d).exact = (<<d, u>> \in exactBundles)
  BY DEF DealState
<1>6. activeIn[d] = ActiveRows(assignments, d) /\ (d \in registered) = (activeIn[d] # {})
  BY InvGives DEF DealAgrees
<1>7. /\ HasAssignment(p) = (step \in {"evidence", "upload"}) /\ HasEvidence(p) = (step = "upload")
      /\ HasRevision(p) = (step # "source") /\ PC(p) \notin {"revised", "assigned"}
  BY DEF HasAssignment, HasEvidence, HasRevision
<1>8. /\ e.upload = Nothing /\ e.source = (step # "source")
      /\ e.evidence = IF step = "upload" THEN evidenceOf[u] ELSE {}
      /\ e.deal = IF step \in {"evidence", "upload"} THEN DealState(u, d) ELSE b.deal
  BY <1>1, <1>7 DEF ExpectedOK
<1>9. /\ (u \in known) = (step # "source") /\ confirmedFor[u] = Nothing
      /\ IF step \in {"evidence", "upload"} THEN AssignedOnly(u, d) ELSE NotAssigned(u)
      /\ step \in {"source", "deal"} => evidenceOf[u] = {}
  BY <1>1, <1>7 DEF StageOK, Steps
<1>10. /\ b.deal.rows = {} /\ b.deal.request = Nothing /\ b.deal.exact = FALSE
       /\ b.deal.active = ActiveRows(assignments, d) \ {u}
       /\ b.deal.exists = (b.deal.active # {})
       /\ step \notin {"evidence", "upload"} => remembered[d] = b.deal.memory
  BY <1>1, <1>7 DEF BeforeOK
<1> HIDE DEF c, b, e
<1>11. c.source = (u \in known) /\ c.evidence = evidenceOf[u] /\ c.upload = Nothing
  <2>1. c.source = (u \in known)
    BY <1>4, <1>8, <1>9
  <2>2. c.evidence = evidenceOf[u] /\ c.upload = Nothing
    BY <1>3, <1>4, <1>8, <1>9 DEF Steps
  <2>3. QED BY <2>1, <2>2
<1>12. RowsOfSource(u) = {a \in assignments : a.deal = d /\ SourceOfRevision[a.revision] = u}
  <2>1. CASE AssignedOnly(u, d)
    BY <2>1 DEF AssignedOnly, RowsOfSource, LiveRow
  <2>2. CASE NotAssigned(u)
    BY <2>2 DEF NotAssigned, RowsOfSource
  <2>3. QED BY <1>9, <2>1, <2>2
<1>13. CASE c.deal = DealState(u, d)
  BY <1>5, <1>11, <1>12, <1>13 DEF c
<1>14. CASE c.deal = b.deal /\ step = "source"
  <2>1. NotAssigned(u)
    BY <1>9, <1>14
  <2>2. RowsOfSource(u) = {} /\ requested[u] = Nothing /\ (<<d, u>> \in exactBundles) = FALSE
    BY <2>1 DEF NotAssigned
  <2>3. u \notin ActiveRows(assignments, d)
    BY <2>2, UploadFacts, ActiveFacts DEF RowsOfSource
  <2>4. b.deal.active = activeIn[d] /\ b.deal.exists = (d \in registered)
    BY <1>6, <1>10, <2>3
  <2>5. /\ c.deal.rows = RowsOfSource(u) /\ c.deal.request = requested[u]
        /\ c.deal.memory = remembered[d] /\ c.deal.exact = (<<d, u>> \in exactBundles)
        /\ c.deal.exists = (d \in registered) /\ c.deal.active = activeIn[d]
    BY <1>10, <1>14, <2>2, <2>4
  <2>6. QED BY <1>11, <2>4, <2>5 DEF c, b
<1>15. c.deal = DealState(u, d) \/ (c.deal = b.deal /\ step = "source")
  BY <1>3, <1>4, <1>8 DEF Steps
<1>16. QED BY <1>13, <1>14, <1>15

LEMMA ActiveRowsRemoved ==
    ASSUME NEW u \in PendingUploads, NEW d \in RegistryDeals,
           RowsOfSource(u) \subseteq {LiveRow(u, d, u)}
    PROVE  \A e : ActiveRows(assignments \ RowsOfSource(u), e) = ActiveRows(assignments, e) \ (IF e = d THEN {u} ELSE {})
<1> DEFINE left == assignments \ RowsOfSource(u)
<1>1. \A a \in left : a.revision # u
  BY UploadFacts DEF RowsOfSource
<1>2. \A a \in assignments : a \notin left => a.deal = d /\ a.revision = u
  BY DEF LiveRow
<1>3. left \subseteq assignments
  OBVIOUS
<1> HIDE DEF left
<1>4. \A a \in assignments : a.revision # u \/ a.deal # d => a \in left
  BY <1>2
<1>5. ASSUME NEW e, NEW r
      PROVE  r \in ActiveRows(left, e) <=> r \in ActiveRows(assignments, e) /\ ~(e = d /\ r = u)
  <2>1. r \in ActiveRows(left, e) <=> \E a \in left : a.deal = e /\ a.live /\ a.revision = r
    BY ActiveFacts
  <2>2. r \in ActiveRows(assignments, e) <=> \E a \in assignments : a.deal = e /\ a.live /\ a.revision = r
    BY ActiveFacts
  <2>3. QED BY <1>1, <1>3, <1>4, <2>1, <2>2
<1>6. QED BY <1>5 DEF left

\* What compensation leaves: everything but the promotion's own, and the deal as it was.
Compensated(u, d, b) ==
    /\ known' = known \ {u}
    /\ assignments' = assignments \ RowsOfSource(u)
    /\ requested' = [requested EXCEPT ![u] = Nothing]
    /\ remembered' = [remembered EXCEPT ![d] = b.memory]
    /\ exactBundles' = exactBundles \ {<<d, u>>}
    /\ registered' = IF b.exists THEN registered \cup {d} ELSE registered \ {d}
    /\ activeIn' = [activeIn EXCEPT ![d] = b.active]
    /\ evidenceOf' = [evidenceOf EXCEPT ![u] = {}]
    /\ confirmedFor' = confirmedFor
    /\ companies' = {CompanyOf[e] : e \in registered'}

LEMMA CompensateRestores ==
    ASSUME PromotionInv, NEW p \in Promotions, Compensate(p),
           NEW u \in PendingUploads, NEW d \in RegistryDeals, u = UploadOf(p), d = DealOf(p)
    PROVE  Compensated(u, d, promotion[p].before.deal)
<1>1. PC(p) = "threw"
  BY DEF Compensate
<1> DEFINE c == CapturedAfter(p, promotion[p].step)
           b == promotion[p].before
<1>2. /\ c.source = (u \in known) /\ c.evidence = evidenceOf[u] /\ c.upload = Nothing
      /\ c.deal.rows = RowsOfSource(u) /\ c.deal.request = requested[u]
      /\ c.deal.memory = remembered[d] /\ c.deal.exact = (<<d, u>> \in exactBundles)
      /\ c.deal.exists = (d \in registered) /\ c.deal.active = activeIn[d]
      /\ \/ c.deal.company = (CompanyOf[d] \in companies)
         \/ b.deal.exists = (d \in registered)
  BY <1>1, ExpectedAgrees
<1>3. BeforeOK(p) /\ StageOK(p)
  BY <1>1, GoingFacts DEF MayFail
<1>4. /\ b.source = FALSE /\ b.evidence = {} /\ b.upload = Nothing
      /\ b.deal.rows = {} /\ b.deal.request = Nothing /\ b.deal.exact = FALSE
      /\ d \notin PendingUploads => b.deal.exists
      /\ b.deal.exists => b.deal.company
      /\ b.deal.company /\ ~b.deal.exists =>
            \E e \in registered \ PendingUploads : CompanyOf[e] = CompanyOf[d]
  BY <1>3 DEF BeforeOK
<1>5. /\ RestoreUpload(u, b, c) /\ RestoreEvidence(u, b, c)
      /\ RestoreDealWhole(u, d, b.deal, c.deal) /\ RestoreCompany(d, b.deal, c.deal)
      /\ RestoreSource(u, b, c)
  BY DEF Compensate, UploadOf, DealOf
<1> HIDE DEF c, b
<1>6. /\ requested \in [AllRequests -> AllRequests \cup {Nothing}]
      /\ remembered \in [RegistryDeals -> PendingUploads \cup {Nothing}]
      /\ evidenceOf \in [PendingUploads -> SUBSET ItemType]
      /\ confirmedFor \in [PendingUploads -> RegistryDeals \cup {Nothing}]
      /\ u \in AllRequests
  BY InvGives, UploadFacts DEF PromotionTypeOK
<1>7. confirmedFor[u] = Nothing
  BY <1>3 DEF StageOK
<1>8. confirmedFor' = confirmedFor
  BY <1>2, <1>4, <1>5, <1>6, <1>7 DEF RestoreUpload
<1>9. evidenceOf' = [evidenceOf EXCEPT ![u] = {}]
  <2>1. \A n : ItemsAt(b.evidence, n) = {}
    BY <1>4 DEF ItemsAt
  <2>2. UNION {IF ItemsAt(evidenceOf[u], n) = ItemsAt(c.evidence, n)
               THEN ItemsAt(b.evidence, n) ELSE ItemsAt(evidenceOf[u], n) : n \in 1..ItemCount} = {}
    BY <1>2, <2>1
  <2>3. evidenceOf' = [evidenceOf EXCEPT ![u] =
            UNION {IF ItemsAt(evidenceOf[u], n) = ItemsAt(c.evidence, n)
                   THEN ItemsAt(b.evidence, n) ELSE ItemsAt(evidenceOf[u], n) : n \in 1..ItemCount}]
    BY <1>5 DEF RestoreEvidence
  <2>4. QED BY <2>2, <2>3
<1>10. known' = known \ {u}
  BY <1>2, <1>4, <1>5 DEF RestoreSource
<1>11. assignments' = assignments \ RowsOfSource(u)
  <2>1. assignments' = RestoredRows(b.deal, c.deal)
    BY <1>5 DEF RestoreDealWhole
  <2>2. RestoredRows(b.deal, c.deal) = {a \in assignments : a \notin c.deal.rows}
    BY <1>4 DEF RestoredRows
  <2>3. QED BY <1>2, <2>1, <2>2
<1>12. /\ requested' = [requested EXCEPT ![u] = Nothing]
       /\ remembered' = [remembered EXCEPT ![d] = b.deal.memory]
  <2>1. requested' = [requested EXCEPT ![u] = IF requested[u] = c.deal.request THEN b.deal.request ELSE requested[u]]
    BY <1>5 DEF RestoreDealWhole
  <2>2. remembered' = [remembered EXCEPT ![d] = IF remembered[d] = c.deal.memory THEN b.deal.memory ELSE remembered[d]]
    BY <1>5 DEF RestoreDealWhole
  <2>3. QED BY <1>2, <1>4, <2>1, <2>2
<1>13. exactBundles' = exactBundles \ {<<d, u>>}
  BY <1>2, <1>4, <1>5 DEF RestoreDealWhole
<1>14. /\ registered' = IF b.deal.exists THEN registered \cup {d} ELSE registered \ {d}
       /\ activeIn' = [activeIn EXCEPT ![d] = b.deal.active]
  BY <1>2, <1>5 DEF RestoreDealWhole
<1>15. companies' = {CompanyOf[e] : e \in registered'}
  <2>1. companies = {CompanyOf[e] : e \in registered}
    BY InvGives
  <2>2. companies' = IF (CompanyOf[d] \in companies) # c.deal.company THEN companies
                     ELSE IF b.deal.company THEN companies \cup {CompanyOf[d]}
                     ELSE companies \ {x \in {CompanyOf[d]} : \A e \in registered' : CompanyOf[e] # x}
    BY <1>5 DEF RestoreCompany
  <2>3. CASE (CompanyOf[d] \in companies) # c.deal.company
    <3>1. b.deal.exists = (d \in registered)
      BY <1>2, <2>3
    <3>2. registered' = registered
      BY <1>14, <3>1
    <3>3. QED BY <2>1, <2>2, <2>3, <3>2
  <2>4. CASE (CompanyOf[d] \in companies) = c.deal.company /\ b.deal.exists
    <3>1. registered' = registered \cup {d} /\ companies' = companies \cup {CompanyOf[d]}
      BY <1>4, <1>14, <2>2, <2>4
    <3>2. QED BY <2>1, <3>1
  <2>5. CASE (CompanyOf[d] \in companies) = c.deal.company /\ ~b.deal.exists /\ b.deal.company
    <3>1. registered' = registered \ {d} /\ companies' = companies \cup {CompanyOf[d]}
      BY <1>14, <2>2, <2>5
    <3>2. PICK e \in registered : e \notin PendingUploads /\ CompanyOf[e] = CompanyOf[d]
      BY <1>4, <2>5
    <3>3. e \in registered' /\ CompanyOf[d] \in companies
      BY <1>4, <2>1, <2>5, <3>1, <3>2
    <3>4. QED BY <2>1, <3>1, <3>2, <3>3
  <2>6. CASE (CompanyOf[d] \in companies) = c.deal.company /\ ~b.deal.company
    <3>1. registered' = registered \ {d}
      BY <1>4, <1>14, <2>6
    <3>2. companies' = companies \ {x \in {CompanyOf[d]} : \A e \in registered' : CompanyOf[e] # x}
      BY <2>2, <2>6
    <3>3. QED BY <2>1, <3>1, <3>2
  <2>7. QED BY <2>3, <2>4, <2>5, <2>6
<1>16. QED BY <1>8, <1>9, <1>10, <1>11, <1>12, <1>13, <1>14, <1>15 DEF Compensated, b

LEMMA CompensateKeeps ==
    ASSUME PromotionInv, NEW p \in Promotions, Compensate(p)
    PROVE  PromotionInv'
<1>1. PC(p) = "threw" /\ answered' = answered /\ throws' = throws /\ GoesOn(p, NoPromotion)
  BY DEF Compensate
<1>2. MayFail(p) /\ InProgress(p)
  BY <1>1 DEF MayFail, InProgress
<1>3. PICK u \in PendingUploads, d \in RegistryDeals : u = UploadOf(p) /\ d = DealOf(p)
  BY <1>2, GoingFacts
<1> DEFINE b == promotion[p].before
<1>4. BeforeOK(p) /\ StageOK(p) /\ b \in StateType
  BY <1>2, GoingFacts
<1>5. Compensated(u, d, b.deal)
  BY <1>3, CompensateRestores
<1>6. /\ b.deal.memory # u
      /\ b.deal.memory # Nothing => confirmedFor[b.deal.memory] # Nothing
      /\ b.deal.active = ActiveRows(assignments, d) \ {u}
      /\ b.deal.exists = (b.deal.active # {})
      /\ d \notin PendingUploads => b.deal.exists
      /\ confirmedFor[u] = Nothing
      /\ AssignedOnly(u, d) \/ NotAssigned(u)
  BY <1>3, <1>4 DEF BeforeOK, StageOK
<1>7. b.deal.memory \in PendingUploads \cup {Nothing} /\ b.deal.active \in SUBSET AllRevisions
      /\ b.deal.exists \in BOOLEAN
  BY <1>4 DEF StateType, DealStateType
<1> HIDE DEF b
<1>8. /\ requested \in [AllRequests -> AllRequests \cup {Nothing}]
      /\ remembered \in [RegistryDeals -> PendingUploads \cup {Nothing}]
      /\ evidenceOf \in [PendingUploads -> SUBSET ItemType]
      /\ activeIn \in [RegistryDeals -> SUBSET AllRevisions]
      /\ u \in AllRequests /\ u \in AllRevisions /\ SourceOfRevision[u] = u
  BY InvGives, UploadFacts DEF PromotionTypeOK
<1>9. /\ known' = known \ {u} /\ assignments' = assignments \ RowsOfSource(u)
      /\ requested' = [requested EXCEPT ![u] = Nothing]
      /\ remembered' = [remembered EXCEPT ![d] = b.deal.memory]
      /\ exactBundles' = exactBundles \ {<<d, u>>}
      /\ registered' = IF b.deal.exists THEN registered \cup {d} ELSE registered \ {d}
      /\ activeIn' = [activeIn EXCEPT ![d] = b.deal.active]
      /\ evidenceOf' = [evidenceOf EXCEPT ![u] = {}]
      /\ confirmedFor' = confirmedFor
      /\ companies' = {CompanyOf[e] : e \in registered'}
  BY <1>5 DEF Compensated
<1>10. /\ RowsOfSource(u) \subseteq {LiveRow(u, d, u)}
       /\ \A e \in RegistryDeals : e # d => remembered[e] # u /\ <<e, u>> \notin exactBundles
  BY <1>6 DEF AssignedOnly, NotAssigned
<1>11. \A e : ActiveRows(assignments', e) = ActiveRows(assignments, e) \ (IF e = d THEN {u} ELSE {})
  BY <1>9, <1>10, ActiveRowsRemoved
<1>12. \A a \in assignments : a \notin assignments' => a.revision = u
  BY <1>9, <1>10 DEF LiveRow
<1>13. LeavesNoTrace(u)'
  <2>1. \A a \in assignments' : SourceOfRevision[a.revision] # u
    BY <1>9 DEF RowsOfSource
  <2>2. requested'[u] = Nothing /\ evidenceOf'[u] = {} /\ u \notin known'
    BY <1>8, <1>9
  <2>3. \A e \in RegistryDeals : remembered'[e] # u /\ <<e, u>> \notin exactBundles'
    BY <1>6, <1>8, <1>9, <1>10
  <2>4. QED BY <2>1, <2>2, <2>3 DEF LeavesNoTrace
<1>14. NothingLost
  BY <1>6, <1>9 DEF NothingLost
<1>15. ASSUME NEW v \in PendingUploads, v # u PROVE SameUpload(v)
  <2>1. RowsOfSource(v)' = RowsOfSource(v)
    BY <1>9, <1>15 DEF RowsOfSource
  <2>2. requested'[v] = requested[v] /\ evidenceOf'[v] = evidenceOf[v] /\ confirmedFor'[v] = confirmedFor[v]
    BY <1>8, <1>9, <1>15, UploadFacts
  <2>3. \A e \in RegistryDeals : remembered'[e] = v => remembered[e] = v \/ confirmedFor[v] # Nothing
    BY <1>6, <1>8, <1>9, UploadFacts
  <2>4. \A e \in RegistryDeals : (<<e, v>> \in exactBundles') = (<<e, v>> \in exactBundles)
    BY <1>9, <1>15
  <2>5. (v \in known') = (v \in known)
    BY <1>9, <1>15
  <2>6. QED BY <2>1, <2>2, <2>3, <2>4, <2>5 DEF SameUpload
<1>16. ASSUME NEW e \in RegistryDeals, e # d PROVE SameDeal(e)
  <2>1. ActiveRows(assignments', e) = ActiveRows(assignments, e)
    BY <1>11, <1>16
  <2>2. activeIn'[e] = activeIn[e] /\ remembered'[e] = remembered[e]
    BY <1>8, <1>9, <1>16
  <2>3. (e \in registered') = (e \in registered)
    BY <1>9, <1>16
  <2>4. e \in registered => CompanyOf[e] \in companies'
    BY <1>9, <2>3
  <2>5. QED BY <2>1, <2>2, <2>3, <2>4 DEF SameDeal
<1>17. DealsAgreeAfter
  <2>1. ASSUME NEW e \in RegistryDeals PROVE DealAgrees(e)'
    <3>1. CASE e = d
      <4>1. activeIn'[d] = b.deal.active /\ b.deal.active = ActiveRows(assignments', d)
        BY <1>6, <1>8, <1>9, <1>11
      <4>2. CASE b.deal.active # {}
        <5>1. b.deal.exists = TRUE
          BY <1>6, <4>2
        <5>2. d \in registered'
          BY <1>9, <5>1
        <5>3. QED BY <3>1, <4>1, <4>2, <5>2 DEF DealAgrees
      <4>3. CASE b.deal.active = {}
        <5>1. b.deal.exists = FALSE
          BY <1>6, <4>3
        <5>2. d \notin registered'
          BY <1>9, <5>1
        <5>3. QED BY <3>1, <4>1, <4>3, <5>2 DEF DealAgrees
      <4>4. QED BY <4>2, <4>3
    <3>2. CASE e # d
      BY <3>2, <1>16, InvGives DEF SameDeal, DealAgrees
    <3>3. QED BY <3>1, <3>2
  <2>2. ASSUME NEW a \in assignments' PROVE a.revision \in known'
    <3>1. a \in assignments /\ a.revision # u
      BY <1>8, <1>9 DEF RowsOfSource
    <3>2. QED BY <3>1, <1>9, InvGives
  <2>3. QED BY <1>9, <2>1, <2>2 DEF DealsAgreeAfter
<1>18. PromotionTypeOK'
  <2>1. /\ known' \subseteq AllRevisions /\ assignments' \subseteq RowType
        /\ exactBundles' \subseteq RegistryDeals \X AllRevisions
        /\ registered' \subseteq RegistryDeals
    BY <1>9, InvGives DEF PromotionTypeOK
  <2>2. /\ activeIn' \in [RegistryDeals -> SUBSET AllRevisions]
        /\ requested' \in [AllRequests -> AllRequests \cup {Nothing}]
        /\ remembered' \in [RegistryDeals -> PendingUploads \cup {Nothing}]
        /\ evidenceOf' \in [PendingUploads -> SUBSET ItemType]
    BY <1>7, <1>8, <1>9
  <2>3. QED BY <1>1, <1>9, <2>1, <2>2, InvGives DEF PromotionTypeOK
<1>19. LaterAreOfConfirmed' /\ AnsweredAreConfirmed'
  BY <1>1, <1>9, InvGives DEF LaterAreOfConfirmed, AnsweredAreConfirmed
<1>20. RememberedAreKept'
  <2>1. \A r \in Promotions : r # p => promotion'[r] = promotion[r]
    BY <1>1 DEF GoesOn
  <2> SUFFICES ASSUME NEW e \in RegistryDeals, remembered'[e] # Nothing
               PROVE  \/ confirmedFor'[remembered'[e]] # Nothing
                      \/ \E r \in Promotions : InProgress(r)' /\ DealOf(r)' = e /\ UploadOf(r)' = remembered'[e]
    BY DEF RememberedAreKept
  <2>2. CASE e = d
    BY <2>2, <1>6, <1>8, <1>9
  <2>3. CASE e # d /\ confirmedFor[remembered[e]] # Nothing
    BY <2>3, <1>8, <1>9
  <2>4. CASE e # d /\ \E r \in Promotions : InProgress(r) /\ DealOf(r) = e /\ UploadOf(r) = remembered[e]
    <3>1. PICK r \in Promotions : InProgress(r) /\ DealOf(r) = e /\ UploadOf(r) = remembered[e]
      BY <2>4
    <3>2. r # p
      BY <3>1, <2>4, <1>3
    <3>3. InProgress(r)' /\ DealOf(r)' = DealOf(r) /\ UploadOf(r)' = UploadOf(r)
      BY <3>1, <3>2, <2>1 DEF InProgress, PC, DealOf, UploadOf
    <3>4. remembered'[e] = remembered[e]
      BY <2>4, <1>8, <1>9
    <3>5. QED BY <3>1, <3>3, <3>4
  <2>5. remembered'[e] = remembered[e] \/ e = d
    BY <1>8, <1>9
  <2>6. QED BY <2>2, <2>3, <2>4, <2>5, InvGives DEF RememberedAreKept
<1>21. ASSUME NEW pair \in answered'
       PROVE  \E a \in assignments' : a.deal = pair[1] /\ a.revision = pair[2]
  <2>1. PICK a \in assignments : a.deal = pair[1] /\ a.revision = pair[2]
    BY <1>1, InvGives
  <2>2. pair[2] # u
    BY <1>1, <1>6, InvGives DEF AnsweredAreConfirmed
  <2>3. QED BY <2>1, <2>2, <1>12
<1>22. confirmedFor'[u] = Nothing
  BY <1>6, <1>9
<1>23. QED BY <1>1, <1>2, <1>3, <1>13, <1>14, <1>15, <1>16, <1>17, <1>18, <1>19, <1>20, <1>21, <1>22, ReleaseStep

-----------------------------------------------------------------------------
(* Steps of nobody's confirmation. *)

LEMMA NobodysStep ==
    ASSUME PromotionInv, promotion' = promotion, confirmedFor' = confirmedFor,
           \A v \in PendingUploads : Undisturbed(v), NothingLost,
           \A p \in Promotions, d \in RegistryDeals : InProgress(p) /\ d = DealOf(p) => SameDeal(d),
           DealsAgreeAfter, PromotionTypeOK',
           LaterAreOfConfirmed', AnsweredAreConfirmed', remembered' = remembered,
           \A pair \in answered' : \E a \in assignments' : a.deal = pair[1] /\ a.revision = pair[2]
    PROVE  PromotionInv'
<1>1. PlacesOK' /\ Exclusive' /\ RememberedAreKept'
  BY InvGives DEF PlacesOK, Exclusive, RememberedAreKept, InProgress, PC, UploadOf, DealOf
<1>2. \A p \in Promotions : PromotionOK(p)'
  BY OthersStay
<1>3. ASSUME NEW v \in PendingUploads, UploadIsFree(v)'
      PROVE  IF confirmedFor'[v] = Nothing THEN LeavesNoTrace(v)' ELSE IsPromotedTo(v, confirmedFor[v])'
  <2>1. UploadIsFree(v)
    BY <1>3 DEF UploadIsFree, HoldsUpload, PC
  <2>2. QED BY <2>1, FreeUploadStays
<1>4. QED BY <1>1, <1>2, <1>3 DEF PromotionInv, PromotionsAreWhole, DealsAgreeAfter

LEMMA AssignOrdinarilyKeeps ==
    ASSUME PromotionInv, NEW q \in AssignmentRequests, NEW d \in RegistryDeals, NEW r \in AllRevisions,
           AssignOrdinarily(q, d, r)
    PROVE  PromotionInv'
<1>1. /\ DealIsFree(d) /\ r \in known /\ (r \in PendingUploads => \E a \in answered : a[2] = r)
      /\ requested[q] = Nothing /\ ConfirmAssignment(q, d, r)
      /\ answered' = answered \cup {<<d, r>>}
      /\ known' = known /\ evidenceOf' = evidenceOf /\ confirmedFor' = confirmedFor
      /\ promotion' = promotion /\ throws' = throws
  BY DEF AssignOrdinarily
<1>2. q \in AllRequests /\ q \notin PendingUploads
  BY PromotionAssumption DEF AllRequests
<1>3. answered' \subseteq RegistryDeals \X AllRevisions /\ throws' \in Nat
  BY <1>1, InvGives DEF PromotionTypeOK
<1>4. /\ ConfirmsWell(q, d, r) /\ PromotionTypeOK'
      /\ registered' = registered \cup {d} /\ companies' = companies \cup {CompanyOf[d]}
      /\ remembered' = remembered /\ exactBundles' = exactBundles \cup {<<d, r>>}
      /\ DealsAgreeAfter /\ RowsPersist /\ NothingLost
      /\ \A e \in RegistryDeals : e # d => SameDeal(e)
  BY <1>1, <1>2, <1>3, ConfirmedDeals
\* Only an upload that is confirmed has a revision to assign.
<1>5. ASSUME NEW v \in PendingUploads, SourceOfRevision[r] = v
      PROVE  confirmedFor[v] # Nothing
  <2>1. CASE r \in PendingUploads
    <3>1. r = v
      BY <1>5, <2>1 DEF SourceOfRevision, AllRevisions
    <3>2. QED BY <1>1, <2>1, <3>1, InvGives DEF AnsweredAreConfirmed
  <2>2. CASE r \notin PendingUploads
    <3>1. r \in DOMAIN LaterRevisions /\ LaterRevisions[r] = v
      BY <1>5, <2>2 DEF SourceOfRevision, AllRevisions
    <3>2. QED BY <1>1, <3>1, InvGives DEF LaterAreOfConfirmed
  <2>3. QED BY <2>1, <2>2
<1>6. ASSUME NEW v \in PendingUploads PROVE Undisturbed(v)
  <2>1. v \in AllRequests /\ v # q /\ requested'[v] = requested[v]
    BY <1>2, <1>4, UploadFacts DEF ConfirmsWell
  <2>2. CASE SourceOfRevision[r] # v
    <3>1. RowsOfSource(v)' = RowsOfSource(v)
      BY <1>4, <2>2 DEF ConfirmsWell
    <3>2. r # v
      BY <2>2, UploadFacts
    <3>3. SameUpload(v)
      BY <1>1, <1>4, <2>1, <3>1, <3>2 DEF SameUpload
    <3>4. QED BY <3>3 DEF Undisturbed
  <2>3. CASE SourceOfRevision[r] = v
    <3>1. confirmedFor[v] # Nothing
      BY <1>5, <2>3
    <3>2. ASSUME NEW e \in RegistryDeals, IsPromotedTo(v, e) PROVE IsPromotedTo(v, e)'
      <4>1. PICK a \in assignments : a.request = v /\ a.deal = e /\ a.revision = v
        BY <3>2 DEF IsPromotedTo
      <4>2. PICK x \in assignments' : x.request = v /\ x.deal = e /\ x.revision = v
        BY <1>4, <4>1 DEF ConfirmsWell
      <4>3. QED BY <1>1, <1>4, <3>2, <4>2 DEF IsPromotedTo
    <3>3. QED BY <1>1, <3>1, <3>2 DEF Undisturbed
  <2>4. QED BY <2>2, <2>3
<1>7. \A p \in Promotions, e \in RegistryDeals : InProgress(p) /\ e = DealOf(p) => SameDeal(e)
  BY <1>1, <1>4 DEF DealIsFree, HoldsDeal, InProgress, DealOf
<1>8. LaterAreOfConfirmed'
  BY <1>1, InvGives DEF LaterAreOfConfirmed
<1>9. AnsweredAreConfirmed'
  <2> SUFFICES ASSUME NEW pair \in answered', pair[2] \in PendingUploads
               PROVE  confirmedFor[pair[2]] # Nothing
    BY <1>1 DEF AnsweredAreConfirmed
  <2>1. CASE pair \in answered
    BY <2>1, InvGives DEF AnsweredAreConfirmed
  <2>2. CASE pair = <<d, r>>
    <3>1. pair[2] = r
      BY <2>2
    <3>2. QED BY <3>1, <1>5, UploadFacts
  <2>3. QED BY <2>1, <2>2, <1>1
<1>10. ASSUME NEW pair \in answered'
       PROVE  \E a \in assignments' : a.deal = pair[1] /\ a.revision = pair[2]
  <2>1. CASE pair \in answered
    BY <2>1, <1>4, InvGives DEF RowsPersist
  <2>2. CASE pair = <<d, r>>
    BY <2>2, <1>4 DEF ConfirmsWell
  <2>3. QED BY <2>1, <2>2, <1>1
<1>11. QED BY <1>1, <1>4, <1>6, <1>7, <1>8, <1>9, <1>10, NobodysStep

LEMMA AppendLaterRevisionKeeps ==
    ASSUME PromotionInv, NEW r \in DOMAIN LaterRevisions, AppendLaterRevision(r)
    PROVE  PromotionInv'
<1>1. /\ SourceIsFree(LaterRevisions[r]) /\ LaterRevisions[r] \in known
      /\ known' = known \cup {r} /\ UNCHANGED dealVars
      /\ evidenceOf' = evidenceOf /\ confirmedFor' = confirmedFor
      /\ promotion' = promotion /\ answered' = answered /\ throws' = throws
  BY DEF AppendLaterRevision
<1>2. r \notin PendingUploads /\ r \in AllRevisions
  BY PromotionAssumption DEF AllRevisions, SourceOfRevision
<1>3. /\ registered' = registered /\ activeIn' = activeIn /\ companies' = companies
      /\ assignments' = assignments /\ requested' = requested /\ remembered' = remembered
      /\ exactBundles' = exactBundles
  BY <1>1 DEF dealVars
<1>4. \A v \in PendingUploads : Undisturbed(v)
  BY <1>1, <1>2, <1>3 DEF Undisturbed, SameUpload, RowsOfSource
<1>5. \A e \in RegistryDeals : SameDeal(e)
  BY <1>3, InvGives DEF SameDeal
<1>6. NothingLost
  BY <1>1, <1>3 DEF NothingLost
<1>7. DealsAgreeAfter
  BY <1>1, <1>3, InvGives DEF DealsAgreeAfter, DealAgrees
<1>8. PromotionTypeOK'
  BY <1>1, <1>2, <1>3, InvGives DEF PromotionTypeOK
\* The source has a revision and nobody is making or taking it back.
<1>9. LaterRevisions[r] \in PendingUploads => confirmedFor[LaterRevisions[r]] # Nothing
  <2> SUFFICES ASSUME NEW v \in PendingUploads, v = LaterRevisions[r], confirmedFor[v] = Nothing
               PROVE  FALSE
    OBVIOUS
  <2>1. v \in known
    BY <1>1
  <2>2. PICK p \in Promotions : HoldsUpload(p, v)
    BY <2>1, InvGives DEF UploadIsFree, LeavesNoTrace
  <2>3. PC(p) = "confirm" /\ UploadOf(p) = v
    BY <1>1, <2>2 DEF SourceIsFree, HoldsSource, HoldsUpload, UploadOf
  <2>4. LeavesNoTrace(v)
    BY <2>3, InvGives DEF PromotionOK, AskedOK
  <2>5. QED BY <2>1, <2>4 DEF LeavesNoTrace
<1>10. LaterAreOfConfirmed' /\ AnsweredAreConfirmed'
  BY <1>1, <1>9, InvGives DEF LaterAreOfConfirmed, AnsweredAreConfirmed
<1>11. \A pair \in answered' : \E a \in assignments' : a.deal = pair[1] /\ a.revision = pair[2]
  BY <1>1, <1>3, InvGives
<1>12. QED BY <1>1, <1>3, <1>4, <1>5, <1>6, <1>7, <1>8, <1>10, <1>11, NobodysStep

-----------------------------------------------------------------------------
LEMMA PromotionInvInit == PromotionInit => PromotionInv
<1> SUFFICES ASSUME PromotionInit PROVE PromotionInv
  OBVIOUS
<1>1. /\ registered = {} /\ companies = {} /\ assignments = {} /\ exactBundles = {}
      /\ activeIn = [d \in RegistryDeals |-> {}]
      /\ remembered = [d \in RegistryDeals |-> Nothing]
      /\ requested = [q \in AllRequests |-> Nothing]
      /\ evidenceOf = [u \in PendingUploads |-> {}]
      /\ confirmedFor = [u \in PendingUploads |-> Nothing]
      /\ promotion = [p \in Promotions |-> NoPromotion]
      /\ answered = {} /\ throws = 0
      /\ known = {r \in DOMAIN LaterRevisions : LaterRevisions[r] \notin PendingUploads}
  BY DEF PromotionInit, AllRequests
<1>2. known \subseteq AllRevisions /\ \A u \in PendingUploads : u \notin known
  BY <1>1, PromotionAssumption DEF AllRevisions, SourceOfRevision
<1>3. PromotionTypeOK
  BY <1>1, <1>2 DEF PromotionTypeOK
<1>4. PlacesOK
  BY <1>1 DEF PlacesOK, IdleType
<1>5. \A p \in Promotions : PC(p) = "idle"
  BY <1>1 DEF PC, NoPromotion
<1>6. Exclusive /\ \A p \in Promotions : PromotionOK(p)
  BY <1>5 DEF Exclusive, PromotionOK, MayFail, InProgress
<1>7. LaterAreOfConfirmed /\ AnsweredAreConfirmed
  BY <1>1 DEF LaterAreOfConfirmed, AnsweredAreConfirmed
<1>8. RememberedAreKept
  BY <1>1 DEF RememberedAreKept
<1>9. ASSUME NEW u \in PendingUploads PROVE LeavesNoTrace(u) /\ confirmedFor[u] = Nothing
  <2>1. \A d \in RegistryDeals : remembered[d] # u
    BY <1>1, UploadFacts
  <2>2. QED BY <1>1, <1>2, <2>1, UploadFacts DEF LeavesNoTrace
<1>10. \A d \in RegistryDeals : DealAgrees(d)
  BY <1>1 DEF DealAgrees, ActiveRows
<1>11. PromotionsAreWhole
  BY <1>1, <1>9, <1>10 DEF PromotionsAreWhole
<1>12. QED BY <1>3, <1>4, <1>6, <1>7, <1>8, <1>11 DEF PromotionInv

LEMMA PromotionInvStep == PromotionInv /\ [PromotionNext]_promotionVars => PromotionInv'
<1> SUFFICES ASSUME PromotionInv, [PromotionNext]_promotionVars PROVE PromotionInv'
  OBVIOUS
<1>1. ASSUME NEW p \in Promotions, NEW u \in PendingUploads, NEW d \in RegistryDeals,
             AskConfirmation(p, u, d)
      PROVE  PromotionInv'
  BY <1>1, AskKeeps
<1>2. ASSUME NEW p \in Promotions,
             LockSource(p) \/ LockDealAndRevise(p) \/ AssignPromoted(p) \/ PutEvidence(p)
             \/ MarkConfirmed(p) \/ AnswerPromoted(p) \/ Compensate(p)
      PROVE  PromotionInv'
  BY <1>2, LockSourceKeeps, LockDealAndReviseKeeps, AssignPromotedKeeps, PutEvidenceKeeps,
     MarkConfirmedKeeps, AnswerPromotedKeeps, CompensateKeeps
<1>3. ASSUME NEW q \in AssignmentRequests, NEW d \in RegistryDeals, NEW r \in AllRevisions,
             AssignOrdinarily(q, d, r)
      PROVE  PromotionInv'
  BY <1>3, AssignOrdinarilyKeeps
<1>4. ASSUME NEW r \in DOMAIN LaterRevisions, AppendLaterRevision(r)
      PROVE  PromotionInv'
  BY <1>4, AppendLaterRevisionKeeps
<1>5. CASE UNCHANGED promotionVars
  <2>1. RepositoriesStay /\ promotion' = promotion /\ answered' = answered /\ throws' = throws
    BY <1>5 DEF promotionVars, RepositoriesStay
  <2>2. /\ \A v \in PendingUploads : Undisturbed(v)
        /\ \A d \in RegistryDeals : SameDeal(d)
        /\ NothingLost /\ LaterAreOfConfirmed'
    BY <2>1, Staying DEF Undisturbed
  <2>3. confirmedFor' = confirmedFor /\ remembered' = remembered /\ assignments' = assignments
    BY <2>1 DEF RepositoriesStay, dealVars
  <2>4. AnsweredAreConfirmed' /\ DealsAgreeAfter
    BY <2>1, <2>3, InvGives, StayingEncloses DEF AnsweredAreConfirmed
  <2>5. PromotionTypeOK'
    BY <2>1, InvGives, StayingTyped DEF PromotionTypeOK
  <2>6. \A pair \in answered' : \E a \in assignments' : a.deal = pair[1] /\ a.revision = pair[2]
    BY <2>1, <2>3, InvGives
  <2>7. QED BY <2>1, <2>2, <2>3, <2>4, <2>5, <2>6, NobodysStep
<1>6. QED BY <1>1, <1>2, <1>3, <1>4, <1>5 DEF PromotionNext

\* In every run of the in-memory confirmations, whatever throws and whoever else assigns,
\* revises or promotes meanwhile, an upload that nobody promotes is promoted entirely or
\* not at all, the deals agree with their assignments, and no rollback takes away an
\* assignment that somebody was told of.
THEOREM PromotionsAreWholeHolds == PromotionSpec => []PromotionsAreWhole
<1>1. PromotionInv => PromotionsAreWhole
  BY DEF PromotionInv
<1>2. QED BY <1>1, PromotionInvInit, PromotionInvStep, PTL DEF PromotionSpec
=============================================================================
