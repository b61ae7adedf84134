----------------------------- MODULE UploadEvidence -----------------------------
(***************************************************************************)
(* What one upload makes of its file: the model reads the document and may *)
(* answer any facts with any quotes; a preview keeps those it can locate;  *)
(* a confirmation writes them as evidence rows (text shown as quotations)  *)
(* and canonical items (values an analysis may accept); the memory worker  *)
(* and the analyses read a bundle of both.  A row confirmed before the     *)
(* migration 0016 may hold a model's summary where a quotation belongs.    *)
(***************************************************************************)
EXTENDS Naturals, Sequences, FiniteSets

CONSTANTS
    Files,      \* the files a user may upload, see IsAccepted and Occurrences
    Answers,    \* what a model may answer: sequences of [quote, structured, stated],
                \* where stated are the parts of the value the quote contains
    NoQuote

\* Every quote a model may give has its occurrences in every file, on pages from 1 on.
ASSUME UploadEvidenceAssumption ==
    /\ \A f \in Files : \A quote \in DOMAIN f.at : f.at[quote] \in Seq([page : Nat \ {0}, whole : BOOLEAN])
    /\ \A a \in Answers : \A n \in DOMAIN a :
          a[n].quote # NoQuote => \A f \in Files : a[n].quote \in DOMAIN f.at

VARIABLES
    file,       \* the uploaded file
    stage,      \* "none" before the upload, then the status of its row
    preview,    \* the facts of the extraction preview by number, each with its page
    rows,       \* source_evidence: fact, page, its text, and whether it is quarantined
    items,      \* source_evidence_items: fact, whether image-located, accepted
    told,       \* what XTrace holds for the document: [fact, shown]
    reported,   \* what the workspace's reports cite of it
    migrated    \* the database has the migration 0016

uploadEvidenceVars == <<file, stage, preview, rows, items, told, reported, migrated>>

-----------------------------------------------------------------------------
(* The file.  Its occurrences of a quote are in the order of the text, each on  *)
(* the page it starts on and whole unless it runs over the page's end; a text   *)
(* document is one page.                                                        *)

IsImage == file.kind = "image"

\* resolveRuntimeUploadContentType and validateUploadBytes.
IsAccepted(f) == f.named /\ f.signed

\* The archive checks of a DOCX, the page limit of a PDF, and some text within bounds.
IsReadableFile == file.readable

Occurrences(quote) == file.at[quote]

\* A shortcut that looks for the page the first occurrence starts on.
LocationOfFirst(quote) ==
    IF Occurrences(quote) = <<>> THEN 0 ELSE Head(Occurrences(quote)).page

\* locateExactExcerpt: the page of the first occurrence within one page, or 0.
Location(quote) ==
    LET at == Occurrences(quote)
        whole == {i \in DOMAIN at : at[i].whole}
    IN IF whole = {} THEN 0 ELSE at[CHOOSE i \in whole : \A j \in whole : i <= j].page

Located(fact) ==
    [structured |-> fact.structured, stated |-> fact.stated,
     quote |-> IF IsImage THEN NoQuote ELSE fact.quote,
     page |-> IF IsImage THEN 1 ELSE Location(fact.quote)]

IsLocatable(fact) == IsImage \/ (fact.quote # NoQuote /\ Location(fact.quote) # 0)

-----------------------------------------------------------------------------
(* A fact's structured value, as the application and the database check it.    *)

\* A fact without a structured value.
NoStructure == [category |-> "none"]

HasPeriod(s) == s.period # "none"
HasTime(s) == s.time # "none"

\* completeStructuredFact: the shape a field of the catalogue asks for ...
IsShaped(s) ==
    /\ s.value # "blank"
    /\ \/ s.category = "currency" /\ s.unit = "currency" /\ s.currency = "USD"
             /\ s.value \in {"money", "number"}
       \/ s.category = "rate" /\ s.unit = "percent" /\ s.currency = "none"
             /\ s.value \in {"percent", "number"}
       \/ s.category = "text" /\ s.unit = "none" /\ s.currency = "none"
    /\ s.period \in {"none", "ordered"} /\ s.time \in {"none", "proper"}

\* ... and the parts the excerpt must contain.
PartsOf(s) ==
    {"field", "value"}
    \cup (IF s.category = "currency" THEN {"currency"} ELSE {})
    \cup (IF s.category = "rate" /\ s.value # "percent" THEN {"percent"} ELSE {})
    \cup (IF HasPeriod(s) THEN {"period"} ELSE {})
    \cup (IF HasTime(s) THEN {"time"} ELSE {})

IsComplete(fact) ==
    /\ fact.structured # NoStructure
    /\ IsShaped(fact.structured)
    /\ IsImage \/ (fact.quote # NoQuote /\ PartsOf(fact.structured) \subseteq fact.stated)

\* What the confirmation hands to the database of a fact.
Submitted(fact) == IF IsComplete(fact) THEN fact.structured ELSE NoStructure

\* confirm_uploaded_document's own list of what the excerpt has to support.
MissingInExcerpt(s, stated) ==
    {p \in {"field", "value"} : p \notin stated}
    \cup {p \in {"currency"} : s.category = "currency" /\ p \notin stated}
    \cup {p \in {"percent"} : s.category = "rate" /\ s.value # "percent" /\ p \notin stated}
    \cup {p \in {"period", "time"} : s[p] # "none" /\ p \notin stated}

HasFormalUnit(s) ==
    CASE s.category = "currency" -> <<s.unit, s.currency>> = <<"currency", "USD">>
                                      /\ s.value \in {"money", "number"}
      [] s.category = "rate" -> <<s.unit, s.currency>> = <<"percent", "none">>
                                  /\ s.value \in {"percent", "number"}
      [] s.category = "text" -> <<s.unit, s.currency>> = <<"none", "none">>
      [] OTHER -> FALSE

IsAcceptedByDatabase(s, fact) ==
    /\ s # NoStructure
    /\ s.value # "blank" /\ HasFormalUnit(s)
    /\ s.period \notin {"one_sided", "reversed"} /\ s.time # "improper"
    /\ fact.quote # NoQuote \/ IsImage
    /\ IsImage \/ MissingInExcerpt(s, fact.stated) = {}

-----------------------------------------------------------------------------
(* What is read of the evidence. *)

\* structuredImageDealFact: a value from an image is shown as one, never as a quotation.
IsShownFromImage(item) == item.image /\ item.accepted

ShownFromImage == {[fact |-> i.fact, shown |-> "value"] : i \in {j \in items : IsShownFromImage(j)}}

\* getExactSourceBundle and listAnalysisEligibleBundles.
EvidenceBundle ==
    {[fact |-> r.fact, shown |-> r.text] : r \in {q \in rows : ~q.quarantined}} \cup ShownFromImage

IsImageWithoutExactQuote ==
    /\ IsImage /\ EvidenceBundle # {} /\ EvidenceBundle = ShownFromImage

-----------------------------------------------------------------------------

\* Facts had no structured values before the migration.
LegacyAnswers ==
    {a \in Answers : DOMAIN a # {} /\ \A n \in DOMAIN a : a[n].structured = NoStructure /\ IsLocatable(a[n])}

\* A document confirmed before the migration: an image's rows hold summaries and it
\* has no items; XTrace was told all of them.
LegacyRows ==
    {[fact |-> n, page |-> preview[n].page, quarantined |-> FALSE,
      text |-> IF IsImage THEN "summary" ELSE "quotation"] : n \in DOMAIN preview}

EvidenceInit ==
    /\ file \in {f \in Files : IsAccepted(f)} /\ items = {}
    /\ \/ stage = "none" /\ migrated = TRUE
          /\ preview = <<>> /\ rows = {} /\ told = {} /\ reported = {}
       \/ /\ stage \in {"confirmed", "ready"} /\ migrated = FALSE
          /\ \E answer \in LegacyAnswers : preview = [n \in DOMAIN answer |-> Located(answer[n])]
          /\ rows = LegacyRows
          /\ told = IF stage = "ready" THEN EvidenceBundle ELSE {}
          /\ reported \in {{}, EvidenceBundle}

QuarantinedRows == {[r EXCEPT !.quarantined = TRUE] : r \in rows}

\* Text rows become items nothing accepts.
BridgedItems ==
    IF file.kind = "text" THEN {[fact |-> r.fact, image |-> FALSE, accepted |-> FALSE] : r \in rows} ELSE {}

\* The migration quarantines an image's rows, fails its upload, and forgets what
\* XTrace was told of it and the reports that cite it.
Migrate ==
    /\ ~migrated /\ migrated' = TRUE
    /\ IF IsImage
       THEN /\ stage' = "failed" /\ rows' = QuarantinedRows
            /\ told' = {} /\ reported' = {}
            /\ UNCHANGED items
       ELSE items' = BridgedItems /\ UNCHANGED <<stage, rows, told, reported>>
    /\ UNCHANGED <<file, preview>>

\* A file the workspace has already is not received again, whatever became of it.
ReceiveFile ==
    /\ stage = "none"
    /\ file' \in {f \in Files : IsAccepted(f)}
    /\ stage' = "queued"
    /\ UNCHANGED <<preview, rows, items, told, reported, migrated>>

\* A fact keeps the number it has in the answer.
PreviewOf(answer) == [n \in {m \in DOMAIN answer : IsLocatable(answer[m])} |-> Located(answer[n])]

\* The worker reads the document; an unreadable one fails.
ExtractPreview ==
    /\ stage = "queued"
    /\ IF IsReadableFile
       THEN \E answer \in Answers :
               preview' = PreviewOf(answer) /\ stage' = "awaiting_confirmation"
       ELSE stage' = "failed" /\ UNCHANGED preview
    /\ UNCHANGED <<file, rows, items, told, reported, migrated>>

\* validatedEvidenceLocator: every fact is located as its kind of document locates.
IsConfirmable ==
    /\ stage = "awaiting_confirmation" /\ preview # <<>>
    /\ \A n \in DOMAIN preview : IsImage <=> preview[n].quote = NoQuote

\* The user confirms the preview: the rows quote, the items carry the values.
ConfirmEvidence ==
    /\ IsConfirmable
    /\ stage' = "confirmed"
    /\ rows' = {[fact |-> n, page |-> preview[n].page, text |-> "quotation", quarantined |-> FALSE] :
                    n \in {m \in DOMAIN preview : preview[m].quote # NoQuote /\ ~IsImage}}
    /\ items' = {[fact |-> n, image |-> IsImage,
                  accepted |-> IsAcceptedByDatabase(Submitted(preview[n]), preview[n])] :
                    n \in DOMAIN preview}
    /\ UNCHANGED <<file, preview, told, reported, migrated>>

\* processConfirmedSource; an empty bundle goes back to "confirmed", to be tried again.
IngestEvidence ==
    /\ stage = "confirmed" /\ migrated
    /\ EvidenceBundle # {}
    /\ stage' = "ready"
    /\ told' = IF IsImageWithoutExactQuote THEN told ELSE EvidenceBundle
    /\ UNCHANGED <<file, preview, rows, items, reported, migrated>>

\* A scan of the migrated application cites what it reads; the deal is eligible from
\* its confirmation on.
ReportEvidence ==
    /\ stage \in {"confirmed", "ready"} /\ migrated
    /\ reported' = reported \cup EvidenceBundle
    /\ UNCHANGED <<file, stage, preview, rows, items, told, migrated>>

EvidenceNext == ReportEvidence \/ Migrate \/ ReceiveFile \/ ExtractPreview \/ ConfirmEvidence \/ IngestEvidence

EvidenceSpec == EvidenceInit /\ [][EvidenceNext]_uploadEvidenceVars

-----------------------------------------------------------------------------

\* What an analysis or XTrace is given can be traced to the file: text shown as a
\* quotation stands whole on the page it names and is never a model's summary; the
\* database accepts exactly the values the application found complete, and unless
\* it comes from an image the quotation states every part of an accepted value; a
\* ready document can be read, all of it if it is not an image.
EvidenceTraceable ==
    migrated =>
        /\ \A e \in EvidenceBundle \cup told \cup reported : e.shown # "summary"
        /\ \A r \in rows : ~r.quarantined =>
              \E i \in DOMAIN Occurrences(preview[r.fact].quote) :
                  Occurrences(preview[r.fact].quote)[i] = [page |-> r.page, whole |-> TRUE]
        /\ \A i \in items :
              /\ i.accepted = IsComplete(preview[i.fact])
              /\ i.accepted /\ ~i.image => PartsOf(preview[i.fact].structured) \subseteq preview[i.fact].stated
        /\ stage = "ready" => EvidenceBundle # {}
        /\ stage = "ready" /\ ~IsImage => {e.fact : e \in told} = DOMAIN preview
=============================================================================
