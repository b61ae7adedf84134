-------------------------- MODULE MCUploadEvidence --------------------------
(* Files and answers for UploadEvidence.                                       *)
EXTENDS UploadEvidence

None == "none"

\* In the PDF the quote "split" first runs over a page break and then stands on page 2;
\* "ghost" is nowhere.
At(page, whole) == [page |-> page, whole |-> whole]
Upload(kind, readable, at) ==
    [kind |-> kind, named |-> TRUE, signed |-> TRUE, readable |-> readable, at |-> at]
TextAt == [plain |-> <<At(1, TRUE), At(1, TRUE)>>, split |-> <<At(1, TRUE)>>, ghost |-> <<>>]
PdfAt == [plain |-> <<At(1, TRUE)>>, split |-> <<At(1, FALSE), At(2, TRUE)>>, ghost |-> <<At(1, FALSE)>>]
ImageAt == [plain |-> <<>>, split |-> <<>>, ghost |-> <<>>]
MCFiles ==
    {Upload("text", TRUE, TextAt), Upload("office", TRUE, TextAt), Upload("pdf", TRUE, PdfAt),
     Upload("image", TRUE, ImageAt), Upload("pdf", FALSE, PdfAt)}
    \cup {[Upload("image", TRUE, ImageAt) EXCEPT !.signed = FALSE]}

\* A complete value of each category, and everything one or two parts away from it.
Value(category, unit, currency, value) ==
    [category |-> category, unit |-> unit, currency |-> currency, value |-> value,
     period |-> "ordered", time |-> "proper"]
Complete == {Value("currency", "currency", "USD", "money"), Value("rate", "percent", None, "number"),
             Value("text", None, None, "words")}
Parts == [category : {"currency", "rate", "text", "unknown"}, unit : {"currency", "percent", "other", None},
          currency : {"USD", "EUR", None}, value : {"money", "number", "percent", "words", "blank"},
          period : {None, "one_sided", "reversed", "ordered"}, time : {None, "improper", "proper"}]
Distance(s, t) == Cardinality({p \in DOMAIN s : s[p] # t[p]})
Structures == {s \in Parts : \E t \in Complete : Distance(s, t) <= 2}

AllParts == {"field", "value", "currency", "percent", "period", "time"}
Claimed(quote, structured, stated) == [quote |-> quote, structured |-> structured, stated |-> stated]
Prose(quote) == Claimed(quote, NoStructure, {})
MCAnswers ==
    {<<Claimed("split", s, stated)>> : s \in Structures,
        stated \in {AllParts} \cup {AllParts \ {p} : p \in AllParts}}
    \cup {<<Prose(q), Claimed(r, s, AllParts)>> :
             q \in {"plain", "ghost", None}, r \in {"plain", "ghost"}, s \in Complete}
    \cup {<<>>, <<Prose(None)>>, <<Prose("plain")>>, <<Prose("split"), Prose("plain")>>}
=============================================================================
