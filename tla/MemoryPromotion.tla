---------------------------- MODULE MemoryPromotion ----------------------------
(***************************************************************************)
(* The confirmation of uploads by the in-memory repositories, which have   *)
(* no transactions.  Under the locks of the upload, its source and its     *)
(* deal a promotion makes the source revision, the assignment, the         *)
(* evidence items and the confirmed row one after the other; each step may *)
(* throw, and then compare-and-restore takes back what it finds of the     *)
(* promotion.  Ordinary assignments, appended revisions and the promotions *)
(* of other uploads go on meanwhile; no lock covers a company.             *)
(***************************************************************************)
EXTENDS Naturals, FiniteSets

CONSTANTS
    Promotions,         \* confirmations that may run at once
    PendingUploads,     \* an upload names its source, its revision and the deal it may found
    LaterRevisions,     \* function: the source of each other revision
    CompanyOf,          \* function: the company of each deal
    AssignmentRequests, \* the request ids of ordinary assignments
    ItemCount,          \* the evidence items of an upload, put in order
    Nothing,            \* no deal, no request
    MaxThrows           \* bound on the steps that throw

RegistryDeals == DOMAIN CompanyOf
SourceOfRevision ==
    [r \in PendingUploads \cup DOMAIN LaterRevisions |->
        IF r \in PendingUploads THEN r ELSE LaterRevisions[r]]
AllRevisions == DOMAIN SourceOfRevision

\* stableId: the deals and companies that uploads found are their own.
ASSUME PromotionAssumption ==
    /\ PendingUploads \subseteq RegistryDeals
    /\ \A u, v \in PendingUploads : CompanyOf[u] = CompanyOf[v] => u = v
    /\ PendingUploads \cap DOMAIN LaterRevisions = {}
    /\ PendingUploads \cap AssignmentRequests = {}
    /\ Nothing \notin RegistryDeals \cup AssignmentRequests
    /\ ItemCount \in Nat \ {0} /\ MaxThrows \in Nat

VARIABLES
    known,              \* the source registry: its revisions
    registered,         \* the deal registry: the deals that exist,
    activeIn,           \*   the active revisions each deal's row carries,
    companies,
    assignments,
    requested,          \*   per request: the request whose assignment answers it,
    remembered,         \*   per deal: the upload whose facts are its memory bundle,
    exactBundles        \*   and the deals and revisions with an exact source bundle

dealVars == <<registered, activeIn, companies, assignments, requested, remembered, exactBundles>>

VARIABLES
    evidenceOf,         \* per upload: its evidence items, each with its deal
    confirmedFor,       \* per upload: the deal its row is confirmed for
    promotion,          \* per confirmation: where it is and what it captured
    answered,           \* the assignments that callers were told of
    throws

promotionVars == <<known, dealVars, evidenceOf, confirmedFor, promotion, answered, throws>>

NoPromotion == [pc |-> "idle", upload |-> Nothing, deal |-> Nothing, step |-> "none",
                before |-> Nothing, expected |-> Nothing]

PromotionInit ==
    /\ known = {r \in DOMAIN LaterRevisions : LaterRevisions[r] \notin PendingUploads}
    /\ registered = {} /\ companies = {} /\ assignments = {} /\ exactBundles = {}
    /\ activeIn = [d \in RegistryDeals |-> {}]
    /\ remembered = [d \in RegistryDeals |-> Nothing]
    /\ requested = [q \in PendingUploads \cup AssignmentRequests |-> Nothing]
    /\ evidenceOf = [u \in PendingUploads |-> {}]
    /\ confirmedFor = [u \in PendingUploads |-> Nothing]
    /\ promotion = [p \in Promotions |-> NoPromotion]
    /\ answered = {} /\ throws = 0

-----------------------------------------------------------------------------
(* The locks of withMemoryKeyLock: an upload's is held for the whole confirmation,  *)
(* the source's and the deal's from where promoteMemoryAtomically takes them.       *)

PC(p) == promotion[p].pc
HoldsUpload(p, u) == PC(p) # "idle" /\ promotion[p].upload = u
HoldsSource(p, u) == PC(p) \notin {"idle", "confirm"} /\ promotion[p].upload = u
HoldsDeal(p, d) == PC(p) \notin {"idle", "confirm", "source"} /\ promotion[p].deal = d

UploadIsFree(u) == \A p \in Promotions : ~HoldsUpload(p, u)
SourceIsFree(s) == \A p \in Promotions : ~HoldsSource(p, s)
DealIsFree(d) == \A p \in Promotions : ~HoldsDeal(p, d)

-----------------------------------------------------------------------------
(* capturePromotionState of the four repositories. *)

DealState(u, d) ==
    [exists |-> d \in registered, active |-> activeIn[d], company |-> CompanyOf[d] \in companies,
     rows |-> {a \in assignments : a.deal = d /\ SourceOfRevision[a.revision] = u},
     request |-> requested[u], memory |-> remembered[d], exact |-> <<d, u>> \in exactBundles]

Captured(u, d) ==
    [source |-> u \in known, deal |-> DealState(u, d),
     evidence |-> evidenceOf[u], upload |-> confirmedFor[u]]

\* The state expected after a step is captured when the promotion goes on.
CapturedAfter(p, step) ==
    [promotion[p].expected EXCEPT ![step] = Captured(promotion[p].upload, promotion[p].deal)[step]]

-----------------------------------------------------------------------------
(* confirmSourceAssignmentUnlocked *)

LiveRow(q, d, r) == [request |-> q, deal |-> d, revision |-> r, live |-> TRUE]

IsAssigned(d, r) == \E a \in assignments : a.deal = d /\ a.revision = r /\ a.live

\* The live assignment of another revision of the source is superseded.
Superseded(d, r) ==
    {IF a.deal = d /\ SourceOfRevision[a.revision] = SourceOfRevision[r]
     THEN [a EXCEPT !.live = FALSE] ELSE a : a \in assignments}

ActiveRows(rows, d) == {a.revision : a \in {b \in rows : b.deal = d /\ b.live}}

\* A request is answered from the assignment it has; else the deal, its company and its
\* bundles follow the assignments.  Only an upload brings facts.
ConfirmAssignment(q, d, r) ==
    IF requested[q] # Nothing THEN UNCHANGED dealVars
    ELSE /\ IF IsAssigned(d, r)
            THEN /\ requested' = [requested EXCEPT ![q] =
                        (CHOOSE a \in assignments : a.deal = d /\ a.revision = r /\ a.live).request]
                 /\ UNCHANGED assignments
            ELSE /\ requested' = [requested EXCEPT ![q] = q]
                 /\ assignments' = Superseded(d, r) \cup {LiveRow(q, d, r)}
         /\ registered' = registered \cup {d}
         /\ activeIn' = [activeIn EXCEPT ![d] = ActiveRows(assignments', d)]
         /\ companies' = companies \cup {CompanyOf[d]}
         /\ remembered' = IF q \in PendingUploads THEN [remembered EXCEPT ![d] = q] ELSE remembered
         /\ exactBundles' = exactBundles \cup {<<d, r>>}

\* A mutant: an ordinary assignment does not wait for the deal's lock.
AssignUnlocked(q, d, r) ==
    /\ r \in known
    /\ r \in PendingUploads => \E a \in answered : a[2] = r
    /\ requested[q] = Nothing
    /\ ConfirmAssignment(q, d, r)
    /\ answered' = answered \cup {<<d, r>>}
    /\ UNCHANGED <<known, evidenceOf, confirmedFor, promotion, throws>>

\* An ordinary assignment, under the deal's lock; its caller knows the revision from the
\* corpus or from an answer.
AssignOrdinarily(q, d, r) ==
    /\ DealIsFree(d)
    /\ r \in known
    /\ r \in PendingUploads => \E a \in answered : a[2] = r
    /\ requested[q] = Nothing
    /\ ConfirmAssignment(q, d, r)
    /\ answered' = answered \cup {<<d, r>>}
    /\ UNCHANGED <<known, evidenceOf, confirmedFor, promotion, throws>>

\* appendRevision, under the source's lock; the source must have a revision.
AppendLaterRevision(r) ==
    /\ r \notin known
    /\ SourceIsFree(LaterRevisions[r]) /\ LaterRevisions[r] \in known
    /\ known' = known \cup {r}
    /\ UNCHANGED <<dealVars, evidenceOf, confirmedFor, promotion, answered, throws>>

-----------------------------------------------------------------------------
(* confirm *)

GoesOn(p, record) == promotion' = [promotion EXCEPT ![p] = record]

\* The deal is the one the upload founds or one that exists, which another promotion may
\* yet take back.  A row confirmed for it is answered; for another it is a conflict.
AskConfirmation(p, u, d) ==
    /\ PC(p) = "idle" /\ UploadIsFree(u)
    /\ d = u \/ d \in registered
    /\ \/ /\ confirmedFor[u] = Nothing
          /\ GoesOn(p, [NoPromotion EXCEPT !.pc = "confirm", !.upload = u, !.deal = d])
          /\ UNCHANGED answered
       \/ /\ confirmedFor[u] = d
          /\ answered' = answered \cup {<<d, u>>}
          /\ UNCHANGED promotion
    /\ UNCHANGED <<known, dealVars, evidenceOf, confirmedFor, throws>>

LockSource(p) ==
    /\ PC(p) = "confirm" /\ SourceIsFree(promotion[p].upload)
    /\ GoesOn(p, [promotion[p] EXCEPT !.pc = "source"])
    /\ UNCHANGED <<known, dealVars, evidenceOf, confirmedFor, answered, throws>>

\* With the deal's lock the four states are captured and the revision is made.
LockDealAndRevise(p) ==
    LET u == promotion[p].upload
        d == promotion[p].deal
        captured == [promotion[p] EXCEPT !.before = Captured(u, d), !.expected = Captured(u, d)] IN
    /\ PC(p) = "source" /\ DealIsFree(d)
    /\ \/ /\ GoesOn(p, [captured EXCEPT !.pc = "revised"])
          /\ known' = known \cup {u}
          /\ UNCHANGED throws
       \/ /\ GoesOn(p, [captured EXCEPT !.pc = "threw", !.step = "source"])
          /\ throws < MaxThrows /\ throws' = throws + 1
          /\ UNCHANGED known
    /\ UNCHANGED <<dealVars, evidenceOf, confirmedFor, answered>>

Throws(p, step, expected) ==
    /\ throws < MaxThrows /\ throws' = throws + 1
    /\ GoesOn(p, [promotion[p] EXCEPT !.pc = "threw", !.step = step, !.expected = expected])

PassesTo(p, pc, expected) ==
    /\ GoesOn(p, [promotion[p] EXCEPT !.pc = pc, !.expected = expected])
    /\ UNCHANGED throws

AssignPromoted(p) ==
    LET expected == CapturedAfter(p, "source") IN
    /\ PC(p) = "revised"
    /\ \/ /\ PassesTo(p, "assigned", expected)
          /\ ConfirmAssignment(promotion[p].upload, promotion[p].deal, promotion[p].upload)
       \/ Throws(p, "deal", expected) /\ UNCHANGED dealVars
    /\ UNCHANGED <<known, evidenceOf, confirmedFor, answered>>

\* The items are put one by one; an item that is there must be of the same deal.
PutItems(p, n) ==
    LET u == promotion[p].upload
    IN evidenceOf' = [evidenceOf EXCEPT ![u] = @ \cup ((1..n) \X {promotion[p].deal})]

PutEvidence(p) ==
    LET expected == CapturedAfter(p, "deal") IN
    /\ PC(p) = "assigned"
    /\ \/ /\ \A e \in evidenceOf[promotion[p].upload] : e[2] = promotion[p].deal
          /\ PassesTo(p, "evidenced", expected) /\ PutItems(p, ItemCount)
       \/ \E n \in 0..(ItemCount - 1) : Throws(p, "evidence", expected) /\ PutItems(p, n)
    /\ UNCHANGED <<known, dealVars, confirmedFor, answered>>

MarkConfirmed(p) ==
    LET expected == CapturedAfter(p, "evidence") IN
    /\ PC(p) = "evidenced"
    /\ \/ /\ PassesTo(p, "marked", expected)
          /\ confirmedFor' = [confirmedFor EXCEPT ![promotion[p].upload] = promotion[p].deal]
       \/ Throws(p, "upload", expected) /\ UNCHANGED confirmedFor
    /\ UNCHANGED <<known, dealVars, evidenceOf, answered>>

\* The locks are released and the user is answered.
AnswerPromoted(p) ==
    /\ PC(p) = "marked"
    /\ answered' = answered \cup {<<promotion[p].deal, promotion[p].upload>>}
    /\ GoesOn(p, NoPromotion)
    /\ UNCHANGED <<known, dealVars, evidenceOf, confirmedFor, throws>>

-----------------------------------------------------------------------------
(* restorePromotionState of the four repositories: what is as expected becomes what *)
(* it was before, what somebody changed since stays.                                *)

RestoreUpload(u, before, expected) ==
    confirmedFor' = [confirmedFor EXCEPT ![u] = IF @ = expected.upload THEN before.upload ELSE @]

ItemsAt(items, n) == {e \in items : e[1] = n}

RestoreEvidence(u, before, expected) ==
    evidenceOf' = [evidenceOf EXCEPT ![u] =
        UNION {IF ItemsAt(@, n) = ItemsAt(expected.evidence, n)
               THEN ItemsAt(before.evidence, n) ELSE ItemsAt(@, n) : n \in 1..ItemCount}]

RestoreSource(u, before, expected) ==
    known' = IF (u \in known) # expected.source THEN known
             ELSE IF before.source THEN known \cup {u} ELSE known \ {u}

\* Rows as expected go back to what they were or, if new, go; rows that are missing return.
RestoredRows(before, expected) ==
    {a \in assignments : a \notin expected.rows}
    \cup {b \in before.rows :
            \/ \E a \in expected.rows \cap assignments : a.request = b.request
            \/ \A a \in expected.rows \cup assignments : a.request # b.request}

RestoreDealWhole(u, d, before, expected) ==
    /\ assignments' = RestoredRows(before, expected)
    /\ requested' = [requested EXCEPT ![u] = IF @ = expected.request THEN before.request ELSE @]
    /\ remembered' = [remembered EXCEPT ![d] = IF @ = expected.memory THEN before.memory ELSE @]
    /\ exactBundles' =
        IF (<<d, u>> \in exactBundles) # expected.exact THEN exactBundles
        ELSE IF before.exact THEN exactBundles \cup {<<d, u>>} ELSE exactBundles \ {<<d, u>>}
    /\ IF (d \in registered) = expected.exists /\ activeIn[d] = expected.active
       THEN /\ registered' = IF before.exists THEN registered \cup {d} ELSE registered \ {d}
            /\ activeIn' = [activeIn EXCEPT ![d] = before.active]
       ELSE UNCHANGED <<registered, activeIn>>

\* A company that is new goes unless a deal is left of it.
RestoreCompany(d, before, expected) ==
    companies' =
        IF (CompanyOf[d] \in companies) # expected.company THEN companies
        ELSE IF before.company THEN companies \cup {CompanyOf[d]}
        ELSE companies \ {c \in {CompanyOf[d]} : \A e \in registered' : CompanyOf[e] # c}

Compensate(p) ==
    LET u == promotion[p].upload
        d == promotion[p].deal
        before == promotion[p].before
        expected == CapturedAfter(p, promotion[p].step) IN
    /\ PC(p) = "threw"
    /\ RestoreUpload(u, before, expected)
    /\ RestoreEvidence(u, before, expected)
    /\ RestoreDealWhole(u, d, before.deal, expected.deal)
    /\ RestoreCompany(d, before.deal, expected.deal)
    /\ RestoreSource(u, before, expected)
    /\ GoesOn(p, NoPromotion)
    /\ UNCHANGED <<answered, throws>>

-----------------------------------------------------------------------------
PromotionNext ==
    \/ \E p \in Promotions :
        \/ \E u \in PendingUploads, d \in RegistryDeals : AskConfirmation(p, u, d)
        \/ LockSource(p) \/ LockDealAndRevise(p)
        \/ AssignPromoted(p) \/ PutEvidence(p) \/ MarkConfirmed(p)
        \/ AnswerPromoted(p) \/ Compensate(p)
    \/ \E q \in AssignmentRequests, d \in RegistryDeals, r \in AllRevisions : AssignOrdinarily(q, d, r)
    \/ \E r \in DOMAIN LaterRevisions : AppendLaterRevision(r)

PromotionSpec == PromotionInit /\ [][PromotionNext]_promotionVars

-----------------------------------------------------------------------------
(* Properties. *)

\* Nothing of the upload is anywhere.
LeavesNoTrace(u) ==
    /\ u \notin known
    /\ \A a \in assignments : SourceOfRevision[a.revision] # u
    /\ requested[u] = Nothing /\ evidenceOf[u] = {}
    /\ \A d \in RegistryDeals : remembered[d] # u /\ <<d, u>> \notin exactBundles

\* Everything of the upload is there.
IsPromotedTo(u, d) ==
    /\ u \in known
    /\ \E a \in assignments : a.request = u /\ a.deal = d /\ a.revision = u
    /\ evidenceOf[u] = (1..ItemCount) \X {d}
    /\ <<d, u>> \in exactBundles

\* A deal's row carries the revisions that are live, and is there if it has any.
DealAgrees(d) ==
    /\ activeIn[d] = ActiveRows(assignments, d)
    /\ (d \in registered) = (activeIn[d] # {})

\* A confirmation is whole although no transaction makes it: an upload nobody promotes is
\* promoted entirely or not at all, the failures included; at every moment the rows of
\* the deals agree with their assignments, of revisions that exist, and a company is kept
\* as long as a deal is of it and no longer; and no rollback takes away an assignment that
\* another caller was told of.
PromotionsAreWhole ==
    /\ \A u \in PendingUploads : UploadIsFree(u) =>
          IF confirmedFor[u] = Nothing THEN LeavesNoTrace(u) ELSE IsPromotedTo(u, confirmedFor[u])
    /\ \A d \in RegistryDeals : DealAgrees(d)
    /\ \A a \in assignments : a.revision \in known
    /\ companies = {CompanyOf[d] : d \in registered}
    /\ \A pair \in answered : \E a \in assignments : a.deal = pair[1] /\ a.revision = pair[2]
=============================================================================
