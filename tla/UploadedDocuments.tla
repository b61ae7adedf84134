------------------------- MODULE UploadedDocuments -------------------------
(***************************************************************************)
(* The uploaded_documents table and the functions of the database that     *)
(* change it: claim_next_uploaded_document, renew_uploaded_document_lease, *)
(* transition_uploaded_document_lease and confirm_uploaded_document.  Each *)
(* is one transaction.                                                     *)
(*                                                                         *)
(* A document stands for one content: (workspace_id, checksum) is unique.  *)
(* Its number is its created_at rank.  Of an extraction preview only its   *)
(* identity matters, of a confirmation only which Deal it chose, and the   *)
(* lease is the ticks left on the database's clock.                        *)
(*                                                                         *)
(* Definitions nothing uses are the mutated forms listed in PROJECT.json.  *)
(***************************************************************************)
EXTENDS Integers

CONSTANTS
    MaxDocs,    \* bound on the distinct contents ever uploaded
    WorkerIds,  \* values of worker_id
    NoWorker,   \* worker_id IS NULL
    Tokens,     \* lease tokens, numbered; enough for every row and worker
    NoToken,    \* lease_token IS NULL
    Previews,   \* what an extraction may come to
    NoPreview,  \* extraction_preview IS NULL
    Choices,    \* the Deal identities a user may confirm
    NoChoice,   \* confirmation_fingerprint IS NULL
    LeaseTicks  \* length of the five-minute lease

ASSUME UploadedDocumentsAssumption ==
    /\ MaxDocs \in Nat
    /\ NoWorker \notin WorkerIds
    /\ Tokens \subseteq Nat
    /\ NoToken \notin Tokens
    /\ NoPreview \notin Previews
    /\ NoChoice \notin Choices
    /\ LeaseTicks \in Nat \ {0}

VARIABLES
    status, worker, token, lease, preview, choice,
    evidence    \* per document: the source evidence inserted for it

rowVars == <<status, worker, token, lease, preview, choice, evidence>>

NoLease == -1
Docs == 1..MaxDocs
Unconfirmed == {"queued", "extracting", "awaiting_confirmation", "failed"}
Confirmed == {"confirmed", "ingesting_memory", "ready"}
Leased == {"extracting", "ingesting_memory"}
Evidence == [choice : Choices, preview : Previews]

RowsTypeOK ==
    /\ status \in [Docs -> {"absent"} \cup Unconfirmed \cup Confirmed]
    /\ worker \in [Docs -> WorkerIds \cup {NoWorker}]
    /\ token \in [Docs -> Tokens \cup {NoToken}]
    /\ lease \in [Docs -> Nat \cup {NoLease}]
    /\ preview \in [Docs -> Previews \cup {NoPreview}]
    /\ choice \in [Docs -> Choices \cup {NoChoice}]
    /\ evidence \in [Docs -> SUBSET Evidence]

RowsInit ==
    /\ status = [d \in Docs |-> "absent"]
    /\ worker = [d \in Docs |-> NoWorker]
    /\ token = [d \in Docs |-> NoToken]
    /\ lease = [d \in Docs |-> NoLease]
    /\ preview = [d \in Docs |-> NoPreview]
    /\ choice = [d \in Docs |-> NoChoice]
    /\ evidence = [d \in Docs |-> {}]

-----------------------------------------------------------------------------

\* POST /api/uploads of new bytes.  findByChecksum answers for known ones, and
\* of two requests that both found nothing the unique constraint admits one.
Upload(d) ==
    /\ status[d] = "absent"
    /\ status' = [status EXCEPT ![d] = "queued"]
    /\ UNCHANGED <<worker, token, lease, preview, choice, evidence>>

\* The status a claim for this target leads to.
ClaimedAs(target) == IF target = "queued" THEN "extracting" ELSE "ingesting_memory"

ClaimableOnce(d, target) == status[d] = target

Claimable(d, target) ==
    \/ status[d] = target
    \/ status[d] = ClaimedAs(target) /\ lease[d] = 0

KeepTokenClaim(i, d, target, t) ==
    /\ Claimable(d, target)
    /\ \A x \in Docs : Claimable(x, target) => d <= x
    /\ status' = [status EXCEPT ![d] = ClaimedAs(target)]
    /\ worker' = [worker EXCEPT ![d] = i]
    /\ token' = [token EXCEPT ![d] = IF @ = NoToken THEN t ELSE @]
    /\ lease' = [lease EXCEPT ![d] = LeaseTicks]
    /\ UNCHANGED <<preview, choice, evidence>>

\* claim_next_uploaded_document: the oldest row of the target status, or of the
\* claimed status with an expired lease, under a new token t.
ClaimNext(i, d, target, t) ==
    /\ Claimable(d, target)
    /\ \A x \in Docs : Claimable(x, target) => d <= x
    /\ status' = [status EXCEPT ![d] = ClaimedAs(target)]
    /\ worker' = [worker EXCEPT ![d] = i]
    /\ token' = [token EXCEPT ![d] = t]
    /\ lease' = [lease EXCEPT ![d] = LeaseTicks]
    /\ UNCHANGED <<preview, choice, evidence>>

HoldsByName(i, d, t) == worker[d] = i /\ lease[d] > 0

\* The conditions that renewals and transitions share.
Holds(i, d, t) == worker[d] = i /\ token[d] = t /\ lease[d] > 0

RenewableWhileExtracting(i, d, t) == status[d] = "extracting" /\ Holds(i, d, t)

Renewable(i, d, t) == status[d] \in Leased /\ Holds(i, d, t)

\* renew_uploaded_document_lease, on the database's clock.
RenewLease(i, d, t) ==
    /\ Renewable(i, d, t)
    /\ lease' = [lease EXCEPT ![d] = LeaseTicks]
    /\ UNCHANGED <<status, worker, token, preview, choice, evidence>>

Extraction == {"extraction_complete", "extraction_fail"}
Transitions == Extraction \cup {"confirmed_complete", "confirmed_fail"}

From(k) == IF k \in Extraction THEN "extracting" ELSE "ingesting_memory"

ToFailed(k) ==
    IF k = "extraction_complete" THEN "awaiting_confirmation"
    ELSE IF k = "confirmed_complete" THEN "ready"
    ELSE "failed"

To(k) ==
    IF k = "extraction_complete" THEN "awaiting_confirmation"
    ELSE IF k = "extraction_fail" THEN "failed"
    ELSE IF k = "confirmed_complete" THEN "ready"
    ELSE "confirmed"

Admits(k, i, d, t) == status[d] = From(k) /\ Holds(i, d, t)

\* transition_uploaded_document_lease when its UPDATE finds the row.
Transition(k, i, d, t, p) ==
    /\ Admits(k, i, d, t)
    /\ status' = [status EXCEPT ![d] = To(k)]
    /\ preview' = IF k = "extraction_complete" THEN [preview EXCEPT ![d] = p] ELSE preview
    /\ worker' = [worker EXCEPT ![d] = NoWorker]
    /\ token' = [token EXCEPT ![d] = NoToken]
    /\ lease' = [lease EXCEPT ![d] = NoLease]
    /\ UNCHANGED <<choice, evidence>>

PromotableAgain(d) == status[d] \in Confirmed \cup {"awaiting_confirmation"}

\* The row confirm_uploaded_document locks and is willing to promote.
Promotable(d) ==
    /\ choice[d] = NoChoice
    /\ status[d] = "awaiting_confirmation"
    /\ preview[d] # NoPreview

\* confirm_uploaded_document when it promotes: source, revision, assignment and
\* evidence are inserted and the row is confirmed in one transaction.  The
\* evidence comes with the request, computed from a preview read earlier.
Promote(d, e) ==
    /\ Promotable(d)
    /\ status' = [status EXCEPT ![d] = "confirmed"]
    /\ choice' = [choice EXCEPT ![d] = e.choice]
    /\ evidence' = [evidence EXCEPT ![d] = @ \cup {e}]
    /\ worker' = [worker EXCEPT ![d] = NoWorker]
    /\ token' = [token EXCEPT ![d] = NoToken]
    /\ lease' = [lease EXCEPT ![d] = NoLease]
    /\ UNCHANGED preview

Aged(ticks) == IF ticks > 0 THEN ticks - 1 ELSE ticks

AgeLeases ==
    /\ \E d \in Docs : lease[d] > 0
    /\ lease' = [d \in Docs |-> Aged(lease[d])]
    /\ UNCHANGED <<status, worker, token, preview, choice, evidence>>

=============================================================================
