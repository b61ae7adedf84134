--------------------------- MODULE UnderwritingRuns ---------------------------
(***************************************************************************)
(* The tables underwriting_batches, underwriting_selections,               *)
(* candidate_runs and candidate_checkpoints and the stored functions that  *)
(* write them.                                                             *)
(*                                                                         *)
(* A batch is identified by its input fingerprint (its print) and, for a   *)
(* forced refresh, by the nonce: the two unique indexes of the table.  A   *)
(* candidate is identified by its batch and deal.  An analysis fingerprint *)
(* is the batch's print, the deal and a variant, which stands for all that *)
(* one execution may compute differently from another.                     *)
(*                                                                         *)
(* Operators here say what a function does to the rows; UnderwritingWorker *)
(* says when it runs.                                                      *)
(***************************************************************************)
EXTENDS Naturals, Sequences, FiniteSets

CONSTANTS
    Deals,      \* the eligible deals
    Prints,     \* batch input fingerprints
    Nonces,     \* refresh nonces
    NoNonce,    \* the nonce of an ordinary batch
    Variants,   \* what an execution may compute
    NoVariant,  \* no analysis
    Ranked      \* per print: the deals qualifiedCandidates selects, best first

ASSUME UnderwritingRunsAssumption ==
    /\ NoNonce \notin Nonces
    /\ NoVariant \notin Variants
    /\ NoVariant # "failed"
    /\ "failed" \notin Variants
    /\ Prints # {}
    /\ Ranked \in [Prints -> Seq(Deals)]
    /\ \A p \in Prints : \A i, j \in 1..Len(Ranked[p]) :
           Ranked[p][i] = Ranked[p][j] => i = j

Batches == [print : Prints, nonce : Nonces \cup {NoNonce}]

\* A forced batch reruns the ordinary batch of the same print.
Ordinary(p) == [print |-> p, nonce |-> NoNonce]

Selected(b) == {Ranked[b.print][i] : i \in 1..Len(Ranked[b.print])}

Settled == {"completed", "unavailable", "failed"}

CandidateStatus == {"absent", "queued", "running"} \cup Settled

Verdicts == {"running", "completed", "partial", "failed"}

VARIABLES
    batch,      \* per batch: its row's status, "absent" before the row exists
    ranked,     \* the batches whose selections are saved
    cand        \* per batch and deal: the candidate row

(* claims: how many leases were granted; the latest one is the valid token. *)
(* fresh: the lease has not run out.  linked: rerun_of_id is set.           *)
(* source: who owns the artifacts.  saved: the finalization checkpoint, the *)
(* variant it holds when it is completed.                                   *)
Candidate == [status : CandidateStatus,
              claims : Nat,
              fresh : BOOLEAN,
              linked : BOOLEAN,
              source : {"none", "own", "reused"},
              analysis : Variants \cup {NoVariant},
              saved : Variants \cup {NoVariant, "failed"}]

Absent == [status |-> "absent", claims |-> 0, fresh |-> FALSE, linked |-> FALSE,
           source |-> "none", analysis |-> NoVariant, saved |-> NoVariant]

RunsTypeOK ==
    /\ batch \in [Batches -> {"absent", "queued"} \cup Verdicts]
    /\ ranked \subseteq Batches
    /\ cand \in [Batches -> [Deals -> Candidate]]

RunsInit ==
    /\ batch = [b \in Batches |-> "absent"]
    /\ ranked = {}
    /\ cand = [b \in Batches |-> [d \in Deals |-> Absent]]

-----------------------------------------------------------------------------
(* refresh_underwriting_batch_status, over the candidate rows it counts. *)

Present(rows) == {d \in Deals : rows[d].status # "absent"}

AllIn(rows, S) == \A d \in Present(rows) : rows[d].status \in S

Aggregate(rows) ==
    IF ~AllIn(rows, Settled) THEN "running"
    ELSE IF AllIn(rows, {"completed"}) THEN "completed"
    ELSE IF AllIn(rows, {"unavailable", "failed"}) THEN "failed"
    ELSE "partial"

Refreshed(b, old, rows, hasRanks) ==
    IF Present(rows) # {} THEN Aggregate(rows)
    ELSE IF hasRanks /\ Selected(b) = {} THEN "completed"
    ELSE old

-----------------------------------------------------------------------------
(* One candidate row. *)

Claimable(c) == c.status = "queued" \/ (c.status = "running" /\ ~c.fresh)

ClaimedRow(c) == [c EXCEPT !.status = "running", !.claims = @ + 1, !.fresh = TRUE]

\* The lease check of save_underwriting_checkpoint and of finalization.  Every
\* process uses the same worker id: only the token tells them apart.
Holds(c, token) == c.status = "running" /\ c.claims = token /\ c.fresh

MarkableAgain(c) == c.status \in {"queued", "running", "completed"}

\* mark_candidate_underwriting_unavailable and _failed check no token.
Markable(c) == c.status \in {"queued", "running"}

MarkedRow(c, s) == [c EXCEPT !.status = s, !.fresh = FALSE]

\* The parent's artifacts serve a rerun that computed the same analysis.
Reusable(b, d, v) ==
    LET parent == cand[Ordinary(b.print)][d] IN
    /\ cand[b][d].linked
    /\ parent.status = "completed"
    /\ parent.analysis = v
    /\ parent.source = "own"

\* candidate_runs_completed_fingerprint_unique
Taken(b, d, v) == \E o \in Batches :
    /\ o.print = b.print
    /\ cand[o][d].status = "completed"
    /\ cand[o][d].source = "own"
    /\ cand[o][d].analysis = v

FinalizableAnyway(b, d, v) == v \in Variants

Finalizable(b, d, v) == Reusable(b, d, v) \/ ~Taken(b, d, v)

FinalizedRow(b, d, v) ==
    [cand[b][d] EXCEPT !.status = "completed", !.fresh = FALSE, !.analysis = v,
                       !.source = IF Reusable(b, d, v) THEN "reused" ELSE "own"]

\* save_underwriting_checkpoint of the stage "finalization": a completed one is
\* immutable, saving it again with the same content does nothing.
Savable(c, v) == c.saved \in Variants => c.saved = v

SavedRow(c, v) == [c EXCEPT !.saved = v]

-----------------------------------------------------------------------------
(* Whole functions that lock the batch row. *)

InsertBatch(b) ==
    /\ batch' = [batch EXCEPT ![b] = "queued"]
    /\ UNCHANGED <<ranked, cand>>

SaveSelections(b) ==
    /\ ranked' = ranked \cup {b}
    /\ batch' = [batch EXCEPT ![b] = Refreshed(b, @, cand[b], TRUE)]
    /\ UNCHANGED cand

\* A queued row for every selected deal that has none; a rerun is linked to the
\* parent batch's candidate if that exists by now.
QueuedRow(b, d) ==
    [Absent EXCEPT !.status = "queued",
                   !.linked = /\ b.nonce # NoNonce
                              /\ cand[Ordinary(b.print)][d].status # "absent"]

CreateSelected(b) ==
    LET rows == [d \in Deals |->
                    IF d \in Selected(b) /\ cand[b][d].status = "absent"
                    THEN QueuedRow(b, d) ELSE cand[b][d]]
    IN /\ cand' = [cand EXCEPT ![b] = rows]
       /\ batch' = [batch EXCEPT ![b] = Refreshed(b, @, rows, b \in ranked)]
       /\ UNCHANGED ranked

\* A function that rewrites one candidate and stores the status it tallied.
SetCandidate(b, d, row, tally) ==
    /\ cand' = [cand EXCEPT ![b][d] = row]
    /\ batch' = [batch EXCEPT ![b] = tally]
    /\ UNCHANGED ranked

\* The lease's 120 seconds have passed.
ExpireLease(b, d) ==
    /\ cand[b][d].status = "running"
    /\ cand[b][d].fresh
    /\ cand' = [cand EXCEPT ![b][d].fresh = FALSE]
    /\ UNCHANGED <<batch, ranked>>
=============================================================================
