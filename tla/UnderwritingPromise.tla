------------------------- MODULE UnderwritingPromise -------------------------
(***************************************************************************)
(* What underwriting promises of its candidates and of the status a batch  *)
(* shows: a candidate proposed is settled at most once and for good, and a *)
(* batch shows a verdict only if it is the true one.                       *)
(***************************************************************************)
EXTENDS FiniteSets

CONSTANTS Batches, Deals

VARIABLES
    outcome,    \* per batch and deal: "none", "pending", or how it was settled
    published   \* per batch: "none" before it exists, "open", or a verdict

vars == <<outcome, published>>

Outcomes == {"completed", "unavailable", "failed"}

Init ==
    /\ outcome = [b \in Batches |-> [d \in Deals |-> "none"]]
    /\ published = [b \in Batches |-> "none"]

\* What a batch may show, given its candidates' outcomes.
Truth(o) ==
    LET results == {o[d] : d \in Deals} \ {"none"} IN
    IF "pending" \in results THEN "open"
    ELSE IF results \subseteq {"completed"} THEN "completed"
    ELSE IF "completed" \notin results THEN "failed"
    ELSE "partial"

Publish(b) == \E s \in {"open", Truth(outcome'[b])} : published' = [published EXCEPT ![b] = s]

Propose(b) == \E D \in SUBSET Deals :
    /\ published[b] # "none"
    /\ outcome' = [outcome EXCEPT ![b] =
                      [d \in Deals |-> IF d \in D /\ @[d] = "none" THEN "pending" ELSE @[d]]]
    /\ Publish(b)

Settle(b, d) == \E o \in Outcomes :
    /\ outcome[b][d] = "pending"
    /\ outcome' = [outcome EXCEPT ![b][d] = o]
    /\ Publish(b)

\* A batch is opened, or what it shows is brought up to date.
Show(b) == UNCHANGED outcome /\ Publish(b)

Next == \E b \in Batches : Propose(b) \/ Show(b) \/ \E d \in Deals : Settle(b, d)

Spec == Init /\ [][Next]_vars
=============================================================================
