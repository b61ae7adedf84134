-------------------------- MODULE UnderwritingWorker --------------------------
(***************************************************************************)
(* createBatchAndSelections and processCandidate of the underwriting       *)
(* orchestrator: attempts at underwriting a scan's report, one action per  *)
(* database call.  A scan that is claimed again makes a second attempt     *)
(* while the first may still be running.                                   *)
(*                                                                         *)
(* The functions that end by tallying the batch (claim, mark, finalize)    *)
(* lock only the candidate row: the tally is taken under one snapshot and  *)
(* stored when the transaction commits, so they take two steps.            *)
(* What the executor computes is abstracted to how it ends.                *)
(***************************************************************************)
EXTENDS UnderwritingRuns

CONSTANTS
    Attempts,   \* attempts; an attempt's refresh nonce is its own name
    ForceChoices, \* the values forceRefresh takes
    MaxFaults   \* bound on crashes, lost requests and lost answers

ASSUME UnderwritingWorkerAssumption ==
    /\ Nonces = Attempts
    /\ ForceChoices \subseteq BOOLEAN
    /\ MaxFaults \in Nat

VARIABLES
    job,        \* per attempt: where it is
    faults

vars == <<batch, ranked, cand, job, faults>>

(* pc "look" and "insert" are the two queries of one call, made for the     *)
(* ordinary batch and, when forced, again for the forced one.               *)
(* plan: the candidates' statuses, as createSelectedCandidates returned     *)
(* them and as processCandidate leaves them in plannedCandidates.           *)
(* tally: "none", or the batch status an open transaction will store.       *)
Job == [pc : {"off", "look", "insert", "select", "create", "claim", "execute", "checkpoint",
              "finalize", "note", "unavailable", "failed", "done", "threw"},
        force : BOOLEAN,
        on : Batches,
        plan : Seq(CandidateStatus),
        pos : Nat,
        token : Nat,
        result : Variants \cup {NoVariant},
        tally : Verdicts \cup {"none"}]

JobTypeOK ==
    /\ job \in [Attempts -> Job]
    /\ faults \in 0..MaxFaults

TypeOK == RunsTypeOK /\ JobTypeOK

Start(p, force) ==
    [pc |-> "look", force |-> force, on |-> Ordinary(p), plan |-> <<>>, pos |-> 0,
     token |-> 0, result |-> NoVariant, tally |-> "none"]

NotStarted == [Start(CHOOSE p \in Prints : TRUE, FALSE) EXCEPT !.pc = "off"]

Init ==
    /\ RunsInit
    /\ job = [a \in Attempts |-> NotStarted]
    /\ faults = 0

-----------------------------------------------------------------------------
(* Where control goes. *)

Deal(j) == Ranked[j.on.print][j.pos]

Row(j) == cand[j.on][Deal(j)]

\* The loop over the candidates: those planned as settled are passed over.
Enter(j, i) ==
    LET left == {k \in i..Len(j.plan) : j.plan[k] \notin Settled} IN
    IF left = {} THEN [j EXCEPT !.pc = "done", !.token = 0, !.result = NoVariant, !.pos = 0]
    ELSE [j EXCEPT !.pc = "claim", !.token = 0, !.result = NoVariant,
                   !.pos = CHOOSE k \in left : \A l \in left : k <= l]

\* processCandidate returns with status s.
Processed(j, s) == Enter([j EXCEPT !.plan[j.pos] = s], j.pos + 1)

\* The ordinary batch is there; a forced refresh makes a batch of its own.
BatchFound(a, j) ==
    IF j.force /\ j.on.nonce = NoNonce THEN [j EXCEPT !.pc = "look", !.on.nonce = a]
    ELSE [j EXCEPT !.pc = "select"]

CarriesOn(j) ==
    IF j.pc = "checkpoint" THEN [j EXCEPT !.pc = "finalize"]
    ELSE IF j.pc \in {"finalize", "note", "unavailable"} THEN [j EXCEPT !.pc = "failed"]
    ELSE [j EXCEPT !.pc = "threw"]

Swallowed(j) ==
    IF j.pc = "failed" THEN Processed(j, "failed")
    ELSE IF j.pc \in {"checkpoint", "finalize", "note", "unavailable"}
    THEN [j EXCEPT !.pc = "failed"]
    ELSE [j EXCEPT !.pc = "threw"]

\* An await rejects: what is caught, and where.
Thrown(j) ==
    IF j.pc \in {"checkpoint", "finalize", "note", "unavailable"}
    THEN [j EXCEPT !.pc = "failed"]
    ELSE [j EXCEPT !.pc = "threw"]

Go(a, j) == job' = [job EXCEPT ![a] = j]

\* The database did its part: the answer arrives, or it is lost.
Answer(a, j) ==
    \/ Go(a, j) /\ UNCHANGED faults
    \/ /\ faults < MaxFaults
       /\ faults' = faults + 1
       /\ Go(a, Thrown(job[a]))

Refused(a) ==
    /\ Go(a, Thrown(job[a]))
    /\ UNCHANGED <<batch, ranked, cand, faults>>

Moves(a, j) == Go(a, j) /\ UNCHANGED <<batch, ranked, cand, faults>>

-----------------------------------------------------------------------------
(* createBatchAndSelections *)

Begin(a) == job[a].pc = "off" /\ \E p \in Prints, f \in ForceChoices : Moves(a, Start(p, f))

\* The select of create_or_reuse_underwriting_batch.
LookUp(a) ==
    LET j == job[a] IN
    /\ j.pc = "look"
    /\ IF batch[j.on] # "absent"
       THEN Answer(a, BatchFound(a, j)) /\ UNCHANGED <<batch, ranked, cand>>
       ELSE Moves(a, [j EXCEPT !.pc = "insert"])

\* Its insert, which a row inserted since makes fail.
Insert(a) ==
    LET j == job[a] IN
    /\ j.pc = "insert"
    /\ IF batch[j.on] # "absent" THEN Refused(a)
       ELSE InsertBatch(j.on) /\ Answer(a, BatchFound(a, j))

Select(a) ==
    LET j == job[a] IN
    /\ j.pc = "select"
    /\ SaveSelections(j.on)
    /\ Answer(a, [j EXCEPT !.pc = "create"])

Create(a) ==
    LET j == job[a]
        r == Ranked[j.on.print]
    IN /\ j.pc = "create"
       /\ CreateSelected(j.on)
       /\ Answer(a, Enter([j EXCEPT !.plan = [i \in 1..Len(r) |-> cand'[j.on][r[i]].status]], 1))

-----------------------------------------------------------------------------
(* The transactions on one candidate. *)

Open(j) == j.tally # "none"

SameRow(i, j) == i.on = j.on /\ i.pos = j.pos

Locked(a) == \E o \in Attempts \ {a} : Open(job[o]) /\ SameRow(job[o], job[a])

\* An uncommitted entry of the fingerprint index makes the second writer wait.
IndexBusy(a) == \E o \in Attempts \ {a} :
    /\ Open(job[o])
    /\ job[o].pc = "finalize"
    /\ job[a].pc = "finalize"
    /\ job[o].on.print = job[a].on.print
    /\ Deal(job[o]) = Deal(job[a])
    /\ job[o].result = job[a].result

NewRow(j) ==
    IF j.pc = "claim" THEN ClaimedRow(Row(j))
    ELSE IF j.pc = "finalize" THEN FinalizedRow(j.on, Deal(j), j.result)
    ELSE MarkedRow(Row(j), j.pc)

Accepted(j) ==
    IF j.pc = "claim" THEN Claimable(Row(j))
    ELSE IF j.pc = "finalize"
    THEN Holds(Row(j), j.token) /\ Finalizable(j.on, Deal(j), j.result)
    ELSE Markable(Row(j))

Returns(j) ==
    IF j.pc = "claim" THEN [j EXCEPT !.pc = "execute", !.token = Row(j).claims + 1]
    ELSE Processed(j, IF j.pc = "finalize" THEN "completed" ELSE j.pc)

\* The row is locked and rewritten; the tally counts what is committed, and this row.
Tally(a) ==
    LET j == job[a] IN
    /\ j.pc \in {"claim", "finalize", "unavailable", "failed"}
    /\ ~Open(j) /\ ~Locked(a) /\ ~IndexBusy(a)
    /\ Accepted(j)
    /\ Moves(a, [j EXCEPT !.tally = Aggregate([cand[j.on] EXCEPT ![Deal(j)] = NewRow(j)])])

Commit(a) ==
    LET j == job[a] IN
    /\ Open(j)
    /\ SetCandidate(j.on, Deal(j), NewRow(j), j.tally)
    /\ LET closed == [j EXCEPT !.tally = "none"] IN
       \/ Go(a, Returns(closed)) /\ UNCHANGED faults
       \/ /\ faults < MaxFaults
          /\ faults' = faults + 1
          /\ Go(a, Thrown(closed))

\* The function raises, or a claim finds nothing or skips a locked row.
Reject(a) ==
    LET j == job[a] IN
    /\ j.pc \in {"claim", "finalize", "unavailable", "failed"}
    /\ ~Open(j)
    /\ \/ j.pc = "claim" /\ (Locked(a) \/ ~Accepted(j))
       \/ j.pc # "claim" /\ ~Locked(a) /\ ~IndexBusy(a) /\ ~Accepted(j)
    /\ Refused(a)

-----------------------------------------------------------------------------
(* processCandidate between the claim and the end. *)

\* createCandidateStageRuntime reads the checkpoints, outside the try block: if
\* the read fails the attempt throws.  Then the executor yields a result, an
\* unavailable execution, or throws.
Execute(a) ==
    /\ job[a].pc = "execute"
    /\ \/ \E v \in Variants : Moves(a, [job[a] EXCEPT !.pc = "checkpoint", !.result = v])
       \/ Moves(a, [job[a] EXCEPT !.pc = "unavailable"])
       \/ Moves(a, [job[a] EXCEPT !.pc = "note"])

SaveFinalization(a, v, next) ==
    LET j == job[a] IN
    /\ ~Locked(a)
    /\ IF Holds(Row(j), j.token) /\ Savable(Row(j), v)
       THEN /\ cand' = [cand EXCEPT ![j.on][Deal(j)] = SavedRow(@, v)]
            /\ UNCHANGED <<batch, ranked>>
            /\ Answer(a, [j EXCEPT !.pc = next])
       ELSE Refused(a)

\* The completed finalization checkpoint, before finalize.
Checkpoint(a) ==
    job[a].pc = "checkpoint" /\ SaveFinalization(a, job[a].result, "finalize")

\* The failed one; whatever becomes of it, the candidate is marked failed.
Note(a) == job[a].pc = "note" /\ SaveFinalization(a, "failed", "failed")

-----------------------------------------------------------------------------
(* Faults and time. *)

Waits(j) == j.pc \in {"look", "select", "create", "claim", "execute", "checkpoint", "note",
                      "finalize", "unavailable", "failed"} /\ ~Open(j)

RequestLost(a) ==
    /\ Waits(job[a])
    /\ faults < MaxFaults
    /\ faults' = faults + 1
    /\ Go(a, Thrown(job[a]))
    /\ UNCHANGED <<batch, ranked, cand>>

\* A statement that has begun ends without its client: a crash then is a crash
\* before it or after it.
Crash(a) ==
    /\ job[a].pc \notin {"off", "insert", "done", "threw"}
    /\ ~Open(job[a])
    /\ faults < MaxFaults
    /\ faults' = faults + 1
    /\ Go(a, [job[a] EXCEPT !.pc = "threw"])
    /\ UNCHANGED <<batch, ranked, cand>>

Expire(b, d) ==
    /\ ExpireLease(b, d)
    /\ \A a \in Attempts : Open(job[a]) => ~(job[a].on = b /\ Deal(job[a]) = d)
    /\ UNCHANGED <<job, faults>>

Step(a) ==
    \/ LookUp(a) \/ Insert(a) \/ Select(a) \/ Create(a)
    \/ Tally(a) \/ Commit(a) \/ Reject(a)
    \/ Execute(a) \/ Checkpoint(a) \/ Note(a)

Next ==
    \/ \E a \in Attempts : Begin(a) \/ Step(a) \/ RequestLost(a) \/ Crash(a)
    \/ \E b \in Batches, d \in Deals : Expire(b, d)

\* An attempt in progress goes on: its process is running and the database
\* answers.  Nothing makes an attempt start, a fault happen or a lease run out.
Fairness == \A a \in Attempts : WF_vars(Step(a))

Spec == Init /\ [][Next]_vars /\ Fairness
-----------------------------------------------------------------------------
(* Properties. *)

\* A completed candidate has artifacts: its own, which no other candidate with
\* the same analysis fingerprint has, or those of the completed candidate it
\* reruns, of the same analysis; no other candidate has any.  Finalizations of
\* a forced batch and of its parent may overlap (0012, finalize_or_reuse).
ArtifactsOwned == \A b \in Batches, d \in Deals :
    LET c == cand[b][d]
        parent == cand[Ordinary(b.print)][d]
    IN /\ c.status = "completed" <=> c.source # "none"
       /\ c.source = "reused" => /\ b.nonce # NoNonce
                                 /\ parent.status = "completed"
                                 /\ parent.source = "own"
                                 /\ parent.analysis = c.analysis
       /\ c.source = "own" => \A o \in Batches \ {b} :
              ~(o.print = b.print /\ cand[o][d].source = "own"
                /\ cand[o][d].analysis = c.analysis)

\* What a candidate was finalized with is what its finalization checkpoint
\* holds, although several executions may have computed different results and
\* a later one starts from the checkpoints of an earlier one.
FinalizedAsCheckpointed == \A b \in Batches, d \in Deals :
    cand[b][d].status = "completed" => cand[b][d].saved = cand[b][d].analysis

\* When createBatchAndSelections returns, every selected candidate is settled
\* as the attempt believes it is, whoever settled it, and if no other attempt
\* worked on the batch, the batch's row shows their aggregate: what the attempt
\* planned from an earlier read is not stale.
DoneMeansSettled == \A a \in Attempts :
    LET j == job[a] IN
    j.pc = "done" =>
        /\ \A i \in 1..Len(j.plan) :
               /\ j.plan[i] \in Settled
               /\ cand[j.on][Ranked[j.on.print][i]].status = j.plan[i]
        /\ \/ batch[j.on] = Aggregate(cand[j.on])
           \/ \E o \in Attempts \ {a} : job[o].pc # "off" /\ job[o].on.print = j.on.print

Outcome(s) ==
    IF s = "absent" THEN "none" ELSE IF s \in Settled THEN s ELSE "pending"

Shown(s) ==
    IF s = "absent" THEN "none" ELSE IF s \in {"queued", "running"} THEN "open" ELSE s

outcomeOf == [b \in Batches |-> [d \in Deals |-> Outcome(cand[b][d].status)]]
publishedOf == [b \in Batches |-> Shown(batch[b])]

\* Candidates are settled once and for good, and what a batch shows is never
\* better or worse than the truth, only late: under refreshes that each count
\* without seeing the other's uncommitted row.
Promise == INSTANCE UnderwritingPromise WITH outcome <- outcomeOf, published <- publishedOf

PromiseSpec == Promise!Spec

\* A scan has one ordinary batch, however often it is processed.
OneBatchPerScan == \A p, q \in Prints :
    batch[Ordinary(p)] # "absent" /\ batch[Ordinary(q)] # "absent" => p = q
=============================================================================
