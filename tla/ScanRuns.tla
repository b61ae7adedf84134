------------------------------ MODULE ScanRuns ------------------------------
(***************************************************************************)
(* The scan_runs table and the requests the web process and the workers    *)
(* send to it.  One row per run; every operator below is one request, and  *)
(* one request is one transaction.                                         *)
(*                                                                         *)
(* A run's number is its created_at rank.  lease_expires_at is kept as the *)
(* ticks left until it passes: 0 is a lease that has run out and NoLease   *)
(* is NULL.  Of the warnings array only its emptiness is kept (warned).    *)
(*                                                                         *)
(* A definition like UncheckedInsertRow that nothing uses is what a        *)
(* plausible bug would make of the one after it; PROJECT.json lists these  *)
(* under "mutants", each with the property that notices it.                *)
(***************************************************************************)
EXTENDS Integers

CONSTANTS
    MaxRuns,    \* bound on the rows ever inserted
    Keys,       \* the (workspace_id, mode) pairs
    NoKey,
    Workers,    \* WORKER_IDs; README.md asks for one per replica
    NoWorker,   \* worker_id IS NULL
    Clients,    \* requests to POST /api/runs that may be in progress at once
    LeaseTicks, \* length of the two-minute lease
    Skew        \* ticks by which a worker's clock is ahead of the database's

ASSUME ScanRunsAssumption ==
    /\ MaxRuns \in Nat
    /\ NoKey \notin Keys
    /\ NoWorker \notin Workers
    /\ LeaseTicks \in Nat \ {0}
    /\ Skew \in [Workers -> Int]

VARIABLES
    status, key, worker, lease,
    warned,     \* the warnings array is not empty
    report,     \* an intelligence report of this run is stored
    reclaimed,  \* history: the run fell back to the queue at least once
    intent      \* per client: the key it found no active run for

rowVars == <<status, key, worker, lease, warned, report, reclaimed>>

NoLease == -1
Runs == 1..MaxRuns
Terminal == {"partial", "completed", "failed"}
Statuses == {"absent", "queued", "running"} \cup Terminal

Active(r) == status[r] \in {"queued", "running"}

RowsTypeOK ==
    /\ status \in [Runs -> Statuses]
    /\ key \in [Runs -> Keys \cup {NoKey}]
    /\ worker \in [Runs -> Workers \cup {NoWorker}]
    /\ lease \in [Runs -> Nat \cup {NoLease}]
    /\ warned \in [Runs -> BOOLEAN]
    /\ report \in [Runs -> BOOLEAN]
    /\ reclaimed \in [Runs -> BOOLEAN]
    /\ intent \in [Clients -> Keys \cup {NoKey}]

RowsInit ==
    /\ status = [r \in Runs |-> "absent"]
    /\ key = [r \in Runs |-> NoKey]
    /\ worker = [r \in Runs |-> NoWorker]
    /\ lease = [r \in Runs |-> NoLease]
    /\ warned = [r \in Runs |-> FALSE]
    /\ report = [r \in Runs |-> FALSE]
    /\ reclaimed = [r \in Runs |-> FALSE]
    /\ intent = [c \in Clients |-> NoKey]

-----------------------------------------------------------------------------
(* runs.create: a read, then an insert the partial unique index may refuse. *)

HasActive(k) == \E r \in Runs : Active(r) /\ key[r] = k

\* findActiveRun returned nothing.  When it returns a row create ends there.
FindNoActive(c, k) ==
    /\ intent[c] = NoKey
    /\ ~HasActive(k)
    /\ intent' = [intent EXCEPT ![c] = k]
    /\ UNCHANGED rowVars

\* The in-memory client's insert, which has no index to refuse the row.
UncheckedInsertRow(r, k) ==
    /\ status' = [status EXCEPT ![r] = "queued"]
    /\ key' = [key EXCEPT ![r] = k]

\* The row is inserted unless scan_runs_one_active already has the key.
InsertRow(r, k) ==
    /\ ~HasActive(k)
    /\ status' = [status EXCEPT ![r] = "queued"]
    /\ key' = [key EXCEPT ![r] = k]

InsertRun(c) ==
    /\ intent[c] # NoKey
    /\ \E r \in Runs : status[r] = "absent" /\ InsertRow(r, intent[c])
    /\ intent' = [intent EXCEPT ![c] = NoKey]
    /\ UNCHANGED <<worker, lease, warned, report, reclaimed>>

\* The index refuses the row and POST /api/runs answers with an error.
InsertRefused(c) ==
    /\ intent[c] # NoKey
    /\ HasActive(intent[c])
    /\ intent' = [intent EXCEPT ![c] = NoKey]
    /\ UNCHANGED rowVars

-----------------------------------------------------------------------------
(* Requests of a worker. *)

ExpiredAtAnyAge(r) == status[r] = "running"
ExpiredInAnyStatus(r) == status[r] # "absent" /\ lease[r] \in {0, NoLease}
NeverExpired(r) == FALSE

\* The rows claim_next_scan_run first puts back.  A running row with no lease
\* is one written before the column existed; LeaseShape says there is none.
Expired(r) == status[r] = "running" /\ lease[r] \in {0, NoLease}

Claimable(r) == status[r] = "queued" \/ Expired(r)

\* claim_next_scan_run: put expired runs back, then take the oldest queued one.
\* current_stage, warnings and the stored report survive the fall back.
ClaimNext(w, r) ==
    /\ Claimable(r)
    /\ \A x \in Runs : Claimable(x) => r <= x
    /\ status' = [x \in Runs |-> IF x = r THEN "running"
                                 ELSE IF Expired(x) THEN "queued" ELSE status[x]]
    /\ worker' = [x \in Runs |-> IF x = r THEN w
                                 ELSE IF Expired(x) THEN NoWorker ELSE worker[x]]
    /\ lease' = [x \in Runs |-> IF x = r THEN LeaseTicks
                                ELSE IF Expired(x) THEN NoLease ELSE lease[x]]
    /\ reclaimed' = [x \in Runs |-> reclaimed[x] \/ Expired(x)]
    /\ UNCHANGED <<key, warned, report>>

Owns(w, r) == worker[r] = w

\* The filter of renewRunLease's PATCH.  The lease it renews may have run out.
Renewable(w, r) == status[r] = "running" /\ Owns(w, r)

\* The new expiry is computed from the worker's clock, not the database's.
RenewedLease(w) ==
    IF LeaseTicks + Skew[w] > 0 THEN LeaseTicks + Skew[w] ELSE 0

RenewLease(w, r) ==
    /\ Renewable(w, r)
    /\ lease' = [lease EXCEPT ![r] = RenewedLease(w)]
    /\ UNCHANGED <<status, key, worker, warned, report, reclaimed>>

ForgetfulPatchWarnings(r, before, added) ==
    /\ warned' = [warned EXCEPT ![r] = added]
    /\ UNCHANGED <<status, key, worker, lease, report, reclaimed>>

\* updateRun of updateStage: the array read earlier plus the new warning, with
\* no condition on the row's worker or status.
PatchWarnings(r, before, added) ==
    /\ warned' = [warned EXCEPT ![r] = before \/ added]
    /\ UNCHANGED <<status, key, worker, lease, report, reclaimed>>

\* updateRun of finish: no condition on the row's worker or status, and
\* worker_id stays.
PatchOutcome(r, outcome) ==
    /\ status' = [status EXCEPT ![r] = outcome]
    /\ lease' = [lease EXCEPT ![r] = NoLease]
    /\ UNCHANGED <<key, worker, warned, report, reclaimed>>

\* save_intelligence_report for this run, which replaces an earlier report.
SaveReport(r) ==
    /\ report' = [report EXCEPT ![r] = TRUE]
    /\ UNCHANGED <<status, key, worker, lease, warned, reclaimed>>

\* One tick of the database clock as a lease sees it.
Aged(ticks) == IF ticks > 0 THEN ticks - 1 ELSE ticks

AgeLeases ==
    /\ \E r \in Runs : lease[r] > 0
    /\ lease' = [r \in Runs |-> Aged(lease[r])]
    /\ UNCHANGED <<status, key, worker, warned, report, reclaimed>>

=============================================================================
