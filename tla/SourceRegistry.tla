---------------------------- MODULE SourceRegistry ----------------------------
(***************************************************************************)
(* The deal and source registry of a workspace, and the scan that reads it *)
(* in separate requests and stores its report under the fingerprint of     *)
(* what it read.  A fingerprint is the set it was computed from.           *)
(*                                                                         *)
(* Confirmations and snapshots of a workspace are serialised by advisory   *)
(* locks, so each is one step; the reads of the tables are not.            *)
(***************************************************************************)
EXTENDS Naturals, FiniteSets

CONSTANTS
    Deals, Statuses, Sources,
    MaxRevision,    \* bound on the revisions of a source
    Requests,       \* ids of confirmation requests
    MaxConfirms,    \* bound on the confirmations
    MaxAttempts     \* bound on the attempts of the run

ASSUME RegistryAssumption ==
    /\ {MaxRevision, MaxConfirms, MaxAttempts} \subseteq Nat
    /\ "none" \notin Statuses

VARIABLES
    revisions,  \* per source: how many it has; each supersedes the one before
    deal,       \* per deal: its row
    assigned,   \* the assignments that are not superseded: deal, source, revision
    used,       \* the request ids that assignments carry
    confirms,
    scan,       \* the run's attempt
    report,     \* the stored report of the run
    since,      \* history: the registry's states since the attempt's first read
    returned    \* history: it went back to one of them

registryVars ==
    <<revisions, deal, assigned, used, confirms, scan, report, since, returned>>

DealRow == [status : Statuses \cup {"none"}, eligible : BOOLEAN,
            active : SUBSET (Sources \X (1..MaxRevision))]

Absent == [status |-> "none", eligible |-> FALSE, active |-> {}]

ActiveOf(assignments, d) == {<<a[2], a[3]>> : a \in {b \in assignments : b[1] = d}}

\* A snapshot: per eligible deal its status and revisions.
SnapshotOf(rows, assignments) ==
    {[deal |-> d, status |-> rows[d].status, active |-> ActiveOf(assignments, d)] :
        d \in {e \in Deals : rows[e].eligible}}

\* get_analysis_eligible_snapshot.  It reads the assignments, not the fingerprints
\* that the rows of the deals carry.
Snapshot == SnapshotOf(deal, assigned)

\* eligibleDealSnapshotFingerprint: of the rows an attempt found.
FoundSnapshot(found) ==
    {[deal |-> d, status |-> found[d].status, active |-> found[d].active] : d \in DOMAIN found}

NoScan == [pc |-> "off", attempt |-> 0, before |-> {}, rows |-> <<>>, bundles |-> {},
           found |-> <<>>, pending |-> {}, ids |-> <<>>]

NoReport == [stored |-> FALSE, snapshot |-> {}, bundles |-> {}]

RegistryTypeOK ==
    /\ revisions \in [Sources -> 0..MaxRevision]
    /\ deal \in [Deals -> DealRow]
    /\ assigned \subseteq Deals \X Sources \X (1..MaxRevision)
    /\ used \subseteq Requests
    /\ confirms \in 0..MaxConfirms
    /\ scan.pc \in {"off", "rows", "revisions", "find", "save", "saved", "failed"}
    /\ scan.attempt \in 0..MaxAttempts
    /\ report.stored \in BOOLEAN
    \* the fingerprint a row carries is that of its active assignments
    /\ \A d \in Deals : deal[d].active = ActiveOf(assigned, d)

RegistryInit ==
    /\ revisions = [s \in Sources |-> 0]
    /\ deal = [d \in Deals |-> Absent]
    /\ assigned = {} /\ used = {} /\ confirms = 0
    /\ scan = NoScan /\ report = NoReport
    /\ since = {} /\ returned = FALSE

-----------------------------------------------------------------------------
(* The registry. *)

\* create_initial_source_revision and append_source_revision: the next revision
\* supersedes the current one, and none changes later.
Revise(s) ==
    /\ revisions[s] < MaxRevision
    /\ revisions' = [revisions EXCEPT ![s] = @ + 1]
    /\ UNCHANGED <<deal, assigned, used, confirms, scan, report, since, returned>>

\* The deal's assignments of the source, after the confirmation of a revision.
Confirmed(d, s, n) ==
    {a \in assigned : a[1] # d \/ a[2] # s} \cup {<<d, s, n>>}

\* confirm_source_assignment.  A request id that made an assignment is answered
\* from it; one that found its revision assigned already leaves no trace but
\* the status.
Confirm(q, d, s, n, status) ==
    /\ confirms < MaxConfirms
    /\ n <= revisions[s]
    /\ q \notin used
    /\ confirms' = confirms + 1
    /\ assigned' = Confirmed(d, s, n)
    /\ used' = IF <<d, s, n>> \in assigned THEN used ELSE used \cup {q}
    /\ deal' = [deal EXCEPT ![d] = [status |-> status, eligible |-> TRUE,
                                    active |-> ActiveOf(assigned', d)]]
    /\ IF scan.pc \in {"off", "saved", "failed"} THEN UNCHANGED <<since, returned>>
       ELSE /\ since' = since \cup {SnapshotOf(deal', assigned')}
            /\ returned' = (returned \/ SnapshotOf(deal', assigned') \in since \ {Snapshot})
    /\ UNCHANGED <<revisions, scan, report>>

-----------------------------------------------------------------------------
(* The import_confirmation stage of a scan, one action per request, and the *)
(* report's.                                                                *)

\* One attempt after another: a reclaimed run starts over.
ReadBefore ==
    /\ scan.pc \in {"off", "failed"} /\ scan.attempt < MaxAttempts
    /\ scan' = [NoScan EXCEPT !.pc = "rows", !.attempt = scan.attempt + 1, !.before = Snapshot]
    /\ since' = {Snapshot} /\ returned' = FALSE
    /\ UNCHANGED <<revisions, deal, assigned, used, confirms, report>>

\* listAnalysisEligibleBundles reads the rows, ...
ReadRows ==
    /\ scan.pc = "rows"
    /\ scan' = [scan EXCEPT !.pc = "revisions",
                            !.rows = [d \in {e \in Deals : deal[e].eligible} |-> deal[d]]]
    /\ UNCHANGED <<revisions, deal, assigned, used, confirms, report, since, returned>>

\* The revisions match the fingerprint the row was read with.
MatchUnchecked(row, revs) == revs # {}

Match(row, revs) == revs # {} /\ row.active = revs

\* ... then their assignments, which the evidence must belong to.
ReadRevisions ==
    /\ scan.pc = "revisions"
    /\ LET ids == DOMAIN scan.rows IN
       IF \A d \in ids : Match(scan.rows[d], ActiveOf(assigned, d))
       THEN scan' = [scan EXCEPT
                !.pc = "find", !.rows = <<>>, !.pending = ids,
                !.bundles = {[deal |-> d, status |-> scan.rows[d].status,
                              active |-> ActiveOf(assigned, d)] : d \in ids}]
       ELSE scan' = [NoScan EXCEPT !.pc = "failed", !.attempt = scan.attempt]
    /\ UNCHANGED <<revisions, deal, assigned, used, confirms, report, since, returned>>

\* findForWorkspace of each deal, concurrently: its row, ...
FindRow(d) ==
    /\ scan.pc = "find" /\ d \in scan.pending /\ d \notin DOMAIN scan.found
    /\ scan' = [scan EXCEPT !.found = [e \in DOMAIN @ \cup {d} |->
                                           IF e = d THEN deal[d] ELSE @[e]]]
    /\ UNCHANGED <<revisions, deal, assigned, used, confirms, report, since, returned>>

\* ... then its assignments.
FindRevisions(d) ==
    /\ scan.pc = "find" /\ d \in scan.pending /\ d \in DOMAIN scan.found
    /\ scan' = [scan EXCEPT !.pending = @ \ {d},
                            !.ids = [e \in DOMAIN @ \cup {d} |->
                                         IF e = d THEN ActiveOf(assigned, d) ELSE @[e]]]
    /\ UNCHANGED <<revisions, deal, assigned, used, confirms, report, since, returned>>

\* Nothing seems to have changed while the attempt read.
Unchanged(before, after, s) ==
    /\ before = after
    /\ after = FoundSnapshot(s.found)
    /\ {x.deal : x \in after} = {b.deal : b \in s.bundles}

\* The second snapshot; the attempt goes on if nothing changed.
ReadAfter ==
    /\ scan.pc = "find" /\ scan.pending = {}
    /\ scan' = IF Unchanged(scan.before, Snapshot, scan)
               THEN [scan EXCEPT !.pc = "save"]
               ELSE [NoScan EXCEPT !.pc = "failed", !.attempt = scan.attempt]
    /\ UNCHANGED <<revisions, deal, assigned, used, confirms, report, since, returned>>

\* What save_intelligence_report compares, under the lock of the snapshot.
AuthoritativeByIds(s) == {x.deal : x \in Snapshot} = {b.deal : b \in s.bundles}

Authoritative(s) == Snapshot = FoundSnapshot(s.found)

\* A stored report keeps its snapshot; a failed save fails the attempt.
Save ==
    /\ scan.pc = "save"
    /\ IF /\ Authoritative(scan)
          /\ report.stored => report.snapshot = FoundSnapshot(scan.found)
       THEN /\ report' = [stored |-> TRUE, snapshot |-> FoundSnapshot(scan.found),
                          bundles |-> scan.bundles]
            \* the answer may be lost, or the worker die before it finishes the run
            /\ scan' \in {[scan EXCEPT !.pc = "saved"],
                          [NoScan EXCEPT !.pc = "failed", !.attempt = scan.attempt]}
       ELSE /\ scan' = [NoScan EXCEPT !.pc = "failed", !.attempt = scan.attempt]
            /\ UNCHANGED report
    /\ UNCHANGED <<revisions, deal, assigned, used, confirms, since, returned>>

RegistryNext ==
    \/ \E s \in Sources : Revise(s)
    \/ \E q \in Requests, d \in Deals, s \in Sources, n \in 1..MaxRevision, st \in Statuses :
          Confirm(q, d, s, n, st)
    \/ ReadBefore \/ ReadRows \/ ReadRevisions
    \/ \E d \in Deals : FindRow(d) \/ FindRevisions(d)
    \/ ReadAfter \/ Save

RegistrySpec == RegistryInit /\ [][RegistryNext]_registryVars
-----------------------------------------------------------------------------
(* Properties. *)

\* What a scan analyses was the registry's state at one moment since it began to
\* read, although it reads rows, assignments and snapshots in separate requests
\* and deals may change and change back in between.
BundlesWereTrue == scan.pc \in {"save", "saved"} => scan.bundles \in since

\* Unless the registry changed and changed back in the meantime, a report is
\* stored with exactly the deals, statuses and revisions that the registry has
\* at that moment, and underwriting takes the same revisions from the attempt,
\* although all of them were read separately and earlier.
ReportTrueWhenStored ==
    [][report' # report /\ ~returned =>
          /\ report'.bundles = Snapshot
          /\ report'.snapshot = Snapshot
          /\ \A d \in DOMAIN scan.ids : scan.ids[d] = ActiveOf(assigned, d)]_registryVars
=============================================================================
