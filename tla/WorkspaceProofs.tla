---------------------------- MODULE WorkspaceProofs ----------------------------
(***************************************************************************)
(* Theorems about what a workspace keeps in its database: SourceRegistry,  *)
(* for any deals, sources, requests and bounds; TestReset, for any         *)
(* requests; FundPolicies, for any managers, policy values and bound;      *)
(* RateLimits, for any limit and window.                                   *)
(***************************************************************************)
EXTENDS SourceRegistry, TestReset, FundPolicies, RateLimits, NaturalsInduction, WellFoundedInduction, SequenceTheorems, TLAPS

-----------------------------------------------------------------------------
(* The source registry.                                                        *)

\* The record of the attempt has these fields.
IsScan(s) ==
    s = [pc |-> s.pc, attempt |-> s.attempt, before |-> s.before, rows |-> s.rows,
         bundles |-> s.bundles, found |-> s.found, pending |-> s.pending, ids |-> s.ids]

Reading == scan.pc \in {"rows", "revisions", "find", "save"}

\* The history of the attempt: it holds the first snapshot and the present one, and unless
\* the registry went back to an earlier state, both are the same only if nothing changed.
SinceFirstRead ==
    Reading => /\ Snapshot \in since
               /\ scan.before \in since
               /\ ~returned /\ Snapshot = scan.before => since = {Snapshot}

\* The rows read in one request were the snapshot of that moment, and so are the bundles
\* made of them.
RowsWereTrue == scan.pc = "revisions" => FoundSnapshot(scan.rows) \in since

BundlesAre == scan.pc \in {"find", "save", "saved"} => scan.bundles \in since

\* What is still to be read is an eligible deal, and no deal ceases to be one.
StillEligible ==
    /\ scan.pc = "revisions" => \A d \in DOMAIN scan.rows : d \in Deals /\ deal[d].eligible
    /\ scan.pc = "find" => \A d \in scan.pending : d \in Deals /\ deal[d].eligible

\* The revisions underwriting will take were assigned to the deal at some moment since.
IdsWereTrue ==
    scan.pc \in {"find", "save"} =>
        \A d \in DOMAIN scan.ids : \E S \in since : \E x \in S :
            x.deal = d /\ x.active = scan.ids[d]

\* No deal has been looked up before the bundles are made.
NothingFound == scan.pc \in {"rows", "revisions"} => DOMAIN scan.ids = {}

\* Before the save, what was read first and what was read last agree.
ReadsAgree == scan.pc = "save" => scan.before = FoundSnapshot(scan.found)

RegistryInv ==
    /\ RegistryTypeOK /\ IsScan(scan) /\ SinceFirstRead /\ RowsWereTrue /\ BundlesAre
    /\ StillEligible /\ IdsWereTrue /\ NothingFound /\ ReadsAgree

-----------------------------------------------------------------------------
(* Snapshots. *)

\* The rows of the eligible deals carry the fingerprints of their assignments.
LEMMA RowsSnapshot ==
    ASSUME RegistryTypeOK
    PROVE  FoundSnapshot([d \in {e \in Deals : deal[e].eligible} |-> deal[d]]) = Snapshot
BY DEF RegistryTypeOK, FoundSnapshot, Snapshot, SnapshotOf

LEMMA InSnapshot ==
    ASSUME NEW d \in Deals, deal[d].eligible
    PROVE  \E x \in Snapshot : x.deal = d /\ x.active = ActiveOf(assigned, d)
<1> DEFINE x == [deal |-> d, status |-> deal[d].status, active |-> ActiveOf(assigned, d)]
<1>1. x \in Snapshot
  BY DEF Snapshot, SnapshotOf
<1>2. x.deal = d /\ x.active = ActiveOf(assigned, d)
  OBVIOUS
<1>3. QED BY <1>1, <1>2

LEMMA SnapshotActive ==
    ASSUME NEW x \in Snapshot
    PROVE  x.active = ActiveOf(assigned, x.deal)
BY DEF Snapshot, SnapshotOf

LEMMA SnapshotStays ==
    ASSUME UNCHANGED <<deal, assigned>>
    PROVE  Snapshot' = Snapshot /\ \A s : FoundSnapshot(s)' = FoundSnapshot(s)
BY DEF Snapshot, SnapshotOf, FoundSnapshot

-----------------------------------------------------------------------------
(* The registry changes. *)

LEMMA ReviseKeeps == ASSUME RegistryInv, NEW s \in Sources, Revise(s) PROVE RegistryInv'
<1>1. UNCHANGED <<deal, assigned, used, confirms, scan, report, since, returned>>
  BY DEF Revise
<1>2. revisions' \in [Sources -> 0..MaxRevision]
  <2>1. revisions[s] + 1 \in 0..MaxRevision
    BY RegistryAssumption DEF Revise, RegistryInv, RegistryTypeOK
  <2>2. QED BY <2>1 DEF Revise, RegistryInv, RegistryTypeOK
<1>3. Snapshot' = Snapshot
  BY <1>1, SnapshotStays
<1>4. RegistryTypeOK'
  BY <1>1, <1>2 DEF RegistryInv, RegistryTypeOK
<1>5. QED BY <1>1, <1>3, <1>4 DEF RegistryInv, IsScan, Reading, SinceFirstRead, RowsWereTrue,
             BundlesAre, StillEligible, IdsWereTrue, NothingFound, ReadsAgree, FoundSnapshot

LEMMA ActiveType ==
    ASSUME NEW A \in SUBSET (Deals \X Sources \X (1..MaxRevision)), NEW d
    PROVE  ActiveOf(A, d) \in SUBSET (Sources \X (1..MaxRevision))
BY DEF ActiveOf

\* A confirmation changes the assignments of its own deal only.
LEMMA ConfirmTypes ==
    ASSUME RegistryInv, NEW q \in Requests, NEW d \in Deals, NEW s \in Sources,
           NEW n \in 1..MaxRevision, NEW status \in Statuses, Confirm(q, d, s, n, status)
    PROVE  /\ RegistryTypeOK'
           /\ \A e \in Deals : deal[e].eligible => deal'[e].eligible
<1> DEFINE row == [status |-> status, eligible |-> TRUE, active |-> ActiveOf(assigned', d)]
<1>1. assigned' \in SUBSET (Deals \X Sources \X (1..MaxRevision))
  BY DEF Confirm, Confirmed, RegistryInv, RegistryTypeOK
<1>2. row \in DealRow
  BY <1>1, ActiveType DEF DealRow
<1>3. /\ deal' \in [Deals -> DealRow] /\ deal'[d] = row
      /\ \A e \in Deals : e # d => deal'[e] = deal[e]
  BY <1>2 DEF Confirm, RegistryInv, RegistryTypeOK
<1>4. ASSUME NEW e \in Deals PROVE deal'[e].active = ActiveOf(assigned', e)
  <2>1. CASE e = d
    BY <1>3, <2>1
  <2>2. CASE e # d
    <3>1. {b \in assigned' : b[1] = e} = {b \in assigned : b[1] = e}
      BY <2>2 DEF Confirm, Confirmed
    <3>2. ActiveOf(assigned', e) = ActiveOf(assigned, e)
      BY <3>1 DEF ActiveOf
    <3>3. QED BY <1>3, <2>2, <3>2 DEF RegistryInv, RegistryTypeOK
  <2>3. QED BY <2>1, <2>2
<1>5. confirms' \in 0..MaxConfirms
  BY RegistryAssumption DEF Confirm, RegistryInv, RegistryTypeOK
<1>6. used' \subseteq Requests
  BY DEF Confirm, RegistryInv, RegistryTypeOK
<1>7. RegistryTypeOK'
  BY <1>1, <1>3, <1>4, <1>5, <1>6 DEF Confirm, RegistryInv, RegistryTypeOK
<1>8. QED BY <1>3, <1>7

LEMMA ConfirmKeeps ==
    ASSUME RegistryInv, NEW q \in Requests, NEW d \in Deals, NEW s \in Sources,
           NEW n \in 1..MaxRevision, NEW status \in Statuses, Confirm(q, d, s, n, status)
    PROVE  RegistryInv'
<1>1. RegistryTypeOK' /\ \A e \in Deals : deal[e].eligible => deal'[e].eligible
  BY ConfirmTypes
<1>2. scan' = scan
  BY DEF Confirm
<1>3. \A f : FoundSnapshot(f)' = FoundSnapshot(f)
  BY DEF FoundSnapshot
<1>4. since \subseteq since'
  BY DEF Confirm
<1>5. Reading => /\ since' = since \cup {Snapshot'}
                 /\ returned' = (returned \/ Snapshot' \in since \ {Snapshot})
  BY DEF Confirm, Reading, Snapshot
<1>6. SinceFirstRead'
  <2> HIDE DEF Snapshot
  <2>1. Reading' = Reading
    BY <1>2 DEF Reading
  <2>2. CASE Reading
    <3>1. scan.before \in since /\ Snapshot \in since
      BY <2>2 DEF RegistryInv, SinceFirstRead
    <3>2. ASSUME ~returned', Snapshot' = scan.before PROVE since' = {Snapshot'}
      <4>1. ~returned /\ Snapshot' = Snapshot
        BY <1>5, <2>2, <3>1, <3>2
      <4>2. since = {Snapshot}
        BY <2>2, <3>2, <4>1 DEF RegistryInv, SinceFirstRead
      <4>3. QED BY <1>5, <2>2, <4>1, <4>2
    <3>3. QED BY <1>2, <1>5, <2>2, <3>1, <3>2 DEF SinceFirstRead
  <2>3. QED BY <2>1, <2>2 DEF SinceFirstRead
<1>7. RowsWereTrue' /\ BundlesAre' /\ ReadsAgree' /\ NothingFound'
  BY <1>2, <1>3, <1>4 DEF RegistryInv, RowsWereTrue, BundlesAre, ReadsAgree, NothingFound
<1>8. StillEligible'
  BY <1>1, <1>2 DEF RegistryInv, StillEligible
<1>9. IdsWereTrue'
  BY <1>2, <1>4 DEF RegistryInv, IdsWereTrue
<1>10. IsScan(scan)'
  BY <1>2 DEF RegistryInv, IsScan
<1>11. QED BY <1>1, <1>6, <1>7, <1>8, <1>9, <1>10 DEF RegistryInv

-----------------------------------------------------------------------------
(* The attempt reads. *)

\* The registry's tables, the report and the attempts so far.
Tables == <<revisions, deal, assigned, used, confirms>>

LEMMA TypesStay ==
    ASSUME RegistryInv, UNCHANGED Tables, scan'.attempt \in 0..MaxAttempts,
           scan'.pc \in {"off", "rows", "revisions", "find", "save", "saved", "failed"},
           report'.stored \in BOOLEAN
    PROVE  RegistryTypeOK'
BY DEF Tables, RegistryInv, RegistryTypeOK

\* An attempt that fails starts over.
LEMMA FailKeeps ==
    ASSUME RegistryInv, UNCHANGED Tables, report'.stored \in BOOLEAN,
           scan' = [NoScan EXCEPT !.pc = "failed", !.attempt = scan.attempt]
    PROVE  RegistryInv'
<1>1. scan'.pc = "failed" /\ scan'.attempt = scan.attempt /\ IsScan(scan)'
  BY DEF NoScan, IsScan
<1>2. scan.attempt \in 0..MaxAttempts
  BY DEF RegistryInv, RegistryTypeOK
<1>3. RegistryTypeOK'
  BY <1>1, <1>2, TypesStay
<1>4. QED BY <1>1, <1>3 DEF RegistryInv, Reading, SinceFirstRead, RowsWereTrue, BundlesAre,
             StillEligible, IdsWereTrue, NothingFound, ReadsAgree

LEMMA ReadBeforeKeeps == ASSUME RegistryInv, ReadBefore PROVE RegistryInv'
<1>1. /\ scan'.pc = "rows" /\ scan'.attempt = scan.attempt + 1 /\ scan'.before = Snapshot
      /\ scan'.ids = <<>> /\ IsScan(scan)'
  BY DEF ReadBefore, NoScan, IsScan
<1>2. UNCHANGED Tables /\ report' = report /\ since' = {Snapshot} /\ Snapshot' = Snapshot
  BY SnapshotStays DEF ReadBefore, Tables
<1>3. scan'.attempt \in 0..MaxAttempts
  BY <1>1, RegistryAssumption DEF ReadBefore, RegistryInv, RegistryTypeOK
<1>4. RegistryTypeOK'
  BY <1>1, <1>2, <1>3, TypesStay DEF RegistryInv, RegistryTypeOK
<1>5. QED BY <1>1, <1>2, <1>4 DEF RegistryInv, Reading, SinceFirstRead, RowsWereTrue, BundlesAre,
             StillEligible, IdsWereTrue, NothingFound, ReadsAgree

\* A read that leaves the registry, the report and the history as they are.
Reads == UNCHANGED <<revisions, deal, assigned, used, confirms, report, since, returned>>

LEMMA ReadFacts ==
    ASSUME RegistryInv, Reads, scan'.attempt = scan.attempt,
           scan'.pc \in {"revisions", "find", "save"}, scan'.before = scan.before, Reading
    PROVE  /\ RegistryTypeOK' /\ SinceFirstRead' /\ Snapshot' = Snapshot
           /\ \A f : FoundSnapshot(f)' = FoundSnapshot(f)
<1>1. /\ UNCHANGED Tables /\ report'.stored \in BOOLEAN /\ Snapshot' = Snapshot
      /\ \A f : FoundSnapshot(f)' = FoundSnapshot(f)
  BY SnapshotStays DEF Reads, Tables, RegistryInv, RegistryTypeOK
<1>2. RegistryTypeOK'
  BY <1>1, TypesStay DEF RegistryInv, RegistryTypeOK
<1>3. QED BY <1>1, <1>2 DEF RegistryInv, SinceFirstRead, Reading, Reads

LEMMA ReadRowsKeeps == ASSUME RegistryInv, ReadRows PROVE RegistryInv'
<1> DEFINE rows == [d \in {e \in Deals : deal[e].eligible} |-> deal[d]]
<1>1. /\ scan'.pc = "revisions" /\ scan'.attempt = scan.attempt /\ scan'.before = scan.before
      /\ scan'.rows = rows /\ scan'.ids = scan.ids /\ IsScan(scan)' /\ Reads /\ Reading
  BY DEF ReadRows, RegistryInv, IsScan, Reads, Reading
<1>2. /\ RegistryTypeOK' /\ SinceFirstRead' /\ Snapshot' = Snapshot
      /\ \A f : FoundSnapshot(f)' = FoundSnapshot(f)
  BY <1>1, ReadFacts
<1>3. FoundSnapshot(rows) = Snapshot /\ Snapshot \in since
  BY <1>1, RowsSnapshot DEF RegistryInv, SinceFirstRead
<1>4. RowsWereTrue'
  <2> HIDE DEF rows
  <2>1. FoundSnapshot(scan.rows)' = FoundSnapshot(rows)
    BY <1>1 DEF FoundSnapshot
  <2>2. QED BY <1>1, <1>3, <2>1 DEF RowsWereTrue, Reads
<1>5. StillEligible'
  BY <1>1 DEF StillEligible, Reads
<1>6. NothingFound'
  BY <1>1 DEF RegistryInv, NothingFound, ReadRows
<1>7. QED BY <1>1, <1>2, <1>4, <1>5, <1>6 DEF RegistryInv, BundlesAre, IdsWereTrue, ReadsAgree

LEMMA ReadRevisionsKeeps == ASSUME RegistryInv, ReadRevisions PROVE RegistryInv'
<1> DEFINE ids == DOMAIN scan.rows
           all == \A d \in ids : Match(scan.rows[d], ActiveOf(assigned, d))
           made == {[deal |-> d, status |-> scan.rows[d].status,
                     active |-> ActiveOf(assigned, d)] : d \in ids}
<1>1. CASE all
  <2>1. scan' = [scan EXCEPT !.pc = "find", !.rows = <<>>, !.pending = ids, !.bundles = made]
    BY <1>1 DEF ReadRevisions
  <2>2. made = FoundSnapshot(scan.rows)
    <3>1. \A d \in ids : ActiveOf(assigned, d) = scan.rows[d].active
      BY <1>1 DEF Match
    <3>2. QED BY <3>1 DEF FoundSnapshot
  <2>3. scan.pc = "revisions" /\ Reads /\ Reading
    BY DEF ReadRevisions, Reads, Reading
  <2>4. \A d \in ids : d \in Deals /\ deal[d].eligible
    BY <2>3 DEF RegistryInv, StillEligible
  <2>5. FoundSnapshot(scan.rows) \in since
    BY <2>3 DEF RegistryInv, RowsWereTrue
  <2> HIDE DEF made, ids
  <2>6. /\ scan'.pc = "find" /\ scan'.attempt = scan.attempt /\ scan'.before = scan.before
        /\ scan'.bundles = made /\ scan'.pending = ids /\ scan'.ids = scan.ids /\ IsScan(scan)'
    BY <2>1 DEF RegistryInv, IsScan
  <2>7. DOMAIN scan.ids = {}
    BY <2>3 DEF RegistryInv, NothingFound
  <2>8. RegistryTypeOK' /\ SinceFirstRead'
    BY <2>3, <2>6, ReadFacts
  <2>9. IdsWereTrue'
    BY <2>6, <2>7 DEF IdsWereTrue
  <2>10. QED BY <2>2, <2>3, <2>4, <2>5, <2>6, <2>8, <2>9
         DEF RegistryInv, RowsWereTrue, BundlesAre, StillEligible, NothingFound, ReadsAgree, Reads
<1>2. CASE ~all
  <2>1. scan' = [NoScan EXCEPT !.pc = "failed", !.attempt = scan.attempt]
    BY <1>2 DEF ReadRevisions
  <2>2. UNCHANGED Tables /\ report'.stored \in BOOLEAN
    BY DEF ReadRevisions, Tables, RegistryInv, RegistryTypeOK
  <2>3. QED BY <2>1, <2>2, FailKeeps
<1>3. QED BY <1>1, <1>2

\* A step within the look-ups, which keeps the bundles.
LEMMA FindKeeps ==
    ASSUME RegistryInv, Reads, IsScan(scan)', scan.pc = "find", scan'.pc = "find",
           scan'.attempt = scan.attempt, scan'.before = scan.before,
           scan'.bundles = scan.bundles, scan'.pending \subseteq scan.pending, IdsWereTrue'
    PROVE  RegistryInv'
<1>1. RegistryTypeOK' /\ SinceFirstRead'
  BY ReadFacts DEF Reading
<1>2. StillEligible'
  BY DEF RegistryInv, StillEligible, Reads
<1>3. QED BY <1>1, <1>2 DEF RegistryInv, RowsWereTrue, BundlesAre, NothingFound, ReadsAgree, Reads

LEMMA FindRowKeeps == ASSUME RegistryInv, NEW d \in Deals, FindRow(d) PROVE RegistryInv'
<1> DEFINE found == [e \in DOMAIN scan.found \cup {d} |->
                        IF e = d THEN deal[d] ELSE scan.found[e]]
<1>1. scan' = [scan EXCEPT !.found = found] /\ Reads /\ scan.pc = "find"
  BY DEF FindRow, Reads
<1> HIDE DEF found
<1>2. /\ IsScan(scan)' /\ scan'.pc = "find" /\ scan'.attempt = scan.attempt
      /\ scan'.before = scan.before /\ scan'.bundles = scan.bundles
      /\ scan'.pending = scan.pending /\ scan'.ids = scan.ids
  BY <1>1 DEF RegistryInv, IsScan
<1>3. IdsWereTrue'
  BY <1>1, <1>2 DEF RegistryInv, IdsWereTrue, Reads
<1>4. QED BY <1>1, <1>2, <1>3, FindKeeps

LEMMA FindRevisionsKeeps ==
    ASSUME RegistryInv, NEW d \in Deals, FindRevisions(d) PROVE RegistryInv'
<1> DEFINE ids == [e \in DOMAIN scan.ids \cup {d} |->
                      IF e = d THEN ActiveOf(assigned, d) ELSE scan.ids[e]]
<1>1. /\ scan' = [scan EXCEPT !.pending = @ \ {d}, !.ids = ids]
      /\ Reads /\ scan.pc = "find" /\ d \in scan.pending
  BY DEF FindRevisions, Reads
<1>2. /\ DOMAIN ids = DOMAIN scan.ids \cup {d} /\ ids[d] = ActiveOf(assigned, d)
      /\ \A e \in DOMAIN scan.ids : e # d => ids[e] = scan.ids[e]
  OBVIOUS
<1> HIDE DEF ids
<1>3. /\ IsScan(scan)' /\ scan'.pc = "find" /\ scan'.attempt = scan.attempt
      /\ scan'.before = scan.before /\ scan'.bundles = scan.bundles
      /\ scan'.pending = scan.pending \ {d} /\ scan'.ids = ids
  BY <1>1 DEF RegistryInv, IsScan
<1>4. \E x \in Snapshot : x.deal = d /\ x.active = ids[d]
  <2>1. deal[d].eligible
    BY <1>1 DEF RegistryInv, StillEligible
  <2>2. QED BY <1>2, <2>1, InSnapshot
<1>5. Snapshot \in since
  BY <1>1 DEF RegistryInv, SinceFirstRead, Reading
<1>6. IdsWereTrue'
  <2> SUFFICES ASSUME NEW e \in DOMAIN ids
               PROVE  \E S \in since : \E x \in S : x.deal = e /\ x.active = ids[e]
    BY <1>1, <1>3 DEF IdsWereTrue, Reads
  <2>1. CASE e = d
    BY <1>4, <1>5, <2>1
  <2>2. CASE e # d
    BY <1>1, <1>2, <2>2 DEF RegistryInv, IdsWereTrue
  <2>3. QED BY <2>1, <2>2
<1>7. QED BY <1>1, <1>3, <1>6, FindKeeps

LEMMA ReadAfterKeeps == ASSUME RegistryInv, ReadAfter PROVE RegistryInv'
<1>1. scan.pc = "find" /\ Reads /\ Reading
  BY DEF ReadAfter, Reads, Reading
<1>2. CASE Unchanged(scan.before, Snapshot, scan)
  <2>1. scan' = [scan EXCEPT !.pc = "save"]
    BY <1>2 DEF ReadAfter
  <2>2. /\ IsScan(scan)' /\ scan'.pc = "save" /\ scan'.attempt = scan.attempt
        /\ scan'.before = scan.before /\ scan'.bundles = scan.bundles
        /\ scan'.ids = scan.ids /\ scan'.found = scan.found
    BY <2>1 DEF RegistryInv, IsScan
  <2>3. scan.before = FoundSnapshot(scan.found)
    BY <1>2 DEF Unchanged
  <2>4. RegistryTypeOK' /\ SinceFirstRead'
    BY <1>1, <2>2, ReadFacts
  <2>5. ReadsAgree'
    BY <2>2, <2>3 DEF ReadsAgree, FoundSnapshot
  <2>6. QED BY <1>1, <2>2, <2>4, <2>5
        DEF RegistryInv, RowsWereTrue, BundlesAre, StillEligible, IdsWereTrue, NothingFound, Reads
<1>3. CASE ~Unchanged(scan.before, Snapshot, scan)
  <2>1. scan' = [NoScan EXCEPT !.pc = "failed", !.attempt = scan.attempt]
    BY <1>3 DEF ReadAfter
  <2>2. UNCHANGED Tables /\ report'.stored \in BOOLEAN
    BY DEF ReadAfter, Tables, RegistryInv, RegistryTypeOK
  <2>3. QED BY <2>1, <2>2, FailKeeps
<1>4. QED BY <1>2, <1>3

LEMMA SaveKeeps == ASSUME RegistryInv, Save PROVE RegistryInv'
<1>1. UNCHANGED Tables /\ report'.stored \in BOOLEAN /\ since' = since
  <2>1. \/ report' = report
        \/ report' = [stored |-> TRUE, snapshot |-> FoundSnapshot(scan.found),
                      bundles |-> scan.bundles]
    BY DEF Save
  <2>2. report'.stored \in BOOLEAN
    <3>1. CASE report' = report
      BY <3>1 DEF RegistryInv, RegistryTypeOK
    <3>2. CASE report' = [stored |-> TRUE, snapshot |-> FoundSnapshot(scan.found),
                          bundles |-> scan.bundles]
      <4>1. report'.stored = TRUE
        BY <3>2
      <4>2. QED BY <4>1
    <3>3. QED BY <2>1, <3>1, <3>2
  <2>3. QED BY <2>2 DEF Save, Tables
<1>2. CASE scan' = [scan EXCEPT !.pc = "saved"]
  <2>1. /\ IsScan(scan)' /\ scan'.pc = "saved" /\ scan'.attempt = scan.attempt
        /\ scan'.bundles = scan.bundles
    BY <1>2 DEF RegistryInv, IsScan
  <2>2. scan.pc = "save" /\ scan.attempt \in 0..MaxAttempts
    BY DEF Save, RegistryInv, RegistryTypeOK
  <2>3. RegistryTypeOK'
    BY <1>1, <2>1, <2>2, TypesStay
  <2>4. QED BY <1>1, <2>1, <2>2, <2>3 DEF RegistryInv, Reading, SinceFirstRead, RowsWereTrue,
               BundlesAre, StillEligible, IdsWereTrue, NothingFound, ReadsAgree
<1>3. CASE scan' = [NoScan EXCEPT !.pc = "failed", !.attempt = scan.attempt]
  BY <1>1, <1>3, FailKeeps
<1>4. QED BY <1>2, <1>3 DEF Save

-----------------------------------------------------------------------------

LEMMA RegistryInvInit == RegistryInit => RegistryInv
<1> SUFFICES ASSUME RegistryInit PROVE RegistryInv
  OBVIOUS
<1>1. \A d \in Deals : ActiveOf(assigned, d) = {}
  BY DEF RegistryInit, ActiveOf
<1>2. MaxRevision \in Nat /\ MaxConfirms \in Nat /\ MaxAttempts \in Nat
  BY RegistryAssumption
<1>3. Absent \in DealRow
  BY DEF Absent, DealRow
<1>4. /\ deal \in [Deals -> DealRow] /\ revisions \in [Sources -> 0..MaxRevision]
      /\ confirms \in 0..MaxConfirms /\ \A d \in Deals : deal[d].active = {}
  BY <1>2, <1>3 DEF RegistryInit, Absent
<1>5. /\ scan.pc = "off" /\ scan.attempt \in 0..MaxAttempts /\ report.stored \in BOOLEAN
  BY <1>2 DEF RegistryInit, NoScan, NoReport
<1>6. assigned = {} /\ used = {}
  BY DEF RegistryInit
<1>7. RegistryTypeOK
  BY <1>1, <1>4, <1>5, <1>6 DEF RegistryTypeOK
<1>8. QED BY <1>7 DEF RegistryInit, RegistryInv, IsScan, NoScan, Reading, SinceFirstRead,
             RowsWereTrue, BundlesAre, StillEligible, IdsWereTrue, NothingFound, ReadsAgree

LEMMA RegistryInvNext == RegistryInv /\ [RegistryNext]_registryVars => RegistryInv'
<1> SUFFICES ASSUME RegistryInv, [RegistryNext]_registryVars PROVE RegistryInv'
  OBVIOUS
<1>1. ASSUME NEW s \in Sources, Revise(s) PROVE RegistryInv'
  BY <1>1, ReviseKeeps
<1>2. ASSUME NEW q \in Requests, NEW d \in Deals, NEW s \in Sources, NEW n \in 1..MaxRevision,
             NEW st \in Statuses, Confirm(q, d, s, n, st)
      PROVE  RegistryInv'
  BY <1>2, ConfirmKeeps
<1>3. ASSUME NEW d \in Deals, FindRow(d) PROVE RegistryInv'
  BY <1>3, FindRowKeeps
<1>4. ASSUME NEW d \in Deals, FindRevisions(d) PROVE RegistryInv'
  BY <1>4, FindRevisionsKeeps
<1>5. CASE UNCHANGED registryVars
  <2>1. Snapshot' = Snapshot
    BY <1>5, SnapshotStays DEF registryVars
  <2>2. QED BY <1>5, <2>1 DEF registryVars, RegistryInv, RegistryTypeOK, IsScan, Reading,
               SinceFirstRead, RowsWereTrue, BundlesAre, StillEligible, IdsWereTrue,
               NothingFound, ReadsAgree, FoundSnapshot
<1>6. QED BY <1>1, <1>2, <1>3, <1>4, <1>5, ReadBeforeKeeps, ReadRowsKeeps, ReadRevisionsKeeps,
             ReadAfterKeeps, SaveKeeps DEF RegistryNext

\* The registry's types, and that a deal's row carries the fingerprint of its assignments.
THEOREM RegistryTypeCorrect == RegistrySpec => []RegistryTypeOK
<1>1. RegistryInv => RegistryTypeOK
  BY DEF RegistryInv
<1>2. QED BY RegistryInvInit, RegistryInvNext, <1>1, PTL DEF RegistrySpec

\* Whatever is confirmed and revised while an attempt reads, its bundles were the registry's
\* state at one moment.
THEOREM BundlesWereTrueHolds == RegistrySpec => []BundlesWereTrue
<1>1. RegistryInv => BundlesWereTrue
  BY DEF RegistryInv, BundlesAre, BundlesWereTrue
<1>2. QED BY RegistryInvInit, RegistryInvNext, <1>1, PTL DEF RegistrySpec

\* A save that stores a report stores what the registry holds.
LEMMA StoredIsTrue ==
    ASSUME RegistryInv, Save, report' # report, ~returned
    PROVE  /\ report'.bundles = Snapshot /\ report'.snapshot = Snapshot
           /\ \A d \in DOMAIN scan.ids : scan.ids[d] = ActiveOf(assigned, d)
<1>1. /\ scan.pc = "save" /\ Snapshot = FoundSnapshot(scan.found)
      /\ report' = [stored |-> TRUE, snapshot |-> FoundSnapshot(scan.found),
                    bundles |-> scan.bundles]
  BY DEF Save, Authoritative
<1>2. scan.before = Snapshot
  BY <1>1 DEF RegistryInv, ReadsAgree
<1>3. since = {Snapshot}
  BY <1>1, <1>2 DEF RegistryInv, SinceFirstRead, Reading
<1>4. scan.bundles = Snapshot
  BY <1>1, <1>3 DEF RegistryInv, BundlesAre
<1>5. ASSUME NEW d \in DOMAIN scan.ids PROVE scan.ids[d] = ActiveOf(assigned, d)
  <2>1. PICK x \in Snapshot : x.deal = d /\ x.active = scan.ids[d]
    BY <1>1, <1>3 DEF RegistryInv, IdsWereTrue
  <2>2. QED BY <2>1, SnapshotActive
<1>6. QED BY <1>1, <1>4, <1>5

\* Unless the registry went back to an earlier state, a report is stored with what the
\* registry holds at that moment, and underwriting takes the same revisions.
THEOREM ReportTrueWhenStoredHolds == RegistrySpec => ReportTrueWhenStored
<1> DEFINE A == report' # report /\ ~returned =>
                    /\ report'.bundles = Snapshot
                    /\ report'.snapshot = Snapshot
                    /\ \A d \in DOMAIN scan.ids : scan.ids[d] = ActiveOf(assigned, d)
<1>1. RegistryInv /\ [RegistryNext]_registryVars => [A]_registryVars
  <2> SUFFICES ASSUME RegistryInv, RegistryNext, report' # report, ~returned PROVE A
    BY DEF registryVars
  <2>1. Save
    BY DEF RegistryNext, Revise, Confirm, ReadBefore, ReadRows, ReadRevisions, FindRow,
           FindRevisions, ReadAfter
  <2>2. QED BY <2>1, StoredIsTrue
<1> HIDE DEF A
<1>2. RegistrySpec => [][A]_registryVars
  BY RegistryInvInit, RegistryInvNext, <1>1, PTL DEF RegistrySpec
<1>3. QED BY <1>2 DEF ReportTrueWhenStored, A

-----------------------------------------------------------------------------
(* The reset of the test view.                                                  *)

RunRow == [pc : {"none", "open", "refused", "active", "done"}, created : Nat]

ResetRow == [pc : {"off", "asked", "taken", "checked", "answered", "refused"},
             at : Nat, open : SUBSET Runs]

\* Every stamp is one the clock has handed out.
StampsPast ==
    /\ clock \in Nat
    /\ run \in [Runs -> RunRow]
    /\ reset \in [Resets -> ResetRow]
    /\ marker \in [at : Nat, by : Resets \cup {Nobody}]
    /\ \A x \in Runs : run[x].pc \in {"open", "active"} => run[x].created # 0
    /\ \A r \in Resets : reset[r].at <= clock

\* The marker is that of a reset which was answered.
MarkerAnswered ==
    IF marker.by = Nobody THEN marker.at = 0
    ELSE reset[marker.by].pc = "answered" /\ reset[marker.by].at = marker.at

\* Once a reset has looked for active runs, those at work that it would hide had begun
\* before it looked and were not committed.
HidesOpenOnly(r) ==
    reset[r].pc \in {"checked", "answered"} =>
        \A x \in Runs : run[x].pc \in {"open", "active"} /\ run[x].created <= reset[r].at =>
            x \in reset[r].open

ResetInv == StampsPast /\ MarkerAnswered /\ \A r \in Resets : HidesOpenOnly(r)

-----------------------------------------------------------------------------

LEMMA BeginKeeps == ASSUME ResetInv, NEW x \in Runs, BeginInsert(x) PROVE ResetInv'
<1>1. /\ clock' = clock + 1 /\ clock \in Nat /\ reset' = reset /\ marker' = marker
      /\ \A y \in Runs : y # x => run'[y] = run[y]
      /\ run'[x] = [pc |-> "open", created |-> clock + 1]
      /\ run' \in [Runs -> RunRow]
  BY DEF BeginInsert, ResetInv, StampsPast, RunRow
<1>2. StampsPast'
  <2>1. \A r \in Resets : reset'[r].at <= clock'
    BY <1>1 DEF ResetInv, StampsPast, ResetRow
  <2>2. \A y \in Runs : run'[y].pc \in {"open", "active"} => run'[y].created # 0
    BY <1>1 DEF ResetInv, StampsPast
  <2>3. QED BY <1>1, <2>1, <2>2 DEF ResetInv, StampsPast
<1>3. MarkerAnswered'
  BY <1>1 DEF ResetInv, MarkerAnswered
<1>4. ASSUME NEW r \in Resets PROVE HidesOpenOnly(r)'
  <2>1. ~(run'[x].created <= reset[r].at)
    <3>1. reset[r].at \in Nat /\ reset[r].at <= clock
      BY DEF ResetInv, StampsPast, ResetRow
    <3>2. QED BY <1>1, <3>1
  <2>2. QED BY <1>1, <2>1 DEF ResetInv, HidesOpenOnly
<1>5. QED BY <1>2, <1>3, <1>4 DEF ResetInv

\* A run that is open, active or settled stays where it was in time.
LEMMA RunMovesKeeps ==
    ASSUME ResetInv, NEW x \in Runs, NEW pc \in {"refused", "active", "done"},
           run[x].pc \in {"open", "active"},
           run' = [run EXCEPT ![x].pc = pc], UNCHANGED <<clock, reset, marker>>
    PROVE  ResetInv'
<1>1. /\ \A y \in Runs : /\ run'[y].created = run[y].created
                         /\ run'[y].pc = IF y = x THEN pc ELSE run[y].pc
      /\ run' \in [Runs -> RunRow]
  BY DEF ResetInv, StampsPast, RunRow
<1>2. StampsPast'
  BY <1>1 DEF ResetInv, StampsPast
<1>3. MarkerAnswered'
  BY DEF ResetInv, MarkerAnswered
<1>4. ASSUME NEW r \in Resets PROVE HidesOpenOnly(r)'
  BY <1>1 DEF ResetInv, HidesOpenOnly
<1>5. QED BY <1>2, <1>3, <1>4 DEF ResetInv

\* A reset whose marker is not written yet moves on.
LEMMA ResetMovesKeeps ==
    ASSUME ResetInv, NEW r \in Resets, NEW row \in ResetRow,
           reset[r].pc # "answered", row.pc # "answered",
           reset' = [reset EXCEPT ![r] = row], UNCHANGED <<run, marker>>,
           clock' \in Nat, clock <= clock', row.at <= clock',
           row.pc = "checked" => \A x \in Runs : run[x].pc # "active" /\
                                                 (run[x].pc = "open" => x \in row.open)
    PROVE  ResetInv'
<1>1. /\ reset' \in [Resets -> ResetRow] /\ reset'[r] = row
      /\ \A s \in Resets : s # r => reset'[s] = reset[s]
  BY DEF ResetInv, StampsPast
<1>2. StampsPast'
  <2>1. ASSUME NEW s \in Resets PROVE reset'[s].at <= clock'
    <3>1. CASE s = r
      BY <1>1, <3>1
    <3>2. CASE s # r
      <4>1. reset[s].at \in Nat /\ reset[s].at <= clock /\ clock \in Nat
        BY DEF ResetInv, StampsPast, ResetRow
      <4>2. QED BY <1>1, <3>2, <4>1
    <3>3. QED BY <3>1, <3>2
  <2>2. QED BY <1>1, <2>1 DEF ResetInv, StampsPast
<1>3. MarkerAnswered'
  <2>1. marker.by \in Resets \cup {Nobody}
    BY DEF ResetInv, StampsPast
  <2>2. QED BY <1>1, <2>1 DEF ResetInv, MarkerAnswered
<1>4. ASSUME NEW s \in Resets PROVE HidesOpenOnly(s)'
  BY <1>1 DEF ResetInv, HidesOpenOnly
<1>5. QED BY <1>2, <1>3, <1>4 DEF ResetInv

LEMMA RowFacts ==
    ASSUME ResetInv, NEW r \in Resets
    PROVE  /\ reset[r] \in ResetRow /\ clock \in Nat /\ clock + 1 \in Nat
           /\ reset[r].at \in Nat /\ reset[r].at <= clock
           /\ clock <= clock /\ clock <= clock + 1
BY DEF ResetInv, StampsPast, ResetRow

LEMMA AskKeeps == ASSUME ResetInv, NEW r \in Resets, Ask(r) PROVE ResetInv'
<1> DEFINE pc == IF ActiveRun THEN "refused" ELSE "asked"
           row == [reset[r] EXCEPT !.pc = pc]
<1>1. pc \in {"refused", "asked"}
  OBVIOUS
<1> HIDE DEF pc
<1>2. row \in ResetRow /\ row.pc = pc /\ row.at = reset[r].at
  BY <1>1, RowFacts DEF ResetRow
<1>3. reset' = [reset EXCEPT ![r] = row]
  BY DEF Ask, Goes, pc, ResetInv, StampsPast
<1>4. reset[r].pc # "answered" /\ row.pc # "answered" /\ row.pc # "checked"
  BY <1>1, <1>2 DEF Ask
<1>5. clock' = clock /\ UNCHANGED <<run, marker>>
  BY DEF Ask
<1> HIDE DEF row
<1>6. QED BY <1>2, <1>3, <1>4, <1>5, RowFacts, ResetMovesKeeps

LEMMA TakeKeeps == ASSUME ResetInv, NEW r \in Resets, TakeMarker(r) PROVE ResetInv'
<1> DEFINE row == [reset[r] EXCEPT !.pc = "taken", !.at = clock + 1]
<1>1. row \in ResetRow /\ row.pc = "taken" /\ row.at = clock + 1
  BY RowFacts DEF ResetRow
<1>2. /\ reset' = [reset EXCEPT ![r] = row] /\ reset[r].pc # "answered"
      /\ clock' = clock + 1 /\ UNCHANGED <<run, marker>>
  BY DEF TakeMarker, ResetInv, StampsPast
<1>3. row.at <= clock' /\ row.pc # "answered" /\ row.pc # "checked"
  BY <1>1, <1>2, RowFacts
<1> HIDE DEF row
<1>4. QED BY <1>1, <1>2, <1>3, RowFacts, ResetMovesKeeps

LEMMA CheckKeeps == ASSUME ResetInv, NEW r \in Resets, CheckActive(r) PROVE ResetInv'
<1> DEFINE pc == IF ActiveRun THEN "refused" ELSE "checked"
           open == {x \in Runs : run[x].pc = "open"}
           row == [reset[r] EXCEPT !.pc = pc, !.open = open]
<1>1. pc \in {"refused", "checked"} /\ open \in SUBSET Runs
  OBVIOUS
<1>2. pc = "checked" => \A x \in Runs : run[x].pc # "active" /\ (run[x].pc = "open" => x \in open)
  BY DEF ActiveRun
<1>3. reset' = [reset EXCEPT ![r] = row]
  BY DEF CheckActive, ResetInv, StampsPast
<1> HIDE DEF pc, open
<1>4. row \in ResetRow /\ row.pc = pc /\ row.at = reset[r].at /\ row.open = open
  BY <1>1, RowFacts DEF ResetRow
<1>5. /\ reset[r].pc # "answered" /\ row.pc # "answered"
      /\ clock' = clock /\ UNCHANGED <<run, marker>>
  BY <1>1, <1>4 DEF CheckActive
<1> HIDE DEF row
<1>6. QED BY <1>2, <1>3, <1>4, <1>5, RowFacts, ResetMovesKeeps

LEMMA WriteKeeps == ASSUME ResetInv, NEW r \in Resets, WriteMarker(r) PROVE ResetInv'
<1>1. /\ reset[r].pc = "checked" /\ clock' = clock /\ run' = run
      /\ marker' = [at |-> reset[r].at, by |-> r]
      /\ reset' \in [Resets -> ResetRow]
      /\ reset'[r].pc = "answered"
      /\ \A s \in Resets : /\ s # r => reset'[s] = reset[s]
                           /\ reset'[s].at = reset[s].at /\ reset'[s].open = reset[s].open
  BY DEF WriteMarker, Goes, ResetInv, StampsPast, ResetRow
<1>2. StampsPast'
  <2>1. marker' \in [at : Nat, by : Resets \cup {Nobody}]
    BY <1>1, RowFacts
  <2>2. QED BY <1>1, <2>1 DEF ResetInv, StampsPast
<1>3. MarkerAnswered'
  BY <1>1, ResetAssumption DEF MarkerAnswered
<1>4. ASSUME NEW s \in Resets PROVE HidesOpenOnly(s)'
  BY <1>1 DEF ResetInv, HidesOpenOnly
<1>5. QED BY <1>2, <1>3, <1>4 DEF ResetInv

-----------------------------------------------------------------------------

LEMMA ResetInvInit == ResetInit => ResetInv
BY DEF ResetInit, ResetInv, StampsPast, MarkerAnswered, HidesOpenOnly, RunRow, ResetRow

LEMMA ResetInvNext == ResetInv /\ [ResetNext]_resetVars => ResetInv'
<1> SUFFICES ASSUME ResetInv, [ResetNext]_resetVars PROVE ResetInv'
  OBVIOUS
<1>1. ASSUME NEW x \in Runs, BeginInsert(x) PROVE ResetInv'
  BY <1>1, BeginKeeps
<1>2. ASSUME NEW x \in Runs, CommitInsert(x) PROVE ResetInv'
  <2>1. PICK pc \in {"refused", "active"} : run' = [run EXCEPT ![x].pc = pc]
    BY <1>2 DEF CommitInsert
  <2>2. run[x].pc \in {"open", "active"} /\ UNCHANGED <<clock, reset, marker>>
    BY <1>2 DEF CommitInsert
  <2>3. QED BY <2>1, <2>2, RunMovesKeeps
<1>3. ASSUME NEW x \in Runs, Finish(x) PROVE ResetInv'
  <2>1. /\ run' = [run EXCEPT ![x].pc = "done"] /\ run[x].pc \in {"open", "active"}
        /\ UNCHANGED <<clock, reset, marker>>
    BY <1>3 DEF Finish
  <2>2. QED BY <2>1, RunMovesKeeps
<1>4. ASSUME NEW r \in Resets, Ask(r) PROVE ResetInv'
  BY <1>4, AskKeeps
<1>5. ASSUME NEW r \in Resets, TakeMarker(r) PROVE ResetInv'
  BY <1>5, TakeKeeps
<1>6. ASSUME NEW r \in Resets, CheckActive(r) PROVE ResetInv'
  BY <1>6, CheckKeeps
<1>7. ASSUME NEW r \in Resets, WriteMarker(r) PROVE ResetInv'
  BY <1>7, WriteKeeps
<1>8. CASE UNCHANGED resetVars
  BY <1>8 DEF resetVars, ResetInv, StampsPast, MarkerAnswered, HidesOpenOnly
<1>9. QED BY <1>1, <1>2, <1>3, <1>4, <1>5, <1>6, <1>7, <1>8 DEF ResetNext

\* However many resets and runs overlap, a run at work is hidden only by a reset that
\* looked while its insertion was open.
THEOREM HiddenOnlyIfOverlappingHolds == ResetSpec => []HiddenOnlyIfOverlapping
<1>1. ResetInv => HiddenOnlyIfOverlapping
  <2> SUFFICES ASSUME ResetInv, NEW x \in Runs, run[x].pc = "active", ~Listed(x)
               PROVE  marker.by # Nobody /\ x \in reset[marker.by].open
    BY DEF HiddenOnlyIfOverlapping
  <2>1. run[x].created \in Nat /\ run[x].created # 0 /\ marker.at \in Nat
    BY DEF ResetInv, StampsPast, RunRow
  <2>2. run[x].created <= marker.at
    BY <2>1 DEF Listed
  <2>3. marker.by # Nobody
    BY <2>1, <2>2 DEF ResetInv, MarkerAnswered
  <2>4. marker.by \in Resets
    BY <2>3 DEF ResetInv, StampsPast
  <2>5. QED BY <2>2, <2>3, <2>4 DEF ResetInv, MarkerAnswered, HidesOpenOnly
<1>2. QED BY ResetInvInit, ResetInvNext, <1>1, PTL DEF ResetSpec

-----------------------------------------------------------------------------
(* The fund policies.                                                           *)

Origins == {"first", "save", "apply", "restore"}

Version == [values : PolicyValues, source : {"recommended_policy", "user_custom"}, by : Origins,
            over : Nat, decided : Nat, told : Nat]

Request == [request : {"none", "first", "apply", "restore"}, shown : Nat, read : Nat, chosen : Nat]

PoliciesTypeOK ==
    /\ policyVersions \in Seq(Version)
    /\ activePolicy = Len(policyVersions)
    /\ desk \in [Managers -> Request]

\* Nobody was shown a version that does not exist; a request to apply has read the very
\* version its manager was shown, and one to restore has read a version.
DesksCurrent ==
    \A a \in Managers :
        LET r == desk[a] IN
        /\ r.shown <= activePolicy /\ r.read <= activePolicy
        /\ r.request = "apply" => r.shown # 0 /\ r.read = r.shown
        /\ r.request = "restore" => r.read # 0 /\ r.chosen \in DOMAIN policyVersions

\* What PoliciesReplaceWhatWasSeen says of the n-th version.
WellReplaced(p, n) ==
    /\ p.over = n - 1
    /\ p.by \in {"save", "apply"} => p.over = p.decided
    /\ p.by \in {"apply", "restore"} => p.over = p.told
    /\ (p.by = "first") = (n = 1)

PoliciesInv == PoliciesTypeOK /\ DesksCurrent /\ PoliciesReplaceWhatWasSeen

-----------------------------------------------------------------------------
(* What a request does. *)

\* A version is appended, by manager a, who is then shown it.
Appends(a, row) ==
    /\ policyVersions' = Append(policyVersions, row)
    /\ activePolicy' = Len(policyVersions) + 1
    /\ desk' = [desk EXCEPT ![a] = [AtRest EXCEPT !.shown = activePolicy']]

\* A manager's own record changes.
Notes(a, r) ==
    /\ desk' = [desk EXCEPT ![a] = r]
    /\ UNCHANGED <<policyVersions, activePolicy>>

LEMMA AppendOrConflict ==
    ASSUME NEW a, NEW expected, NEW row, AppendVersion(a, expected, row)
    PROVE  \/ activePolicy = expected /\ Appends(a, row)
           \/ Notes(a, [AtRest EXCEPT !.shown = desk[a].shown])
BY DEF AppendVersion, Appends, Notes

\* Appending a version that replaces the one in force keeps the invariant.
LEMMA AppendKeeps ==
    ASSUME PoliciesInv, NEW a \in Managers, NEW row \in Version, Appends(a, row),
           WellReplaced(row, Len(policyVersions) + 1)
    PROVE  PoliciesInv'
<1> DEFINE n == Len(policyVersions)
<1>1. /\ n \in Nat /\ activePolicy = n /\ policyVersions \in Seq(Version)
      /\ policyVersions' \in Seq(Version) /\ Len(policyVersions') = n + 1
      /\ \A i \in 1..n : policyVersions'[i] = policyVersions[i]
      /\ policyVersions'[n + 1] = row
  BY DEF PoliciesInv, PoliciesTypeOK, Appends
<1>2. activePolicy' = n + 1 /\ desk' = [desk EXCEPT ![a] = [AtRest EXCEPT !.shown = n + 1]]
  BY DEF Appends
<1>3. PoliciesTypeOK'
  BY <1>1, <1>2 DEF PoliciesInv, PoliciesTypeOK, Request, AtRest
<1>4. DesksCurrent'
  <2> SUFFICES ASSUME NEW b \in Managers
               PROVE  /\ desk'[b].shown <= activePolicy' /\ desk'[b].read <= activePolicy'
                      /\ desk'[b].request = "apply" => /\ desk'[b].shown # 0
                                                       /\ desk'[b].read = desk'[b].shown
                      /\ desk'[b].request = "restore" =>
                             desk'[b].read # 0 /\ desk'[b].chosen \in DOMAIN policyVersions'
    BY DEF DesksCurrent
  <2>1. CASE b = a
    BY <1>1, <1>2, <2>1 DEF PoliciesInv, PoliciesTypeOK, AtRest
  <2>2. CASE b # a
    <3>1. desk'[b] = desk[b] /\ desk[b] \in Request
      BY <1>2, <2>2 DEF PoliciesInv, PoliciesTypeOK
    <3>2. 1..n \subseteq 1..(n + 1)
      BY <1>1
    <3>3. DOMAIN policyVersions = 1..n /\ DOMAIN policyVersions' = 1..(n + 1)
      BY <1>1
    <3>4. /\ desk[b].shown <= n /\ desk[b].read <= n
          /\ desk[b].request = "apply" => desk[b].shown # 0 /\ desk[b].read = desk[b].shown
          /\ desk[b].request = "restore" => desk[b].read # 0 /\ desk[b].chosen \in 1..n
      BY <1>1, <3>3 DEF PoliciesInv, DesksCurrent
    <3>5. desk[b].shown \in Nat /\ desk[b].read \in Nat
      BY <3>1 DEF Request
    <3>6. desk[b].shown <= n + 1 /\ desk[b].read <= n + 1
      BY <1>1, <3>4, <3>5
    <3>7. QED BY <1>2, <3>1, <3>2, <3>3, <3>4, <3>6
  <2>3. QED BY <2>1, <2>2
<1>5. PoliciesReplaceWhatWasSeen'
  <2>1. DOMAIN policyVersions' = 1..(n + 1) /\ DOMAIN policyVersions = 1..n
    BY <1>1
  <2>2. ASSUME NEW i \in 1..(n + 1) PROVE WellReplaced(policyVersions'[i], i)
    <3>1. CASE i = n + 1
      BY <1>1, <3>1
    <3>2. CASE i # n + 1
      <4>1. i \in 1..n
        BY <1>1, <3>2
      <4>2. WellReplaced(policyVersions[i], i)
        BY <2>1, <4>1 DEF PoliciesInv, PoliciesReplaceWhatWasSeen, WellReplaced
      <4>3. QED BY <1>1, <4>1, <4>2
    <3>3. QED BY <3>1, <3>2
  <2>3. QED BY <2>1, <2>2 DEF PoliciesReplaceWhatWasSeen, WellReplaced
<1>6. QED BY <1>3, <1>4, <1>5 DEF PoliciesInv

\* So does a record that refers to versions that exist.
LEMMA NoteKeeps ==
    ASSUME PoliciesInv, NEW a \in Managers, NEW r \in Request, Notes(a, r),
           r.shown <= activePolicy, r.read <= activePolicy,
           r.request = "apply" => r.shown # 0 /\ r.read = r.shown,
           r.request = "restore" => r.read # 0 /\ r.chosen \in DOMAIN policyVersions
    PROVE  PoliciesInv'
<1>1. PoliciesTypeOK'
  BY DEF PoliciesInv, PoliciesTypeOK, Notes
<1>2. DesksCurrent'
  <2>1. \A b \in Managers : desk'[b] = IF b = a THEN r ELSE desk[b]
    BY DEF PoliciesInv, PoliciesTypeOK, Notes
  <2>2. activePolicy' = activePolicy /\ policyVersions' = policyVersions
    BY DEF Notes
  <2>3. QED BY <2>1, <2>2 DEF PoliciesInv, DesksCurrent
<1>3. PoliciesReplaceWhatWasSeen'
  BY DEF PoliciesInv, PoliciesReplaceWhatWasSeen, Notes
<1>4. QED BY <1>1, <1>2, <1>3 DEF PoliciesInv

\* AppendVersion as the requests use it: the version it may append is sound.
LEMMA AppendVersionKeeps ==
    ASSUME PoliciesInv, NEW a \in Managers, NEW expected, NEW row \in Version,
           AppendVersion(a, expected, row),
           activePolicy = expected => WellReplaced(row, Len(policyVersions) + 1)
    PROVE  PoliciesInv'
<1>1. CASE activePolicy = expected /\ Appends(a, row)
  BY <1>1, AppendKeeps
<1>2. CASE Notes(a, [AtRest EXCEPT !.shown = desk[a].shown])
  <2> DEFINE r == [AtRest EXCEPT !.shown = desk[a].shown]
  <2>1. desk[a] \in Request /\ desk[a].shown <= activePolicy /\ activePolicy \in Nat
    BY DEF PoliciesInv, PoliciesTypeOK, DesksCurrent
  <2>2. /\ r \in Request /\ r.shown <= activePolicy /\ r.read <= activePolicy
        /\ r.request # "apply" /\ r.request # "restore"
    BY <2>1 DEF Request, AtRest
  <2>3. QED BY <1>2, <2>1, <2>2, NoteKeeps
<1>3. QED BY <1>1, <1>2, AppendOrConflict

-----------------------------------------------------------------------------
(* Each request. *)

LEMMA DeskFacts ==
    ASSUME PoliciesInv, NEW a \in Managers
    PROVE  /\ desk[a] \in Request /\ activePolicy = Len(policyVersions) /\ activePolicy \in Nat
           /\ desk[a].shown <= activePolicy /\ desk[a].read <= activePolicy
           /\ desk[a].request = "apply" => desk[a].shown # 0 /\ desk[a].read = desk[a].shown
           /\ desk[a].request = "restore" =>
                  desk[a].read # 0 /\ desk[a].chosen \in DOMAIN policyVersions
BY DEF PoliciesInv, PoliciesTypeOK, DesksCurrent

LEMMA ViewKeeps ==
    ASSUME PoliciesInv, NEW a \in Managers, ViewPolicy(a) PROVE PoliciesInv'
<1>1. CASE activePolicy = 0
  <2> DEFINE r == [desk[a] EXCEPT !.request = "first"]
  <2>1. r \in Request /\ r.request = "first" /\ r.shown = desk[a].shown /\ r.read = desk[a].read
    BY DeskFacts DEF Request
  <2>2. Notes(a, r)
    BY <1>1 DEF ViewPolicy, Asks, Notes
  <2>3. QED BY <2>1, <2>2, DeskFacts, NoteKeeps
<1>2. CASE activePolicy # 0
  <2> DEFINE r == [desk[a] EXCEPT !.shown = activePolicy]
  <2>1. r \in Request /\ r.request = "none" /\ r.shown = activePolicy /\ r.read = desk[a].read
    BY DeskFacts DEF Request, ViewPolicy
  <2>2. Notes(a, r)
    BY <1>2 DEF ViewPolicy, Asks, Notes
  <2>3. activePolicy <= activePolicy
    BY DeskFacts
  <2>4. QED BY <2>1, <2>2, <2>3, DeskFacts, NoteKeeps
<1>3. QED BY <1>1, <1>2

LEMMA FirstKeeps ==
    ASSUME PoliciesInv, NEW a \in Managers, ActivateFirst(a) PROVE PoliciesInv'
<1> DEFINE row == Recommended("first", 0, 0)
<1>1. row \in Version /\ row.by = "first" /\ row.over = activePolicy
  BY DeskFacts, PoliciesAssumption DEF Version, Origins, Recommended, NewVersion
<1>2. AppendVersion(a, 0, row)
  BY DEF ActivateFirst
<1>3. activePolicy = 0 => WellReplaced(row, Len(policyVersions) + 1)
  BY <1>1, DeskFacts DEF WellReplaced
<1>4. QED BY <1>1, <1>2, <1>3, AppendVersionKeeps

LEMMA SavePolicyKeeps ==
    ASSUME PoliciesInv, NEW a \in Managers, NEW values \in PolicyValues, SavePolicy(a, values)
    PROVE  PoliciesInv'
<1> DEFINE row == NewVersion(values, "user_custom", "save", desk[a].shown, 0)
<1>1. desk[a] \in Request /\ desk[a].shown \in Nat /\ desk[a].shown # 0
  BY DeskFacts DEF SavePolicy, Request
<1>2. /\ row \in Version /\ row.by = "save" /\ row.over = activePolicy
      /\ row.decided = desk[a].shown
  BY <1>1, DeskFacts DEF Version, Origins, NewVersion
<1>3. AppendVersion(a, desk[a].shown, row)
  BY DEF SavePolicy
<1>4. activePolicy = desk[a].shown => WellReplaced(row, Len(policyVersions) + 1)
  BY <1>1, <1>2, DeskFacts DEF WellReplaced
<1>5. QED BY <1>2, <1>3, <1>4, AppendVersionKeeps

LEMMA AskRecommendedKeeps ==
    ASSUME PoliciesInv, NEW a \in Managers, AskRecommended(a) PROVE PoliciesInv'
<1> DEFINE r == [desk[a] EXCEPT !.request = "apply", !.read = activePolicy]
<1>1. /\ r \in Request /\ r.request = "apply" /\ r.read = activePolicy
      /\ r.shown = desk[a].shown /\ desk[a].shown = activePolicy /\ desk[a].shown # 0
  BY DeskFacts DEF AskRecommended, Request
<1>2. Notes(a, r)
  BY DEF AskRecommended, Asks, Notes
<1>3. activePolicy <= activePolicy
  BY DeskFacts
<1>4. QED BY <1>1, <1>2, <1>3, NoteKeeps

LEMMA ApplyKeeps ==
    ASSUME PoliciesInv, NEW a \in Managers, ApplyRecommended(a) PROVE PoliciesInv'
<1> DEFINE row == Recommended("apply", desk[a].shown, desk[a].read)
<1>1. /\ desk[a] \in Request /\ desk[a].shown \in Nat /\ desk[a].read \in Nat
      /\ desk[a].shown # 0 /\ desk[a].read = desk[a].shown
  BY DeskFacts DEF ApplyRecommended, Request
<1>2. /\ row \in Version /\ row.by = "apply" /\ row.over = activePolicy
      /\ row.decided = desk[a].shown /\ row.told = desk[a].read
  BY <1>1, DeskFacts, PoliciesAssumption DEF Version, Origins, Recommended, NewVersion
<1>3. AppendVersion(a, desk[a].shown, row)
  BY DEF ApplyRecommended
<1>4. activePolicy = desk[a].shown => WellReplaced(row, Len(policyVersions) + 1)
  BY <1>1, <1>2, DeskFacts DEF WellReplaced
<1>5. QED BY <1>2, <1>3, <1>4, AppendVersionKeeps

LEMMA AskRestoreKeeps ==
    ASSUME PoliciesInv, NEW a \in Managers, NEW version \in DOMAIN policyVersions,
           AskRestore(a, version)
    PROVE  PoliciesInv'
<1> DEFINE r == [desk[a] EXCEPT !.request = "restore", !.read = activePolicy, !.chosen = version]
<1>1. version \in Nat
  BY DEF PoliciesInv, PoliciesTypeOK
<1>2. /\ r \in Request /\ r.request = "restore" /\ r.read = activePolicy
      /\ r.shown = desk[a].shown /\ r.chosen = version
  BY <1>1, DeskFacts DEF Request
<1>3. activePolicy # 0 /\ activePolicy <= activePolicy
  BY DeskFacts DEF AskRestore, Request
<1>4. Notes(a, r)
  BY DEF AskRestore, Asks, Notes
<1>5. QED BY <1>2, <1>3, <1>4, DeskFacts, NoteKeeps

LEMMA RestoreKeeps ==
    ASSUME PoliciesInv, NEW a \in Managers, RestorePolicy(a) PROVE PoliciesInv'
<1> DEFINE old == policyVersions[desk[a].chosen]
           row == NewVersion(old.values, old.source, "restore", desk[a].shown, desk[a].read)
<1>1. /\ desk[a] \in Request /\ desk[a].shown \in Nat /\ desk[a].read \in Nat
      /\ desk[a].read # 0 /\ desk[a].chosen \in DOMAIN policyVersions
  BY DeskFacts DEF RestorePolicy, Request
<1>2. old \in Version
  BY <1>1 DEF PoliciesInv, PoliciesTypeOK
<1>3. /\ row \in Version /\ row.by = "restore" /\ row.over = activePolicy
      /\ row.told = desk[a].read
  BY <1>1, <1>2, DeskFacts DEF Version, Origins, NewVersion
<1>4. AppendVersion(a, desk[a].read, row)
  BY DEF RestorePolicy
<1>5. activePolicy = desk[a].read => WellReplaced(row, Len(policyVersions) + 1)
  BY <1>1, <1>3, DeskFacts DEF WellReplaced
<1>6. QED BY <1>3, <1>4, <1>5, AppendVersionKeeps

-----------------------------------------------------------------------------

LEMMA PoliciesInvInit == PoliciesInit => PoliciesInv
BY DEF PoliciesInit, PoliciesInv, PoliciesTypeOK, DesksCurrent, PoliciesReplaceWhatWasSeen,
       Request, AtRest

LEMMA PoliciesInvNext == PoliciesInv /\ [PoliciesNext]_policyVars => PoliciesInv'
<1> SUFFICES ASSUME PoliciesInv, [PoliciesNext]_policyVars PROVE PoliciesInv'
  OBVIOUS
<1>1. ASSUME NEW a \in Managers, ViewPolicy(a) PROVE PoliciesInv'
  BY <1>1, ViewKeeps
<1>2. ASSUME NEW a \in Managers, ActivateFirst(a) PROVE PoliciesInv'
  BY <1>2, FirstKeeps
<1>3. ASSUME NEW a \in Managers, NEW values \in PolicyValues, SavePolicy(a, values)
      PROVE  PoliciesInv'
  BY <1>3, SavePolicyKeeps
<1>4. ASSUME NEW a \in Managers, AskRecommended(a) PROVE PoliciesInv'
  BY <1>4, AskRecommendedKeeps
<1>5. ASSUME NEW a \in Managers, ApplyRecommended(a) PROVE PoliciesInv'
  BY <1>5, ApplyKeeps
<1>6. ASSUME NEW a \in Managers, NEW version \in DOMAIN policyVersions, AskRestore(a, version)
      PROVE  PoliciesInv'
  BY <1>6, AskRestoreKeeps
<1>7. ASSUME NEW a \in Managers, RestorePolicy(a) PROVE PoliciesInv'
  BY <1>7, RestoreKeeps
<1>8. CASE UNCHANGED policyVars
  BY <1>8 DEF policyVars, PoliciesInv, PoliciesTypeOK, DesksCurrent, PoliciesReplaceWhatWasSeen
<1>9. QED BY <1>1, <1>2, <1>3, <1>4, <1>5, <1>6, <1>7, <1>8 DEF PoliciesNext

\* However many managers save, apply and restore at once, what one of them replaces
\* is what it was shown or has read, and the first policy is appended once.
THEOREM PoliciesReplaceWhatWasSeenHolds == PoliciesSpec => []PoliciesReplaceWhatWasSeen
<1>1. PoliciesInv => PoliciesReplaceWhatWasSeen
  BY DEF PoliciesInv
<1>2. QED BY PoliciesInvInit, PoliciesInvNext, <1>1, PTL DEF PoliciesSpec

-----------------------------------------------------------------------------
(* The limiters. *)

LEMMA LeastExists ==
    ASSUME NEW T \in SUBSET Nat, T # {}
    PROVE  \E k \in T : \A l \in T : k <= l
<1> DEFINE R == OpToRel(<, Nat)
<1>1. IsWellFoundedOn(R, Nat)
  BY NatLessThanWellFounded
<1>2. \A x, y \in Nat : <<x, y>> \in R <=> x < y
  BY DEF OpToRel
<1> HIDE DEF R
<1>3. PICK x \in T : \A y \in T : <<y, x>> \notin R
  BY <1>1, WFMin
<1>4. ASSUME NEW y \in T PROVE x <= y
  <2>1. x \in Nat /\ y \in Nat
    OBVIOUS
  <2>2. ~(y < x)
    BY <1>2, <1>3, <2>1
  <2>3. QED BY <2>1, <2>2
<1>5. QED BY <1>4

LEMMA MaxIsGreatest ==
    ASSUME NEW n \in Nat, NEW T \in SUBSET (0..n), T # {}
    PROVE  Max(T) \in T /\ \A l \in T : l <= Max(T)
<1> DEFINE U == {n - x : x \in T}
<1>1. U \in SUBSET Nat /\ U # {}
  <2>1. \A x \in T : n - x \in Nat
    OBVIOUS
  <2>2. QED BY <2>1
<1> HIDE DEF U
<1>2. PICK u \in U : \A v \in U : u <= v
  BY <1>1, LeastExists
<1>3. PICK k \in T : u = n - k
  BY <1>2 DEF U
<1>4. ASSUME NEW l \in T PROVE l <= k
  <2>1. n - l \in U
    BY DEF U
  <2>2. u <= n - l
    BY <1>2, <2>1
  <2>3. QED BY <1>3, <2>2
<1>5. \A x, y \in T : x >= y <=> y <= x
  OBVIOUS
<1>6. \E x \in T : \A y \in T : x >= y
  BY <1>4, <1>5
<1>7. Max(T) \in T /\ \A y \in T : Max(T) >= y
  BY <1>6 DEF Max
<1>8. QED BY <1>5, <1>7

LEMMA MaxWithOne == ASSUME NEW w \in Int, w >= 1 PROVE Max({1, w}) = w
<1>1. \A y \in {1, w} : w >= y
  OBVIOUS
<1>2. \A x \in {1, w} : (\A y \in {1, w} : x >= y) => x = w
  OBVIOUS
<1>3. QED BY <1>1, <1>2 DEF Max

Limits == /\ Limit \in Nat /\ Limit >= 1
          /\ Window \in Nat /\ Window >= 1

LEMMA LimitsAre == Limits
BY LimitsAssumption DEF Limits

InOrder(log) == \A i, j \in DOMAIN log : i <= j => log[i] <= log[j]

UpTo(log, t) == \A i \in DOMAIN log : log[i] <= t

\* Filtering stamps in order drops the first ones.
LEMMA ActiveIs ==
    ASSUME NEW s \in Seq(Int), NEW t \in Int, InOrder(s)
    PROVE  \E e \in 0..Len(s) :
              /\ Active(s, t) \in Seq(Int) /\ Len(Active(s, t)) = Len(s) - e
              /\ \A i \in 1..(Len(s) - e) : Active(s, t)[i] = s[e + i]
              /\ \A i \in 1..e : s[i] <= t - Window
              /\ \A i \in (e + 1)..Len(s) : s[i] > t - Window
<1> DEFINE T == {0} \cup {i \in DOMAIN s : s[i] <= t - Window}
<1>1. Len(s) \in Nat /\ DOMAIN s = 1..Len(s) /\ \A i \in 1..Len(s) : s[i] \in Int
  OBVIOUS
<1>2. T \in SUBSET (0..Len(s)) /\ T # {}
  BY <1>1
<1> DEFINE e == Max(T)
<1>3. e \in T /\ \A l \in T : l <= e
  <2> HIDE DEF T
  <2>1. QED BY <1>1, <1>2, MaxIsGreatest
<1>4. Active(s, t) = SubSeq(s, e + 1, Len(s))
  BY DEF Active
<1> HIDE DEF e
<1>5. e \in 0..Len(s)
  BY <1>2, <1>3
<1>6. ASSUME NEW i \in 1..e PROVE s[i] <= t - Window
  <2>1. e \in DOMAIN s /\ s[e] <= t - Window /\ i \in DOMAIN s /\ i <= e
    BY <1>1, <1>3, <1>5
  <2>2. s[i] <= s[e]
    BY <2>1 DEF InOrder
  <2>3. s[i] \in Int /\ s[e] \in Int /\ t - Window \in Int
    BY <1>1, <2>1, LimitsAre DEF Limits
  <2>4. QED BY <2>1, <2>2, <2>3
<1>7. ASSUME NEW i \in (e + 1)..Len(s) PROVE s[i] > t - Window
  <2>1. i \in DOMAIN s /\ i \notin T /\ s[i] \in Int /\ t - Window \in Int
    BY <1>1, <1>3, <1>5, LimitsAre DEF Limits
  <2>2. ~(s[i] <= t - Window)
    BY <2>1
  <2>3. QED BY <2>1, <2>2
<1> HIDE DEF T
<1>8. /\ SubSeq(s, e + 1, Len(s)) \in Seq(Int) /\ Len(SubSeq(s, e + 1, Len(s))) = Len(s) - e
      /\ \A i \in 1..(Len(s) - e) : SubSeq(s, e + 1, Len(s))[i] = s[e + i]
  <2>1. e + 1 \in Int /\ Len(s) \in Int /\ \A i \in (e + 1)..Len(s) : s[i] \in Int
    BY <1>1, <1>5
  <2> DEFINE m == e + 1
             n == Len(s)
  <2>2. m \in Int /\ n \in Int /\ \A i \in m..n : s[i] \in Int
    BY <2>1
  <2> HIDE DEF m, n
  <2>3. /\ SubSeq(s, m, n) \in Seq(Int) /\ Len(SubSeq(s, m, n)) = IF m <= n THEN n - m + 1 ELSE 0
        /\ \A i \in 1..(n - m + 1) : SubSeq(s, m, n)[i] = s[m + i - 1]
    BY <2>2, SubSeqProperties
  <2> DEFINE sub == SubSeq(s, m, n)
  <2>4. sub \in Seq(Int) /\ Len(sub) = n - e
    <3>1. m = e + 1 /\ n \in Nat /\ e \in 0..n
      BY <1>1, <1>5 DEF m, n
    <3>2. sub \in Seq(Int) /\ Len(sub) = IF m <= n THEN n - m + 1 ELSE 0
      BY <2>3
    <3> HIDE DEF sub
    <3>3. QED BY <3>1, <3>2
  <2>5. ASSUME NEW i \in 1..(n - e) PROVE sub[i] = s[e + i]
    <3>1. i \in 1..(n - m + 1) /\ m + i - 1 = e + i
      BY <1>1, <1>5, <2>5 DEF m, n
    <3>2. QED BY <2>3, <3>1
  <2>6. QED BY <2>4, <2>5 DEF m, n
<1>9. QED BY <1>4, <1>5, <1>6, <1>7, <1>8

LEMMA LogGrows ==
    ASSUME NEW log \in Seq(Int), NEW t \in Int, UpTo(log, t), InOrder(log)
    PROVE  UpTo(Append(log, t), t) /\ InOrder(Append(log, t))
<1> DEFINE n == Len(log)
           new == Append(log, t)
<1>1. /\ n \in Nat /\ DOMAIN log = 1..n /\ DOMAIN new = 1..(n + 1) /\ new[n + 1] = t
      /\ \A i \in 1..n : new[i] = log[i] /\ log[i] \in Int /\ log[i] <= t
  BY DEF UpTo
<1> HIDE DEF new
<1>2. \A i \in 1..(n + 1) : new[i] <= t
  BY <1>1
<1>3. ASSUME NEW i \in 1..(n + 1), NEW j \in 1..(n + 1), i <= j PROVE new[i] <= new[j]
  <2>1. CASE j = n + 1
    BY <1>1, <1>2, <2>1
  <2>2. CASE j # n + 1
    <3>1. i \in DOMAIN log /\ j \in DOMAIN log
      BY <1>1, <1>3, <2>2
    <3>2. QED BY <1>1, <1>3, <3>1 DEF InOrder
  <2>3. QED BY <2>1, <2>2
<1>4. QED BY <1>1, <1>2, <1>3 DEF UpTo, InOrder, new

\* The next request keeps the bound if the one so many places before it is past.
LEMMA NextIsLater ==
    ASSUME NEW log \in Seq(Int), NEW t \in Int, NEW bound \in Nat, bound >= 1, AtMostPerWindow(log, bound),
           \A i \in DOMAIN log : i + bound = Len(log) + 1 => log[i] <= t - Window
    PROVE  AtMostPerWindow(Append(log, t), bound)
<1> DEFINE n == Len(log)
           new == Append(log, t)
<1>1. /\ n \in Nat /\ DOMAIN log = 1..n /\ DOMAIN new = 1..(n + 1) /\ new[n + 1] = t
      /\ \A i \in 1..n : new[i] = log[i] /\ log[i] \in Int
  OBVIOUS
<1> HIDE DEF new
<1>2. ASSUME NEW i \in 1..(n + 1), i + bound \in 1..(n + 1) PROVE new[i + bound] >= new[i] + Window
  <2>1. i \in 1..n /\ new[i] = log[i] /\ log[i] \in Int
    BY <1>1, <1>2
  <2>2. CASE i + bound = n + 1
    <3>1. log[i] <= t - Window
      BY <1>1, <2>1, <2>2
    <3>2. QED BY <1>1, <2>1, <2>2, <3>1, LimitsAre DEF Limits
  <2>3. CASE i + bound # n + 1
    <3>1. i + bound \in 1..n
      <4>1. n \in Nat /\ i + bound \in 1..(n + 1) /\ i + bound # n + 1
        BY <1>1, <1>2, <2>3
      <4> HIDE DEF n
      <4>2. QED BY <4>1
    <3>2. i + bound \in DOMAIN log /\ i \in DOMAIN log /\ new[i + bound] = log[i + bound]
      BY <1>1, <2>1, <3>1
    <3>3. QED BY <2>1, <3>2 DEF AtMostPerWindow
  <2>4. QED BY <2>2, <2>3
<1>3. QED BY <1>1, <1>2 DEF AtMostPerWindow, new

-----------------------------------------------------------------------------
(* The sliding limiter: its stamps are the end of the log, and what it dropped is past. *)

Remembered(s, log) ==
    /\ Len(s) <= Len(log)
    /\ \A i \in 1..Len(s) : s[i] = log[(Len(log) - Len(s)) + i]

Forgotten(t, s, log) == \A i \in 1..(Len(log) - Len(s)) : log[i] <= t - Window

\* Nobody was admitted since the refusal, and the limiter is as full as it was.
StillFull(t, s, ref) ==
    /\ Len(s) = Limit /\ ref.at <= t
    /\ \A i \in 1..Len(s) : s[i] > ref.at - Window
    /\ ref.at + ref.wait >= s[1] + Window

Since(log, ref) == \E i \in DOMAIN log : log[i] > ref.at

SlidingOK(t, s, log, ref) ==
    /\ t \in Int /\ s \in Seq(Int) /\ log \in Seq(Int) /\ ref.at \in Int /\ ref.wait \in Int
    /\ UpTo(log, t) /\ InOrder(log)
    /\ Len(s) <= Limit /\ Remembered(s, log) /\ Forgotten(t, s, log)
    /\ AtMostPerWindow(log, Limit)
    /\ ref.wait > 0 => Since(log, ref) \/ StillFull(t, s, ref)

LEMMA StampsInOrder ==
    ASSUME NEW t, NEW s, NEW log, NEW ref, SlidingOK(t, s, log, ref)
    PROVE  InOrder(s)
<1>1. s \in Seq(Int) /\ log \in Seq(Int) /\ Remembered(s, log) /\ InOrder(log)
  BY DEF SlidingOK
<1>2. Len(s) \in Nat /\ Len(log) \in Nat /\ DOMAIN s = 1..Len(s) /\ DOMAIN log = 1..Len(log)
  BY <1>1
<1>3. ASSUME NEW i \in 1..Len(s), NEW j \in 1..Len(s), i <= j PROVE s[i] <= s[j]
  <2> DEFINE out == Len(log) - Len(s)
  <2>1. out + i \in DOMAIN log /\ out + j \in DOMAIN log /\ out + i <= out + j
    BY <1>1, <1>2, <1>3 DEF Remembered
  <2>2. log[out + i] <= log[out + j]
    BY <1>1, <2>1 DEF InOrder
  <2>3. QED BY <1>1, <2>2 DEF Remembered
<1>4. QED BY <1>2, <1>3 DEF InOrder

\* What filtering leaves is remembered, and what it drops is past.
LEMMA FilterKeeps ==
    ASSUME NEW t, NEW s, NEW log, NEW ref, SlidingOK(t, s, log, ref)
    PROVE  LET a == Active(s, t) IN
           /\ a \in Seq(Int) /\ Len(a) <= Len(s) /\ Remembered(a, log) /\ Forgotten(t, a, log)
           /\ \A i \in 1..Len(a) : a[i] > t - Window
           /\ (\A i \in 1..Len(s) : s[i] > t - Window) => Len(a) = Len(s)
<1>1. t \in Int /\ s \in Seq(Int) /\ log \in Seq(Int) /\ Remembered(s, log) /\ Forgotten(t, s, log)
  BY DEF SlidingOK
<1> DEFINE a == Active(s, t)
<1>2. PICK e \in 0..Len(s) :
              /\ a \in Seq(Int) /\ Len(a) = Len(s) - e
              /\ \A i \in 1..(Len(s) - e) : a[i] = s[e + i]
              /\ \A i \in 1..e : s[i] <= t - Window
              /\ \A i \in (e + 1)..Len(s) : s[i] > t - Window
  BY <1>1, StampsInOrder, ActiveIs
<1> HIDE DEF a
<1>3. Len(s) \in Nat /\ Len(log) \in Nat /\ Len(s) <= Len(log) /\ e \in Int
  BY <1>1 DEF Remembered
<1> DEFINE out == Len(log) - Len(s)
<1>4. out \in Nat /\ Len(log) - Len(a) = out + e /\ Len(a) <= Len(s)
  BY <1>2, <1>3
<1>5. Remembered(a, log)
  <2>1. ASSUME NEW i \in 1..Len(a) PROVE a[i] = log[(Len(log) - Len(a)) + i]
    <3>1. a[i] = s[e + i] /\ e + i \in 1..Len(s)
      BY <1>2, <1>3, <2>1
    <3>2. s[e + i] = log[out + (e + i)]
      BY <1>1, <3>1 DEF Remembered
    <3>3. out + (e + i) = (Len(log) - Len(a)) + i
      BY <1>3, <1>4, <2>1
    <3>4. QED BY <3>1, <3>2, <3>3
  <2>2. QED BY <1>2, <1>3, <1>4, <2>1 DEF Remembered
<1>6. Forgotten(t, a, log)
  <2>1. ASSUME NEW i \in 1..(Len(log) - Len(a)) PROVE log[i] <= t - Window
    <3>1. CASE i <= out
      BY <1>1, <1>4, <2>1, <3>1 DEF Forgotten
    <3>2. CASE i > out
      <4>1. i - out \in 1..e /\ i - out \in 1..Len(s)
        BY <1>3, <1>4, <2>1, <3>2
      <4>2. s[i - out] = log[out + (i - out)] /\ s[i - out] <= t - Window
        BY <1>1, <1>2, <4>1 DEF Remembered
      <4>3. out + (i - out) = i
        BY <1>4, <2>1
      <4>4. QED BY <4>2, <4>3
    <3>3. QED BY <1>4, <2>1, <3>1, <3>2
  <2>2. QED BY <2>1 DEF Forgotten
<1>7. \A i \in 1..Len(a) : a[i] > t - Window
  <2>1. ASSUME NEW i \in 1..Len(a) PROVE a[i] > t - Window
    <3>1. a[i] = s[e + i] /\ e + i \in (e + 1)..Len(s)
      BY <1>2, <1>3, <2>1
    <3>2. QED BY <1>2, <3>1
  <2>2. QED BY <2>1
<1>8. ASSUME \A i \in 1..Len(s) : s[i] > t - Window PROVE Len(a) = Len(s)
  <2>1. e = 0
    <3>1. SUFFICES ASSUME e # 0 PROVE FALSE
      OBVIOUS
    <3>2. 1 \in 1..e /\ 1 \in 1..Len(s)
      BY <1>2, <1>3, <3>1
    <3>3. s[1] <= t - Window /\ s[1] > t - Window
      BY <1>2, <1>8, <3>2
    <3>4. s[1] \in Int /\ t - Window \in Int
      BY <1>1, <3>2, LimitsAre DEF Limits
    <3>5. QED BY <3>3, <3>4
  <2>2. QED BY <1>2, <1>3, <2>1
<1>9. QED BY <1>2, <1>4, <1>5, <1>6, <1>7, <1>8 DEF a

LEMMA SlidingAdmits ==
    ASSUME NEW t, NEW s, NEW log, NEW ref, SlidingOK(t, s, log, ref), Len(Active(s, t)) < Limit
    PROVE  SlidingOK(t, Append(Active(s, t), t), Append(log, t), ref)
<1> DEFINE a == Active(s, t)
           S == Append(a, t)
           L == Append(log, t)
<1>1. /\ t \in Int /\ s \in Seq(Int) /\ log \in Seq(Int) /\ UpTo(log, t) /\ InOrder(log)
      /\ AtMostPerWindow(log, Limit) /\ ref.at \in Int /\ ref.wait \in Int /\ Len(s) <= Limit
      /\ ref.wait > 0 => Since(log, ref) \/ StillFull(t, s, ref)
  BY DEF SlidingOK
<1>2. /\ a \in Seq(Int) /\ Len(a) <= Len(s) /\ Remembered(a, log) /\ Forgotten(t, a, log)
      /\ (\A i \in 1..Len(s) : s[i] > t - Window) => Len(a) = Len(s)
  BY FilterKeeps
<1>3. Len(a) < Limit
  OBVIOUS
<1> HIDE DEF a
<1>4. /\ Len(a) \in Nat /\ Len(log) \in Nat /\ Len(a) <= Len(log) /\ DOMAIN log = 1..Len(log)
      /\ Limit \in Nat /\ Limit >= 1 /\ Window \in Nat
  BY <1>1, <1>2, LimitsAre DEF Remembered, Limits
<1>5. /\ S \in Seq(Int) /\ Len(S) = Len(a) + 1 /\ S[Len(a) + 1] = t /\ \A i \in 1..Len(a) : S[i] = a[i]
      /\ L \in Seq(Int) /\ Len(L) = Len(log) + 1 /\ L[Len(log) + 1] = t /\ \A i \in 1..Len(log) : L[i] = log[i]
      /\ DOMAIN L = 1..(Len(log) + 1)
  BY <1>1, <1>2
<1> HIDE DEF S
<1>6. UpTo(L, t) /\ InOrder(L)
  BY <1>1, LogGrows
<1>7. AtMostPerWindow(L, Limit)
  <2>1. ASSUME NEW i \in DOMAIN log, i + Limit = Len(log) + 1 PROVE log[i] <= t - Window
    <3>1. i \in 1..(Len(log) - Len(a))
      BY <1>3, <1>4, <2>1
    <3>2. QED BY <1>2, <3>1 DEF Forgotten
  <2>2. QED BY <1>1, <1>4, <2>1, NextIsLater
<1> HIDE DEF L
<1>8. Remembered(S, L)
  <2>1. ASSUME NEW i \in 1..Len(S) PROVE S[i] = L[(Len(L) - Len(S)) + i]
    <3>1. CASE i = Len(a) + 1
      <4>1. (Len(L) - Len(S)) + i = Len(log) + 1
        BY <1>4, <1>5, <3>1
      <4>2. QED BY <1>5, <3>1, <4>1
    <3>2. CASE i # Len(a) + 1
      <4>1. /\ i \in 1..Len(a) /\ (Len(L) - Len(S)) + i = (Len(log) - Len(a)) + i
            /\ (Len(log) - Len(a)) + i \in 1..Len(log)
        BY <1>4, <1>5, <2>1, <3>2
      <4>2. a[i] = log[(Len(log) - Len(a)) + i]
        BY <1>2, <4>1 DEF Remembered
      <4>3. QED BY <1>5, <4>1, <4>2
    <3>3. QED BY <3>1, <3>2
  <2>2. Len(S) <= Len(L)
    BY <1>4, <1>5
  <2>3. QED BY <2>1, <2>2 DEF Remembered
<1>9. Forgotten(t, S, L)
  <2>1. Len(L) - Len(S) = Len(log) - Len(a)
    BY <1>4, <1>5
  <2>2. ASSUME NEW i \in 1..(Len(log) - Len(a)) PROVE L[i] <= t - Window
    <3>1. i \in 1..Len(log)
      BY <1>4, <2>2
    <3>2. QED BY <1>2, <1>5, <3>1 DEF Forgotten
  <2>3. QED BY <2>1, <2>2 DEF Forgotten
<1>10. ASSUME ref.wait > 0 PROVE Since(L, ref)
  <2>1. CASE Since(log, ref)
    <3>1. PICK i \in DOMAIN log : log[i] > ref.at
      BY <2>1 DEF Since
    <3>2. i \in DOMAIN L /\ L[i] = log[i]
      BY <1>4, <1>5, <3>1
    <3>3. QED BY <3>1, <3>2 DEF Since
  <2>2. CASE StillFull(t, s, ref)
    <3>1. ref.at # t
      BY <1>2, <1>3, <2>2 DEF StillFull
    <3>2. t > ref.at
      BY <1>1, <2>2, <3>1 DEF StillFull
    <3>3. Len(log) + 1 \in DOMAIN L
      BY <1>4, <1>5
    <3>4. QED BY <1>5, <3>2, <3>3 DEF Since
  <2>3. QED BY <1>1, <1>10, <2>1, <2>2
<1>11. Len(S) <= Limit
  BY <1>3, <1>4, <1>5
<1>12. QED BY <1>1, <1>5, <1>6, <1>7, <1>8, <1>9, <1>10, <1>11 DEF SlidingOK, S, L, a

LEMMA SlidingRefuses ==
    ASSUME NEW t, NEW s, NEW log, NEW ref, SlidingOK(t, s, log, ref), Len(Active(s, t)) >= Limit
    PROVE  SlidingOK(t, Active(s, t), log,
                     [at |-> t, wait |-> Max({1, (Active(s, t)[1] + Window) - t})])
<1> DEFINE a == Active(s, t)
           r == [at |-> t, wait |-> Max({1, (a[1] + Window) - t})]
<1>1. /\ t \in Int /\ s \in Seq(Int) /\ log \in Seq(Int) /\ UpTo(log, t) /\ InOrder(log)
      /\ AtMostPerWindow(log, Limit) /\ Len(s) <= Limit
  BY DEF SlidingOK
<1>2. /\ a \in Seq(Int) /\ Len(a) <= Len(s) /\ Remembered(a, log) /\ Forgotten(t, a, log)
      /\ \A i \in 1..Len(a) : a[i] > t - Window
  BY FilterKeeps
<1>3. Len(a) >= Limit
  OBVIOUS
<1> HIDE DEF a
<1>4. Limit \in Nat /\ Limit >= 1 /\ Window \in Nat /\ Len(a) \in Nat /\ Len(s) \in Nat
  BY <1>1, <1>2, LimitsAre DEF Limits
<1>5. Len(a) = Limit /\ 1 \in 1..Len(a) /\ a[1] \in Int
  BY <1>1, <1>2, <1>3, <1>4
<1>6. (a[1] + Window) - t \in Int /\ (a[1] + Window) - t >= 1
  BY <1>1, <1>2, <1>4, <1>5
<1>7. r.at = t /\ r.wait = (a[1] + Window) - t
  BY <1>6, MaxWithOne
<1> HIDE DEF r
<1>8. StillFull(t, a, r)
  BY <1>1, <1>2, <1>4, <1>5, <1>6, <1>7 DEF StillFull
<1>9. QED BY <1>1, <1>2, <1>4, <1>5, <1>6, <1>7, <1>8 DEF SlidingOK, r, a

LEMMA SlidingTicks ==
    ASSUME NEW t, NEW s, NEW log, NEW ref, SlidingOK(t, s, log, ref)
    PROVE  SlidingOK(t + 1, s, log, ref)
<1>1. /\ t \in Int /\ s \in Seq(Int) /\ log \in Seq(Int) /\ ref.at \in Int /\ Window \in Nat
      /\ Len(s) \in Nat /\ Len(log) \in Nat /\ DOMAIN log = 1..Len(log) /\ \A i \in 1..Len(log) : log[i] \in Int
  BY LimitsAre DEF SlidingOK, Limits
<1>2. UpTo(log, t + 1)
  BY <1>1 DEF SlidingOK, UpTo
<1>3. Forgotten(t + 1, s, log)
  <2>1. ASSUME NEW i \in 1..(Len(log) - Len(s)) PROVE log[i] <= (t + 1) - Window
    <3>1. log[i] <= t - Window /\ i \in 1..Len(log)
      BY <1>1 DEF SlidingOK, Forgotten
    <3>2. QED BY <1>1, <3>1
  <2>2. QED BY <2>1 DEF Forgotten
<1>4. StillFull(t, s, ref) => StillFull(t + 1, s, ref)
  BY <1>1 DEF StillFull
<1>5. QED BY <1>1, <1>2, <1>3, <1>4 DEF SlidingOK

LEMMA SlidingFindsRoom ==
    ASSUME NEW t, NEW s, NEW log, NEW ref, SlidingOK(t, s, log, ref), ref.wait > 0, ~Since(log, ref)
    PROVE  Len(Active(s, ref.at + ref.wait)) < Limit
<1> DEFINE again == ref.at + ref.wait
<1>1. /\ s \in Seq(Int) /\ StillFull(t, s, ref) /\ ref.at \in Int /\ ref.wait \in Int
      /\ Limit \in Nat /\ Limit >= 1 /\ Window \in Nat
  BY LimitsAre DEF SlidingOK, Limits
<1>2. again \in Int /\ Len(s) = Limit /\ again >= s[1] + Window /\ 1 \in 1..Len(s) /\ s[1] \in Int
  BY <1>1 DEF StillFull
<1> HIDE DEF again
<1>3. PICK e \in 0..Len(s) :
          /\ Len(Active(s, again)) = Len(s) - e
          /\ \A i \in (e + 1)..Len(s) : s[i] > again - Window
  BY <1>1, <1>2, StampsInOrder, ActiveIs
<1>4. e # 0
  <2>1. SUFFICES ASSUME e = 0 PROVE FALSE
    OBVIOUS
  <2>2. 1 \in (e + 1)..Len(s)
    BY <1>1, <1>2, <2>1
  <2>3. QED BY <1>1, <1>2, <1>3, <2>2
<1>5. QED BY <1>1, <1>2, <1>3, <1>4 DEF again

-----------------------------------------------------------------------------
(* The fixed limiter: what it admitted before its window came before it, and all *)
(* but as many as one window admits came a window before.                        *)

Used(w) == IF w.count <= Limit THEN w.count ELSE Limit

FixedOK(t, w, log, ref) ==
    /\ t \in Int /\ w = [start |-> w.start, count |-> w.count] /\ w.start \in Int /\ w.count \in Nat
    /\ log \in Seq(Int) /\ ref.at \in Int /\ ref.wait \in Int
    /\ w.start <= t /\ ref.at <= t
    /\ \A i \in DOMAIN log :
          /\ log[i] < w.start + Window
          /\ i <= Len(log) - Used(w) => log[i] < w.start
          /\ i <= (Len(log) - Used(w)) - Limit => log[i] <= w.start - Window
    /\ AtMostPerWindow(log, 2 * Limit)
    /\ ref.wait > 0 =>
          \/ Since(log, ref)
          \/ w.count > Limit /\ ref.at < w.start + Window /\ ref.at + ref.wait >= w.start + Window

LEMMA FixedLog ==
    ASSUME NEW t, NEW w, NEW log, NEW ref, FixedOK(t, w, log, ref)
    PROVE  LET L == Append(log, t) IN
           /\ Len(log) \in Nat /\ DOMAIN log = 1..Len(log) /\ \A i \in 1..Len(log) : log[i] \in Int
           /\ L \in Seq(Int) /\ Len(L) = Len(log) + 1 /\ DOMAIN L = 1..(Len(log) + 1)
           /\ L[Len(log) + 1] = t /\ \A i \in 1..Len(log) : L[i] = log[i]
           /\ Since(log, ref) => Since(L, ref)
           /\ t > ref.at => Since(L, ref)
<1>1. log \in Seq(Int) /\ t \in Int
  BY DEF FixedOK
<1> DEFINE L == Append(log, t)
<1>2. /\ Len(log) \in Nat /\ DOMAIN log = 1..Len(log) /\ \A i \in 1..Len(log) : log[i] \in Int
      /\ L \in Seq(Int) /\ Len(L) = Len(log) + 1 /\ DOMAIN L = 1..(Len(log) + 1)
      /\ L[Len(log) + 1] = t /\ \A i \in 1..Len(log) : L[i] = log[i]
  BY <1>1
<1> HIDE DEF L
<1>3. Len(log) + 1 \in DOMAIN L /\ \A i \in DOMAIN log : i \in DOMAIN L
  BY <1>2
<1>4. (Since(log, ref) => Since(L, ref)) /\ (t > ref.at => Since(L, ref))
  BY <1>2, <1>3 DEF Since
<1>5. QED BY <1>2, <1>4 DEF L

LEMMA TwiceIsEnough ==
    ASSUME NEW n \in Nat, NEW i \in 1..n, NEW count \in Nat, i + 2 * Limit = n + 1, count + 1 <= Limit
    PROVE  i <= (n - count) - Limit
<1>1. Limit \in Nat
  BY LimitsAre DEF Limits
<1>2. 2 * Limit = Limit + Limit
  BY <1>1
<1>3. QED BY <1>1, <1>2

LEMMA SameLead == ASSUME NEW n \in Int, NEW count \in Int PROVE (n + 1) - (count + 1) = n - count
OBVIOUS

LEMMA FixedCounts ==
    ASSUME NEW t, NEW w, NEW log, NEW ref, FixedOK(t, w, log, ref), ~(w.start <= t - Window),
           w.count + 1 <= Limit
    PROVE  FixedOK(t, [start |-> w.start, count |-> w.count + 1], Append(log, t), ref)
<1> DEFINE L == Append(log, t)
           v == [start |-> w.start, count |-> w.count + 1]
           n == Len(log)
<1>1. /\ t \in Int /\ w.start \in Int /\ w.count \in Nat /\ log \in Seq(Int) /\ ref.at \in Int /\ ref.wait \in Int
      /\ w.start <= t /\ ref.at <= t /\ AtMostPerWindow(log, 2 * Limit)
      /\ Limit \in Nat /\ Limit >= 1 /\ Window \in Nat /\ Window >= 1
      /\ ref.wait > 0 => Since(log, ref) \/ w.count > Limit
  BY LimitsAre DEF FixedOK, Limits
<1>2. /\ n \in Nat /\ DOMAIN log = 1..n /\ \A i \in 1..n : log[i] \in Int
      /\ L \in Seq(Int) /\ Len(L) = n + 1 /\ DOMAIN L = 1..(n + 1)
      /\ L[n + 1] = t /\ \A i \in 1..n : L[i] = log[i]
      /\ Since(log, ref) => Since(L, ref)
  BY FixedLog
<1>3. v.start = w.start /\ v.count = w.count + 1 /\ v = [start |-> v.start, count |-> v.count] /\ v.count \in Nat
      /\ Used(w) = w.count /\ Used(v) = w.count + 1
  BY <1>1 DEF Used
<1>4. \A i \in 1..n : /\ log[i] < w.start + Window
                      /\ i <= n - w.count => log[i] < w.start
                      /\ i <= (n - w.count) - Limit => log[i] <= w.start - Window
  BY <1>2, <1>3 DEF FixedOK
<1>5. AtMostPerWindow(L, 2 * Limit)
  <2>1. ASSUME NEW i \in DOMAIN log, i + 2 * Limit = n + 1 PROVE log[i] <= t - Window
    <3>1. i \in 1..n /\ i + 2 * Limit = n + 1
      BY <1>2, <2>1
    <3>2. log[i] <= w.start - Window
      <4>1. i <= (n - w.count) - Limit
        BY <1>1, <1>2, <3>1, TwiceIsEnough
      <4>2. QED BY <1>4, <3>1, <4>1
    <3>3. QED BY <1>1, <1>2, <3>1, <3>2
  <2>2. 2 * Limit \in Nat /\ 2 * Limit >= 1
    BY <1>1
  <2>3. QED BY <1>1, <2>1, <2>2, NextIsLater
<1> HIDE DEF L, v
<1>6. ASSUME NEW i \in DOMAIN L
      PROVE  /\ L[i] < v.start + Window
             /\ i <= Len(L) - Used(v) => L[i] < v.start
             /\ i <= (Len(L) - Used(v)) - Limit => L[i] <= v.start - Window
  <2>1. CASE i = n + 1
    <3>1. L[i] = t /\ t < w.start + Window
      BY <1>1, <1>2, <2>1
    <3>2. ~(i <= Len(L) - Used(v)) /\ ~(i <= (Len(L) - Used(v)) - Limit)
      BY <1>1, <1>2, <1>3, <2>1, SMTT(30)
    <3>3. QED BY <1>3, <3>1, <3>2
  <2>2. CASE i # n + 1
    <3>1. i \in 1..n
      BY <1>2, <1>6, <2>2
    <3>2. L[i] = log[i] /\ Len(L) - Used(v) = n - w.count
      <4>1. n \in Int /\ w.count \in Int
        BY <1>1, <1>2
      <4>2. (n + 1) - (w.count + 1) = n - w.count
        BY <4>1, SameLead
      <4>3. QED BY <1>2, <1>3, <3>1, <4>2
    <3>3. QED BY <1>3, <1>4, <3>1, <3>2
  <2>3. QED BY <2>1, <2>2
<1>7. ref.wait > 0 => Since(L, ref)
  BY <1>1, <1>2
<1>8. QED BY <1>1, <1>2, <1>3, <1>5, <1>6, <1>7 DEF FixedOK, L, v

LEMMA FixedRefuses ==
    ASSUME NEW t, NEW w, NEW log, NEW ref, FixedOK(t, w, log, ref), ~(w.start <= t - Window),
           ~(w.count + 1 <= Limit)
    PROVE  FixedOK(t, [start |-> w.start, count |-> w.count + 1], log,
                   [at |-> t, wait |-> Max({1, (w.start + Window) - t})])
<1> DEFINE v == [start |-> w.start, count |-> w.count + 1]
           r == [at |-> t, wait |-> Max({1, (w.start + Window) - t})]
<1>1. /\ t \in Int /\ w.start \in Int /\ w.count \in Nat /\ log \in Seq(Int) /\ w.start <= t
      /\ Limit \in Nat /\ Limit >= 1 /\ Window \in Nat /\ AtMostPerWindow(log, 2 * Limit)
  BY LimitsAre DEF FixedOK, Limits
<1>2. (w.start + Window) - t \in Int /\ (w.start + Window) - t >= 1
  BY <1>1
<1>3. r.at = t /\ r.wait = (w.start + Window) - t
  BY <1>2, MaxWithOne
<1>4. v.start = w.start /\ v.count = w.count + 1 /\ v = [start |-> v.start, count |-> v.count] /\ v.count \in Nat
      /\ Used(w) = Limit /\ Used(v) = Limit
  BY <1>1 DEF Used
<1> HIDE DEF v, r
<1>5. \A i \in DOMAIN log :
          /\ log[i] < v.start + Window
          /\ i <= Len(log) - Used(v) => log[i] < v.start
          /\ i <= (Len(log) - Used(v)) - Limit => log[i] <= v.start - Window
  BY <1>4 DEF FixedOK
<1>6. v.count > Limit /\ r.at < v.start + Window /\ r.at + r.wait >= v.start + Window
  BY <1>1, <1>3, <1>4, SMTT(30)
<1>7. QED BY <1>1, <1>2, <1>3, <1>4, <1>5, <1>6 DEF FixedOK, v, r

LEMMA FixedRolls ==
    ASSUME NEW t, NEW w, NEW log, NEW ref, FixedOK(t, w, log, ref), w.start <= t - Window
    PROVE  FixedOK(t, [start |-> t, count |-> 1], Append(log, t), ref)
<1> DEFINE L == Append(log, t)
           v == [start |-> t, count |-> 1]
           n == Len(log)
<1>1. /\ t \in Int /\ w.start \in Int /\ w.count \in Nat /\ log \in Seq(Int) /\ ref.at \in Int /\ ref.wait \in Int
      /\ ref.at <= t /\ AtMostPerWindow(log, 2 * Limit)
      /\ Limit \in Nat /\ Limit >= 1 /\ Window \in Nat /\ Window >= 1
      /\ ref.wait > 0 => Since(log, ref) \/ ref.at < w.start + Window
  BY LimitsAre DEF FixedOK, Limits
<1>2. /\ n \in Nat /\ DOMAIN log = 1..n /\ \A i \in 1..n : log[i] \in Int
      /\ L \in Seq(Int) /\ Len(L) = n + 1 /\ DOMAIN L = 1..(n + 1)
      /\ L[n + 1] = t /\ \A i \in 1..n : L[i] = log[i]
      /\ Since(log, ref) => Since(L, ref)
      /\ t > ref.at => Since(L, ref)
  BY FixedLog
<1>3. v.start = t /\ v.count = 1 /\ v = [start |-> v.start, count |-> v.count] /\ v.count \in Nat /\ Used(v) = 1
  BY <1>1 DEF Used
<1>4. Used(w) \in Nat /\ Used(w) <= Limit
  BY <1>1 DEF Used
<1>5. \A i \in 1..n : /\ log[i] < w.start + Window
                      /\ i <= n - Used(w) => log[i] < w.start
  BY <1>2 DEF FixedOK
<1>6. \A i \in 1..n : log[i] < t /\ (i <= n - Limit => log[i] <= t - Window)
  <2>1. ASSUME NEW i \in 1..n PROVE log[i] < t /\ (i <= n - Limit => log[i] <= t - Window)
    <3>1. log[i] < w.start + Window /\ (i <= n - Used(w) => log[i] < w.start) /\ log[i] \in Int
      BY <1>2, <1>5
    <3>2. i <= n - Limit => i <= n - Used(w)
      BY <1>1, <1>2, <1>4
    <3>3. QED BY <1>1, <3>1, <3>2
  <2>2. QED BY <2>1
<1>7. AtMostPerWindow(L, 2 * Limit)
  <2>1. ASSUME NEW i \in DOMAIN log, i + 2 * Limit = n + 1 PROVE log[i] <= t - Window
    <3>1. i \in 1..n /\ i <= n - Limit
      <4>1. i \in 1..n /\ 2 * Limit = Limit + Limit
        BY <1>1, <1>2, <2>1
      <4>2. QED BY <1>1, <1>2, <2>1, <4>1
    <3>2. QED BY <1>6, <3>1
  <2>2. 2 * Limit \in Nat /\ 2 * Limit >= 1
    BY <1>1
  <2>3. QED BY <1>1, <2>1, <2>2, NextIsLater
<1> HIDE DEF L, v
<1>8. ASSUME NEW i \in DOMAIN L
      PROVE  /\ L[i] < v.start + Window
             /\ i <= Len(L) - Used(v) => L[i] < v.start
             /\ i <= (Len(L) - Used(v)) - Limit => L[i] <= v.start - Window
  <2>1. CASE i = n + 1
    <3>1. L[i] = t /\ t < t + Window
      BY <1>1, <1>2, <2>1
    <3>2. ~(i <= Len(L) - Used(v)) /\ ~(i <= (Len(L) - Used(v)) - Limit)
      BY <1>1, <1>2, <1>3, <2>1, SMTT(30)
    <3>3. QED BY <1>3, <3>1, <3>2
  <2>2. CASE i # n + 1
    <3>1. i \in 1..n
      BY <1>2, <1>8, <2>2
    <3>2. L[i] = log[i] /\ log[i] \in Int /\ Len(L) - Used(v) = n
      BY <1>2, <1>3, <3>1
    <3>3. log[i] < t /\ (i <= n - Limit => log[i] <= t - Window)
      BY <1>6, <3>1
    <3>4. log[i] < t + Window
      BY <1>1, <3>2, <3>3
    <3>5. QED BY <1>3, <3>2, <3>3, <3>4
  <2>3. QED BY <2>1, <2>2
<1>9. ref.wait > 0 => Since(L, ref)
  <2>1. ref.at < w.start + Window => t > ref.at
    BY <1>1
  <2>2. QED BY <1>1, <1>2, <2>1
<1>10. v.start \in Int /\ v.start <= t
  BY <1>1, <1>3
<1>11. FixedOK(t, v, L, ref)
  BY <1>1, <1>2, <1>3, <1>7, <1>8, <1>9, <1>10 DEF FixedOK
<1>12. QED BY <1>11 DEF L, v

LEMMA FixedTicks ==
    ASSUME NEW t, NEW w, NEW log, NEW ref, FixedOK(t, w, log, ref)
    PROVE  FixedOK(t + 1, w, log, ref)
BY DEF FixedOK

LEMMA FixedFindsRoom ==
    ASSUME NEW t, NEW w, NEW log, NEW ref, FixedOK(t, w, log, ref), ref.wait > 0, ~Since(log, ref)
    PROVE  Counted(w, ref.at + ref.wait).count <= Limit
<1>1. /\ w.start \in Int /\ ref.at \in Int /\ ref.wait \in Int /\ Window \in Nat /\ Limit \in Nat /\ Limit >= 1
      /\ ref.at + ref.wait >= w.start + Window
  BY LimitsAre DEF FixedOK, Limits
<1>2. w.start <= (ref.at + ref.wait) - Window
  BY <1>1
<1>3. Counted(w, ref.at + ref.wait) = [start |-> ref.at + ref.wait, count |-> 1]
  BY <1>2 DEF Counted
<1>4. QED BY <1>1, <1>3

-----------------------------------------------------------------------------
(* Both together. *)

IsHistory(f) == f = [k \in {"sliding", "fixed"} |-> f[k]]

LimitsInv ==
    /\ IsHistory(admitted) /\ IsHistory(refused)
    /\ SlidingOK(now, timestamps, admitted["sliding"], refused["sliding"])
    /\ FixedOK(now, window, admitted["fixed"], refused["fixed"])

LEMMA LimitsInvInit == LimitsInit => LimitsInv
<1> SUFFICES ASSUME LimitsInit PROVE LimitsInv
  OBVIOUS
<1>1. now = Window /\ timestamps = <<>> /\ window = [start |-> 0, count |-> 0]
  BY DEF LimitsInit
<1>2. /\ IsHistory(admitted) /\ IsHistory(refused)
      /\ admitted["sliding"] = <<>> /\ admitted["fixed"] = <<>>
      /\ refused["sliding"] = [at |-> 0, wait |-> 0] /\ refused["fixed"] = [at |-> 0, wait |-> 0]
  BY DEF LimitsInit, IsHistory
<1>3. Limit \in Nat /\ Window \in Nat
  BY LimitsAre DEF Limits
<1> DEFINE none == <<>>
           ref == [at |-> 0, wait |-> 0]
           w == [start |-> 0, count |-> 0]
<1>4. /\ none \in Seq(Int) /\ Len(none) = 0 /\ DOMAIN none = {} /\ ref.at = 0 /\ ref.wait = 0
      /\ w.start = 0 /\ w.count = 0 /\ w = [start |-> w.start, count |-> w.count]
  OBVIOUS
<1> HIDE DEF none, ref, w
<1>5. SlidingOK(Window, none, none, ref)
  BY <1>3, <1>4 DEF SlidingOK, UpTo, InOrder, Remembered, Forgotten, AtMostPerWindow
<1>6. FixedOK(Window, w, none, ref)
  BY <1>3, <1>4 DEF FixedOK, AtMostPerWindow
<1>7. QED BY <1>1, <1>2, <1>5, <1>6 DEF LimitsInv, none, ref, w

LEMMA AdmitIs ==
    ASSUME IsHistory(admitted), IsHistory(refused), NEW k \in {"sliding", "fixed"}, NEW other \in {"sliding", "fixed"},
           k # other, Admit(k)
    PROVE  /\ IsHistory(admitted') /\ refused' = refused
           /\ admitted'[k] = Append(admitted[k], now) /\ admitted'[other] = admitted[other]
BY DEF Admit, IsHistory

LEMMA RefuseIs ==
    ASSUME IsHistory(admitted), IsHistory(refused), NEW k \in {"sliding", "fixed"}, NEW other \in {"sliding", "fixed"},
           k # other, NEW wait, Refuse(k, wait)
    PROVE  /\ IsHistory(refused') /\ admitted' = admitted
           /\ refused'[k] = [at |-> now, wait |-> Max({1, wait})] /\ refused'[other] = refused[other]
BY DEF Refuse, IsHistory

LEMMA TakeSlidingKeeps == ASSUME LimitsInv, TakeSliding PROVE LimitsInv'
<1>1. /\ IsHistory(admitted) /\ IsHistory(refused) /\ UNCHANGED <<now, window>>
      /\ SlidingOK(now, timestamps, admitted["sliding"], refused["sliding"])
      /\ FixedOK(now, window, admitted["fixed"], refused["fixed"])
  BY DEF LimitsInv, TakeSliding
<1>2. CASE Len(Active(timestamps, now)) >= Limit
  <2>1. timestamps' = Active(timestamps, now) /\ Refuse("sliding", (Active(timestamps, now)[1] + Window) - now)
    BY <1>2 DEF TakeSliding
  <2>2. /\ IsHistory(refused') /\ admitted' = admitted /\ refused'["fixed"] = refused["fixed"]
        /\ refused'["sliding"] = [at |-> now, wait |-> Max({1, (Active(timestamps, now)[1] + Window) - now})]
    BY <1>1, <2>1, RefuseIs
  <2>3. SlidingOK(now, timestamps', admitted["sliding"], refused'["sliding"])
    BY <1>1, <1>2, <2>1, <2>2, SlidingRefuses
  <2>4. QED BY <1>1, <2>2, <2>3 DEF LimitsInv
<1>3. CASE ~(Len(Active(timestamps, now)) >= Limit)
  <2>1. timestamps' = Append(Active(timestamps, now), now) /\ Admit("sliding")
    BY <1>3 DEF TakeSliding
  <2>2. /\ IsHistory(admitted') /\ refused' = refused /\ admitted'["fixed"] = admitted["fixed"]
        /\ admitted'["sliding"] = Append(admitted["sliding"], now)
    BY <1>1, <2>1, AdmitIs
  <2>3. Len(Active(timestamps, now)) < Limit
    <3>1. Active(timestamps, now) \in Seq(Int)
      BY <1>1, FilterKeeps
    <3>2. QED BY <1>3, <3>1, LimitsAre DEF Limits
  <2>4. SlidingOK(now, timestamps', admitted'["sliding"], refused["sliding"])
    BY <1>1, <2>1, <2>2, <2>3, SlidingAdmits
  <2>5. QED BY <1>1, <2>2, <2>4 DEF LimitsInv
<1>4. QED BY <1>2, <1>3

LEMMA TakeFixedKeeps == ASSUME LimitsInv, TakeFixed PROVE LimitsInv'
<1>1. /\ IsHistory(admitted) /\ IsHistory(refused) /\ UNCHANGED <<now, timestamps>>
      /\ SlidingOK(now, timestamps, admitted["sliding"], refused["sliding"])
      /\ FixedOK(now, window, admitted["fixed"], refused["fixed"])
  BY DEF LimitsInv, TakeFixed
<1>2. /\ window' = Counted(window, now)
      /\ IF Counted(window, now).count <= Limit THEN Admit("fixed")
         ELSE Refuse("fixed", (Counted(window, now).start + Window) - now)
  BY DEF TakeFixed
<1>3. ASSUME Admit("fixed"), FixedOK(now, window', Append(admitted["fixed"], now), refused["fixed"])
      PROVE  LimitsInv'
  <2>1. /\ IsHistory(admitted') /\ refused' = refused /\ admitted'["sliding"] = admitted["sliding"]
        /\ admitted'["fixed"] = Append(admitted["fixed"], now)
    BY <1>1, <1>3, AdmitIs
  <2>2. QED BY <1>1, <1>3, <2>1 DEF LimitsInv
<1>4. CASE window.start <= now - Window
  <2>1. Counted(window, now) = [start |-> now, count |-> 1] /\ Counted(window, now).count = 1
    BY <1>4 DEF Counted
  <2>2. Admit("fixed")
    BY <1>2, <2>1, LimitsAre DEF Limits
  <2>3. FixedOK(now, [start |-> now, count |-> 1], Append(admitted["fixed"], now), refused["fixed"])
    BY <1>1, <1>4, FixedRolls
  <2>4. QED BY <1>2, <1>3, <2>1, <2>2, <2>3
<1>5. CASE ~(window.start <= now - Window)
  <2>1. /\ Counted(window, now) = [start |-> window.start, count |-> window.count + 1]
        /\ Counted(window, now).count = window.count + 1 /\ Counted(window, now).start = window.start
    BY <1>5 DEF Counted
  <2>2. CASE window.count + 1 <= Limit
    <3>1. FixedOK(now, [start |-> window.start, count |-> window.count + 1],
                  Append(admitted["fixed"], now), refused["fixed"])
      BY <1>1, <1>5, <2>2, FixedCounts
    <3>2. QED BY <1>2, <1>3, <2>1, <2>2, <3>1
  <2>3. CASE ~(window.count + 1 <= Limit)
    <3>1. Refuse("fixed", (window.start + Window) - now)
      BY <1>2, <2>1, <2>3
    <3>2. /\ IsHistory(refused') /\ admitted' = admitted /\ refused'["sliding"] = refused["sliding"]
          /\ refused'["fixed"] = [at |-> now, wait |-> Max({1, (window.start + Window) - now})]
      BY <1>1, <3>1, RefuseIs
    <3>3. FixedOK(now, window', admitted["fixed"], refused'["fixed"])
      BY <1>1, <1>2, <1>5, <2>1, <2>3, <3>2, FixedRefuses
    <3>4. QED BY <1>1, <3>2, <3>3 DEF LimitsInv
  <2>4. QED BY <2>2, <2>3
<1>6. QED BY <1>4, <1>5

LEMMA LimitsInvNext == LimitsInv /\ [LimitsNext]_limitVars => LimitsInv'
<1> SUFFICES ASSUME LimitsInv, [LimitsNext]_limitVars PROVE LimitsInv'
  OBVIOUS
<1>1. CASE Tick
  <2>1. now' = now + 1 /\ UNCHANGED <<timestamps, window, admitted, refused>>
    BY <1>1 DEF Tick
  <2>2. /\ SlidingOK(now + 1, timestamps, admitted["sliding"], refused["sliding"])
        /\ FixedOK(now + 1, window, admitted["fixed"], refused["fixed"])
    BY SlidingTicks, FixedTicks DEF LimitsInv
  <2>3. QED BY <2>1, <2>2 DEF LimitsInv
<1>2. CASE UNCHANGED limitVars
  BY <1>2 DEF limitVars, LimitsInv
<1>3. QED BY <1>1, <1>2, TakeSlidingKeeps, TakeFixedKeeps DEF LimitsNext

\* For any limit and window, however requests and time interleave: in no stretch of one
\* window does the sliding limiter admit more than the limit and the fixed one more than
\* twice the limit, and the wait a refusal asks for is long enough.
THEOREM LimitsHoldAlways == LimitsSpec => []LimitsHold
<1>1. LimitsInv => LimitsHold
  <2> SUFFICES ASSUME LimitsInv PROVE LimitsHold
    OBVIOUS
  <2>1. AtMostPerWindow(admitted["sliding"], Limit) /\ AtMostPerWindow(admitted["fixed"], 2 * Limit)
    BY DEF LimitsInv, SlidingOK, FixedOK
  <2>2. WaitSuffices("sliding")
    BY SlidingFindsRoom DEF LimitsInv, WaitSuffices, RoomAt, Since
  <2>3. WaitSuffices("fixed")
    BY FixedFindsRoom DEF LimitsInv, WaitSuffices, RoomAt, Since
  <2>4. QED BY <2>1, <2>2, <2>3 DEF LimitsHold
<1>2. QED BY LimitsInvInit, LimitsInvNext, <1>1, PTL DEF LimitsSpec
=============================================================================
