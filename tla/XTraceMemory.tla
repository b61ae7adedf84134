----------------------------- MODULE XTraceMemory -----------------------------
(***************************************************************************)
(* One source's memory in XTrace: ingestDealMemory and pollIngestJob of    *)
(* the upload worker, which retries until the ingest succeeded, and the    *)
(* scan's polling of open jobs next to it, over the lineage tables; then   *)
(* the scan's recall of the deal, which looks up every memory it is given. *)
(* XTrace, outside the repository, runs a job for each call of ingest.     *)
(* The upload's lease keeps a second worker from ingesting the source at   *)
(* the same time (UploadWorker); a job makes one memory, or none.  Memory  *)
(* Foreign is one of another deal.                                         *)
(***************************************************************************)
EXTENDS Naturals, FiniteSets

CONSTANTS
    MaxJobs,        \* bound on the calls of ingest
    MaxPolls,       \* how often one pollIngestJob asks
    MaxFaults       \* bound on lost requests, lost answers and crashes

ASSUME MemoryAssumption == MaxJobs \in Nat /\ MaxPolls \in Nat \ {0} /\ MaxFaults \in Nat

Jobs == 1..MaxJobs
Foreign == 0
Memories == Jobs \cup {Foreign}

VARIABLES
    job,        \* per job, at XTrace: where it stands
    lineage,    \* per job: its row of xtrace_ingest_jobs
    links,      \* the jobs whose memory has a row of xtrace_memory_links
    worker,     \* the upload's ingest
    sync,       \* the scan's polling of open jobs and its recall
    memoryFaults

memoryVars == <<job, lineage, links, worker, sync, memoryFaults>>

Outcomes == {"succeeded", "empty", "failed"}
JobState == Outcomes \cup {"pending"}

\* The status a job reports: one that made no memory succeeded.
Reported(state) == IF state = "empty" THEN "succeeded" ELSE state

\* due, a history field: what a recall was given and the lineage named at that time.
Process == [pc : {"idle", "find", "ingest", "record", "poll", "patch", "link", "done",
                  "search", "byLink", "byRow", "recalled", "unavailable"},
            job : Memories, got : JobState, left : 0..MaxPolls, open : SUBSET Jobs,
            given : SUBSET Memories, kept : SUBSET Memories, due : SUBSET Jobs, failed : BOOLEAN]

Resting == [pc |-> "idle", job |-> 0, got |-> "pending", left |-> 0, open |-> {},
            given |-> {}, kept |-> {}, due |-> {}, failed |-> FALSE]

MemoryTypeOK ==
    /\ job \in [Jobs -> JobState \cup {"none"}]
    /\ lineage \in [Jobs -> [status : {"none", "pending", "succeeded", "failed"},
                             memory : BOOLEAN]]
    /\ links \subseteq Jobs
    /\ worker \in Process /\ sync \in Process
    /\ memoryFaults \in 0..MaxFaults

MemoryInit ==
    /\ job = [j \in Jobs |-> "none"]
    /\ lineage = [j \in Jobs |-> [status |-> "none", memory |-> FALSE]]
    /\ links = {}
    /\ worker = Resting /\ sync = Resting
    /\ memoryFaults = 0

-----------------------------------------------------------------------------
(* Both poll, with the same code; p is one of them and p2 what it becomes. *)

Fault == memoryFaults < MaxFaults /\ memoryFaults' = memoryFaults + 1

Polling(p, j) == [p EXCEPT !.pc = "poll", !.job = j, !.left = MaxPolls, !.got = "pending"]

\* A job that ended is recorded; one that did not is asked for again, a bounded
\* number of times.  stop is what the process does when it gives up.
Polled(p, stop) ==
    IF job[p.job] # "pending" THEN [p EXCEPT !.pc = "patch", !.got = job[p.job]]
    ELSE IF p.left > 1 THEN [p EXCEPT !.left = @ - 1]
    ELSE stop

\* recordCompletion: the row, ...
Patched(p) ==
    [lineage EXCEPT ![p.job] = [status |-> Reported(p.got), memory |-> p.got = "succeeded"]]

\* ... then the link of the memory, if there is one.  over is where it ends.
AfterPatch(p, over) == IF p.got = "succeeded" THEN [p EXCEPT !.pc = "link"] ELSE over

-----------------------------------------------------------------------------
(* The upload's ingest.  A failure returns the document to the queue, and *)
(* the next claim starts over.                                            *)

StartIngest ==
    /\ worker.pc = "idle"
    /\ worker' = [Resting EXCEPT !.pc = "find"]
    /\ UNCHANGED <<job, lineage, links, sync, memoryFaults>>

ReusableSucceeded == {j \in Jobs : lineage[j].status = "succeeded"}

\* findReusableIngest looks at the newest.
Reusable == {j \in Jobs : lineage[j].status \in {"pending", "succeeded"}}

Find ==
    /\ worker.pc = "find"
    /\ worker' =
         IF Reusable = {} THEN [worker EXCEPT !.pc = "ingest"]
         ELSE LET j == CHOOSE x \in Reusable : \A y \in Reusable : y <= x IN
              IF lineage[j].status = "pending" THEN Polling(worker, j)
              ELSE IF lineage[j].memory THEN [worker EXCEPT !.pc = "done", !.job = j]
              ELSE [worker EXCEPT !.pc = "ingest"]
    /\ UNCHANGED <<job, lineage, links, sync, memoryFaults>>

\* The call of XTrace; its answer may be lost.
Ingest ==
    /\ worker.pc = "ingest"
    /\ \E j \in Jobs, state \in JobState :
          /\ job[j] = "none" /\ \A i \in Jobs : i < j => job[i] # "none"
          /\ job' = [job EXCEPT ![j] = state]
          /\ \/ /\ worker' = [worker EXCEPT !.pc = "record", !.job = j, !.got = state]
                /\ UNCHANGED memoryFaults
             \/ Fault /\ worker' = Resting
    /\ UNCHANGED <<lineage, links, sync>>

\* recordSubmission, with the status of the answer and no memory yet.
Record ==
    /\ worker.pc = "record"
    /\ lineage' = [lineage EXCEPT ![worker.job] = [status |-> Reported(worker.got),
                                                   memory |-> FALSE]]
    /\ worker' = IF worker.got = "pending" THEN Polling(worker, worker.job)
                 ELSE [worker EXCEPT !.pc = "patch"]
    /\ UNCHANGED <<job, links, sync, memoryFaults>>

WorkerPolls ==
    /\ worker.pc = "poll"
    /\ worker' = Polled(worker, Resting)
    /\ UNCHANGED <<job, lineage, links, sync, memoryFaults>>

\* An ingest that did not succeed fails the processing of the source.
Over(p) == IF Reported(p.got) = "succeeded" THEN [p EXCEPT !.pc = "done"] ELSE Resting

WorkerPatches ==
    /\ worker.pc = "patch"
    /\ lineage' = Patched(worker)
    /\ worker' = AfterPatch(worker, Over(worker))
    /\ UNCHANGED <<job, links, sync, memoryFaults>>

WorkerLinks ==
    /\ worker.pc = "link"
    /\ links' = links \cup {worker.job}
    /\ worker' = Over(worker)
    /\ UNCHANGED <<job, lineage, sync, memoryFaults>>

-----------------------------------------------------------------------------
(* The scan's memory_ingest_sync. *)

Recalling == [Resting EXCEPT !.pc = "search"]

\* The next of the listed jobs; a failure with one does not stop the others, nor the
\* recall that follows.
NextOpen(open) ==
    IF open = {} THEN Recalling
    ELSE LET j == CHOOSE x \in open : \A y \in open : x <= y IN
         Polling([Resting EXCEPT !.open = open \ {j}], j)

ListOpen ==
    /\ sync.pc \in {"idle", "recalled", "unavailable"}
    /\ sync' = NextOpen({j \in Jobs : lineage[j].status = "pending"})
    /\ UNCHANGED <<job, lineage, links, worker, memoryFaults>>

SyncPolls ==
    /\ sync.pc = "poll"
    /\ sync' = Polled(sync, NextOpen(sync.open))
    /\ UNCHANGED <<job, lineage, links, worker, memoryFaults>>

SyncPatches ==
    /\ sync.pc = "patch"
    /\ lineage' = Patched(sync)
    /\ sync' = AfterPatch(sync, NextOpen(sync.open))
    /\ UNCHANGED <<job, links, worker, memoryFaults>>

SyncLinks ==
    /\ sync.pc = "link"
    /\ links' = links \cup {sync.job}
    /\ sync' = NextOpen(sync.open)
    /\ UNCHANGED <<job, lineage, worker, memoryFaults>>

-----------------------------------------------------------------------------
(* The scan's memory_recall of the deal. *)

\* The next memory of the answer; a deal of which none is kept counts as unavailable.
NextGiven(p) ==
    IF p.given = {} THEN [p EXCEPT !.pc = IF p.kept = {} THEN "unavailable" ELSE "recalled"]
    ELSE LET m == CHOOSE x \in p.given : \A y \in p.given : x <= y IN
         [p EXCEPT !.pc = "byLink", !.job = m, !.given = @ \ {m}]

Keep(p) == NextGiven([p EXCEPT !.kept = @ \cup {p.job}])

RowListed(j) == j # Foreign /\ lineage[j].memory

ResolveLinked(j) == j \in links

\* resolve of a memory, in two requests: its link, or else the job of its
\* conversation that lists it.
Resolves(j) == j \in links \/ RowListed(j)

\* XTrace ranks what it has by likeness and leaves out what it likes.
Search ==
    /\ sync.pc = "search"
    /\ \E given \in SUBSET ({j \in Jobs : job[j] = "succeeded"} \cup {Foreign}) :
          sync' = NextGiven([sync EXCEPT !.given = given, !.due = {j \in given : Resolves(j)}])
    /\ UNCHANGED <<job, lineage, links, worker, memoryFaults>>

LookUpLinkOnly ==
    /\ sync.pc = "byLink"
    /\ sync' = IF sync.job \in links THEN Keep(sync) ELSE NextGiven(sync)
    /\ UNCHANGED <<job, lineage, links, worker, memoryFaults>>

\* A memory of another deal is linked to that deal and not taken.
LookUpLink ==
    /\ sync.pc = "byLink"
    /\ sync' = IF sync.job = Foreign THEN NextGiven(sync)
               ELSE IF sync.job \in links THEN Keep(sync)
               ELSE [sync EXCEPT !.pc = "byRow"]
    /\ UNCHANGED <<job, lineage, links, worker, memoryFaults>>

LookUpRow ==
    /\ sync.pc = "byRow"
    /\ sync' = IF RowListed(sync.job) THEN Keep(sync) ELSE NextGiven(sync)
    /\ UNCHANGED <<job, lineage, links, worker, memoryFaults>>

\* A failed recall is repeated once, unless XTrace refused the search for good.
RecallFails ==
    /\ sync.pc \in {"search", "byLink", "byRow"}
    /\ Fault
    /\ \/ ~sync.failed /\ sync' = [Recalling EXCEPT !.failed = TRUE]
       \/ /\ sync.failed \/ sync.pc = "search"
          /\ sync' = [Resting EXCEPT !.pc = "unavailable", !.failed = TRUE]
    /\ UNCHANGED <<job, lineage, links, worker>>

-----------------------------------------------------------------------------
(* XTrace and faults. *)

JobEnds(j) ==
    /\ job[j] = "pending"
    /\ \E state \in Outcomes : job' = [job EXCEPT ![j] = state]
    /\ UNCHANGED <<lineage, links, worker, sync, memoryFaults>>

\* A request of the worker fails, or the worker dies, before or after what the
\* request does.
WorkerFails ==
    /\ worker.pc \notin {"idle", "done"}
    /\ Fault
    /\ worker' = Resting
    /\ \/ UNCHANGED <<lineage, links>>
       \/ /\ worker.pc = "record" /\ UNCHANGED links
          /\ lineage' = [lineage EXCEPT ![worker.job] = [status |-> Reported(worker.got),
                                                         memory |-> FALSE]]
       \/ worker.pc = "patch" /\ lineage' = Patched(worker) /\ UNCHANGED links
       \/ worker.pc = "link" /\ links' = links \cup {worker.job} /\ UNCHANGED lineage
    /\ UNCHANGED <<job, sync>>

SyncFails ==
    /\ sync.pc \in {"poll", "patch", "link"}
    /\ Fault
    /\ sync' = NextOpen(sync.open)
    /\ \/ UNCHANGED <<lineage, links>>
       \/ sync.pc = "patch" /\ lineage' = Patched(sync) /\ UNCHANGED links
       \/ sync.pc = "link" /\ links' = links \cup {sync.job} /\ UNCHANGED lineage
    /\ UNCHANGED <<job, worker>>

\* The scan's worker dies; the scan is claimed again and starts over.
SyncDies ==
    /\ sync.pc \notin {"idle", "recalled", "unavailable"}
    /\ Fault
    /\ sync' = Resting
    /\ \/ UNCHANGED <<lineage, links>>
       \/ sync.pc = "patch" /\ lineage' = Patched(sync) /\ UNCHANGED links
       \/ sync.pc = "link" /\ links' = links \cup {sync.job} /\ UNCHANGED lineage
    /\ UNCHANGED <<job, worker>>

MemoryNext ==
    \/ StartIngest \/ Find \/ Ingest \/ Record \/ WorkerPolls \/ WorkerPatches \/ WorkerLinks
    \/ ListOpen \/ SyncPolls \/ SyncPatches \/ SyncLinks
    \/ Search \/ LookUpLink \/ LookUpRow \/ RecallFails
    \/ \E j \in Jobs : JobEnds(j)
    \/ WorkerFails \/ SyncFails \/ SyncDies

MemorySpec == MemoryInit /\ [][MemoryNext]_memoryVars
-----------------------------------------------------------------------------

\* When the ingest of a source succeeded, the memory it made can be traced back to
\* the source, although the row and the link are written apart, either of them may
\* be lost, and a scan may be recording the same job.
IngestedResolves ==
    worker.pc = "done" => \/ Resolves(worker.job)
                          \/ job[worker.job] = "empty"

\* XTrace makes a second memory of a source only after a fault: polling that gives
\* up, a scan that records the job first and jobs that fail lead to none.
ResubmittedForCause ==
    Cardinality({j \in Jobs : job[j] = "succeeded"}) <= 1 + memoryFaults

\* A recall that fails nowhere keeps every memory it is given that the lineage named
\* when XTrace was asked, although each is looked up in two requests while others
\* write its row and its link apart; and none of another deal.
RecallKeepsRecorded ==
    /\ sync.kept \subseteq Jobs
    /\ sync.pc = "recalled" => sync.due \subseteq sync.kept
    /\ sync.pc = "unavailable" /\ ~sync.failed => sync.due = {}
=============================================================================
