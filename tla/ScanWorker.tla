----------------------------- MODULE ScanWorker -----------------------------
(***************************************************************************)
(* Worker processes driving claimed scan runs through the stage pipeline:  *)
(* runNextQueuedScan and processClaimedRun, one action per awaited         *)
(* request.  Between two requests anything else may happen: the heartbeat  *)
(* timer, other workers, the passing of time, a crash.                     *)
(*                                                                         *)
(* What a request does to scan_runs is in ScanRuns.  What a stage computes *)
(* is abstracted to how it ends: fine, with a warning, degraded or thrown. *)
(***************************************************************************)
EXTENDS ScanRuns, Sequences

CONSTANTS
    Stages,         \* the pipeline, a sequence of StageNames
    StructuredKeys, \* the keys whose mode is "structured"
    MaxFaults       \* bound on lost requests, lost answers, crashes and stalls

StageNames == {"import_confirmation", "market_scan", "memory_ingest_sync",
               "memory_recall", "opportunity_matching", "report", "underwriting",
               "notification"}

\* An error in the work of these stages ends the run.
FatalStages == {"import_confirmation", "market_scan", "report"}
\* These may complete with a warning.
WarningStages == {"market_scan", "memory_ingest_sync"}
\* These may be marked failed with a warning while the run goes on.
RecallStages == {"memory_ingest_sync", "memory_recall"}
\* As RecallStages, and a failing "completed" update is handled the same way.
GuardedStages == {"opportunity_matching", "underwriting"}

ASSUME ScanWorkerAssumption ==
    /\ Stages \in Seq(StageNames)
    /\ Len(Stages) > 0
    /\ Stages[Len(Stages)] = "notification"
    /\ \E i \in 1..Len(Stages) : Stages[i] = "report"
    /\ \A i, j \in 1..Len(Stages) : Stages[i] = Stages[j] => i = j
    /\ StructuredKeys \subseteq Keys
    /\ MaxFaults \in Nat

VARIABLES
    job,        \* per worker: the run it drives and how far it is
    faults      \* faults so far

vars == <<status, key, worker, lease, warned, report, reclaimed, intent, job, faults>>

(* pc: "idle" polling; "setup" between the claim and processClaimedRun;      *)
(* "get" "renew" "write" the requests of updateStage;   *)
(* "work" inside a stage; "fget" "fwrite" the requests of finish; "rget"    *)
(* the read in runNextQueuedScan's catch.                                   *)
(* ctx: which call of updateStage or finish, hence what its end leads to:   *)
(* "start" the running update, "done" the completed or skipped one, "soft"  *)
(* a failed update the run survives, "diag" the failed update of the outer  *)
(* catch; "final", "catch" and "runner" the three calls of finish.          *)
Job == [pc : {"idle", "setup", "get", "renew", "write", "work", "fget", "fwrite", "rget"},
        run : Runs \cup {0},
        pos : Nat,                  \* index of the stage
        ctx : {"start", "done", "soft", "diag", "final", "catch", "runner"},
        warn : BOOLEAN,             \* the update carries a warning
        seen : BOOLEAN,             \* warned as updateStage read it
        sad : BOOLEAN,              \* processClaimedRun's own warnings
        verdict : Terminal]         \* the status finish is called with

Idle == [pc |-> "idle", run |-> 0, pos |-> 0, ctx |-> "start", warn |-> FALSE,
         seen |-> FALSE, sad |-> FALSE, verdict |-> "failed"]

Drives(w, r) == job[w].pc # "idle" /\ job[w].run = r

\* In structured mode nothing is recalled, and no mode sends notifications.
Skips(r, s) ==
    \/ s = "notification"
    \/ s \in RecallStages /\ key[r] \in StructuredKeys

TypeOK ==
    /\ RowsTypeOK
    /\ job \in [Workers -> Job]
    /\ faults \in 0..MaxFaults

Init ==
    /\ RowsInit
    /\ job = [w \in Workers |-> Idle]
    /\ faults = 0

-----------------------------------------------------------------------------
(* Where control goes.  Each operator gives the record after a call. *)

Update(j, c, w) == [j EXCEPT !.pc = "get", !.ctx = c, !.warn = w]

Finish(j, c, v) == [j EXCEPT !.pc = "fget", !.ctx = c, !.verdict = v]

Verdict(j) == IF j.sad THEN "partial" ELSE "completed"

\* The next call of processClaimedRun when its i-th stage is to begin.
Enter(j, i) ==
    IF i > Len(Stages)
    THEN Finish([j EXCEPT !.pos = i], "final", Verdict(j))
    ELSE Update([j EXCEPT !.pos = i],
                IF Skips(j.run, Stages[i]) THEN "done" ELSE "start", FALSE)

Claimed(r) == [Idle EXCEPT !.pc = "setup", !.run = r]

Soft(j) == Update([j EXCEPT !.sad = TRUE], "soft", TRUE)

Diag(j) == Update(j, "diag", TRUE)

Caught(j) == Finish(j, "catch", "failed")

ToRunner(j) == [j EXCEPT !.pc = "rget", !.ctx = "runner"]

\* The call in progress returns.
Returned(j) ==
    IF j.ctx = "start" THEN [j EXCEPT !.pc = "work"]
    ELSE IF j.ctx \in {"done", "soft"} THEN Enter(j, j.pos + 1)
    ELSE IF j.ctx = "diag" THEN Caught(j)
    ELSE IF j.ctx = "catch" THEN ToRunner(j)
    ELSE Idle

\* The call in progress throws.  A "soft" update has left activeStageStatus at
\* failed, so the outer catch records nothing more.
Thrown(j) ==
    IF j.ctx = "done" /\ Stages[j.pos] \in GuardedStages THEN Soft(j)
    ELSE IF j.ctx \in {"start", "done", "final"} THEN Diag(j)
    ELSE IF j.ctx \in {"soft", "diag"} THEN Caught(j)
    ELSE IF j.ctx = "catch" THEN ToRunner(j)
    ELSE Idle

Go(w, j) == job' = [job EXCEPT ![w] = j]

-----------------------------------------------------------------------------
(* The worker's steps. *)

Claim(w) ==
    /\ job[w].pc = "idle"
    /\ \E r \in Runs : ClaimNext(w, r) /\ Go(w, Claimed(r))
    /\ UNCHANGED <<intent, faults>>

\* runNextQueuedScan loads references and configuration, which may throw.
Setup(w) ==
    /\ job[w].pc = "setup"
    /\ \/ Go(w, Enter(job[w], 1))
       \/ Go(w, ToRunner(job[w]))
    /\ UNCHANGED <<rowVars, intent, faults>>

\* updateStage reads the row and checks worker_id.
ReadForUpdate(w) ==
    LET j == job[w] IN
    /\ j.pc = "get"
    /\ Go(w, IF Owns(w, j.run)
             THEN [j EXCEPT !.pc = "renew", !.seen = warned[j.run]]
             ELSE Thrown(j))
    /\ UNCHANGED <<rowVars, intent, faults>>

RenewForUpdate(w) ==
    LET j == job[w] IN
    /\ j.pc = "renew"
    /\ \/ RenewLease(w, j.run) /\ Go(w, [j EXCEPT !.pc = "write"])
       \/ ~Renewable(w, j.run) /\ Go(w, Thrown(j)) /\ UNCHANGED rowVars
    /\ UNCHANGED <<intent, faults>>

\* insertRunStage, whose rows nothing reads, then updateRun.
WriteUpdate(w) ==
    LET j == job[w] IN
    /\ j.pc = "write"
    /\ PatchWarnings(j.run, j.seen, j.warn)
    /\ Go(w, Returned(j))
    /\ UNCHANGED <<intent, faults>>

StageIs(w, set) == job[w].pc = "work" /\ Stages[job[w].pos] \in set

WorkSucceeds(w) ==
    /\ job[w].pc = "work"
    /\ IF Stages[job[w].pos] = "report" THEN SaveReport(job[w].run) ELSE UNCHANGED rowVars
    /\ Go(w, Update(job[w], "done", FALSE))
    /\ UNCHANGED <<intent, faults>>

WorkWarns(w) ==
    /\ StageIs(w, WarningStages)
    /\ Go(w, Update([job[w] EXCEPT !.sad = TRUE], "done", TRUE))
    /\ UNCHANGED <<rowVars, intent, faults>>

DegradesAnywhere(w) ==
    /\ job[w].pc = "work"
    /\ Go(w, Soft(job[w]))
    /\ UNCHANGED <<rowVars, intent, faults>>

WorkDegrades(w) ==
    /\ StageIs(w, RecallStages \cup GuardedStages)
    /\ Go(w, Soft(job[w]))
    /\ UNCHANGED <<rowVars, intent, faults>>

\* saveReport may fail before or after the report is stored.
WorkFails(w) ==
    /\ StageIs(w, FatalStages)
    /\ \/ UNCHANGED rowVars
       \/ Stages[job[w].pos] = "report" /\ SaveReport(job[w].run)
    /\ Go(w, Diag(job[w]))
    /\ UNCHANGED <<intent, faults>>

\* finish reads the row and checks worker_id, not the status.
ReadForFinish(w) ==
    LET j == job[w] IN
    /\ j.pc = "fget"
    /\ Go(w, IF Owns(w, j.run) THEN [j EXCEPT !.pc = "fwrite"] ELSE Thrown(j))
    /\ UNCHANGED <<rowVars, intent, faults>>

WriteFinish(w) ==
    LET j == job[w] IN
    /\ j.pc = "fwrite"
    /\ PatchOutcome(j.run, j.verdict)
    /\ Go(w, Returned(j))
    /\ UNCHANGED <<intent, faults>>

\* The catch of runNextQueuedScan finishes the run only if it still runs here.
RunnerReads(w) ==
    LET j == job[w] IN
    /\ j.pc = "rget"
    /\ Go(w, IF Renewable(w, j.run) THEN Finish(j, "runner", "failed") ELSE Idle)
    /\ UNCHANGED <<rowVars, intent, faults>>

Step(w) ==
    \/ Setup(w)
    \/ ReadForUpdate(w) \/ RenewForUpdate(w) \/ WriteUpdate(w)
    \/ WorkSucceeds(w) \/ WorkWarns(w) \/ WorkDegrades(w) \/ WorkFails(w)
    \/ ReadForFinish(w) \/ WriteFinish(w) \/ RunnerReads(w)

\* The timer set by runNextQueuedScan; a lost lease is only logged.
Heartbeat(w) ==
    /\ job[w].pc # "idle"
    /\ RenewLease(w, job[w].run)
    /\ UNCHANGED <<intent, job, faults>>

-----------------------------------------------------------------------------
(* Faults.  Their number is bounded by MaxFaults. *)

Fault == faults < MaxFaults /\ faults' = faults + 1

\* A request of the worker never reaches the database.
RequestLost(w) ==
    /\ Fault
    /\ job[w].pc \notin {"idle", "setup", "work"}
    /\ Go(w, Thrown(job[w]))
    /\ UNCHANGED <<rowVars, intent>>

\* A request takes effect and its answer is lost.
AnswerLost(w) ==
    LET j == job[w] IN
    /\ Fault
    /\ \/ j.pc = "renew" /\ RenewLease(w, j.run)
       \/ j.pc = "write" /\ PatchWarnings(j.run, j.seen, j.warn)
       \/ j.pc = "fwrite" /\ PatchOutcome(j.run, j.verdict)
    /\ Go(w, Thrown(j))
    /\ UNCHANGED intent

\* The claim commits, the worker never learns of it and polls again.
ClaimAnswerLost(w) ==
    /\ Fault
    /\ job[w].pc = "idle"
    /\ \E r \in Runs : ClaimNext(w, r)
    /\ UNCHANGED <<intent, job>>

\* The process dies and is started again with the same WORKER_ID.
Crash(w) ==
    /\ Fault
    /\ job[w].pc # "idle"
    /\ Go(w, Idle)
    /\ UNCHANGED <<rowVars, intent>>

\* A live worker's timer renews its lease in time unless it stalls.
HeartbeatDue == \E w \in Workers, r \in Runs : Drives(w, r) /\ Renewable(w, r) /\ lease[r] = 1

Tick ==
    /\ ~HeartbeatDue
    /\ AgeLeases
    /\ UNCHANGED <<intent, job, faults>>

\* Two minutes without one successful renewal.
Stall ==
    /\ HeartbeatDue
    /\ Fault
    /\ AgeLeases
    /\ UNCHANGED <<intent, job>>

-----------------------------------------------------------------------------

Create(c) ==
    /\ \/ \E k \in Keys : FindNoActive(c, k)
       \/ InsertRun(c)
       \/ InsertRefused(c)
    /\ UNCHANGED <<job, faults>>

Faulty(w) == RequestLost(w) \/ AnswerLost(w) \/ ClaimAnswerLost(w) \/ Crash(w)

Next ==
    \/ \E c \in Clients : Create(c)
    \/ \E w \in Workers : Claim(w) \/ Step(w) \/ Heartbeat(w) \/ Faulty(w)
    \/ Tick
    \/ Stall

Spec == Init /\ [][Next]_vars

\* Every worker polls and its event loop never stops; time passes.
Fairness ==
    /\ \A w \in Workers : WF_vars(Claim(w)) /\ WF_vars(Step(w))
    /\ WF_vars(Tick)

FairSpec == Spec /\ Fairness

-----------------------------------------------------------------------------
(* Properties *)

\* Of the runs of one workspace and mode at most one is queued or running,
\* although create reads first and inserts later: the partial unique index
\* decides between two requests that both found nothing.
OneActivePerKey ==
    \A r, x \in Runs : Active(r) /\ Active(x) /\ key[r] = key[x] => r = x

\* Status, worker and lease of a row agree whoever wrote last: a queued run has
\* neither worker nor lease, a running one has both, a settled one no lease.
\* Claims, renewals, updates of lost workers and finish all write these columns
\* separately; and the claim's fallback for a running row without a lease is
\* never needed.
LeaseShape ==
    \A r \in Runs :
        /\ status[r] \in {"absent", "queued"} => worker[r] = NoWorker /\ lease[r] = NoLease
        /\ status[r] = "running" => worker[r] # NoWorker /\ lease[r] # NoLease
        /\ status[r] \in Terminal => lease[r] = NoLease

\* A run is completed or partial only when its report is stored, whichever
\* attempt stored it and whichever worker's finish was applied last.
OutcomeBacked ==
    \A r \in Runs : status[r] \in {"completed", "partial"} => report[r]

\* A run that was never put back reads completed without warnings and partial
\* with some: processClaimedRun decides by its own list, the row keeps another.
WarningsMatchOutcome ==
    \A r \in Runs : ~reclaimed[r] =>
        /\ status[r] = "completed" => ~warned[r]
        /\ status[r] = "partial" => warned[r]

SkewBelowLease == \A w \in Workers : LeaseTicks + Skew[w] > 0

\* Two workers drive one run only after a lost message, a crash or a stall, as
\* long as no clock lags by a whole lease: the heartbeat keeps the claim alive.
SingleDriverUntilFault ==
    faults = 0 /\ SkewBelowLease =>
        \A w, v \in Workers, r \in Runs : Drives(w, r) /\ Drives(v, r) => w = v

-----------------------------------------------------------------------------
(* The inductive strengthening of the properties above. *)

\* Whoever is at work is at work on a run that was inserted.
WorkersOnRuns ==
    \A w \in Workers : job[w].pc # "idle" =>
        /\ job[w].run \in Runs
        /\ status[job[w].run] # "absent"

\* Until a fault a worker's run is still its own: running under a lease that
\* has not run out, or settled by the worker itself.
OwnershipUntilFault ==
    faults = 0 /\ SkewBelowLease =>
        \A w \in Workers : job[w].pc # "idle" =>
            LET r == job[w].run IN
            /\ Owns(w, r)
            /\ \/ status[r] = "running" /\ lease[r] > 0
               \/ status[r] \in Terminal

InStage(j) ==
    /\ j.pc \in {"get", "renew", "write", "work"}
    /\ j.ctx \in {"start", "done", "soft"}

\* The report stage lies behind the worker, or its work does.
ReportPassed(j) ==
    \E i \in 1..Len(Stages) :
        /\ Stages[i] = "report"
        /\ (j.pos > i) \/ (j.pos = i /\ j.ctx = "done")

\* The call a record stands for is one the code makes at that point.
CallsNest(j) ==
    /\ j.pc \in {"get", "renew", "write"} => j.ctx \in {"start", "done", "soft", "diag"}
    /\ j.pc = "work" => j.ctx = "start"
    /\ j.pc \in {"fget", "fwrite"} => j.ctx \in {"final", "catch", "runner"}
    /\ j.pc = "rget" => j.ctx = "runner"

\* A record past the report stage, or about to finish with completed or
\* partial, has its report among the stored ones.
Backed(j, stored) ==
    /\ CallsNest(j)
    /\ InStage(j) => j.pos \in 1..Len(Stages)
    /\ InStage(j) /\ j.ctx = "soft" => Stages[j.pos] \in RecallStages \cup GuardedStages
    /\ j.pc # "idle" /\ ReportPassed(j) => stored[j.run]
    /\ j.pc \in {"fget", "fwrite"} /\ j.verdict # "failed" => stored[j.run]

ProgressBacked == \A w \in Workers : Backed(job[w], report)

Inv ==
    /\ TypeOK
    /\ WorkersOnRuns
    /\ OneActivePerKey
    /\ LeaseShape
    /\ OwnershipUntilFault
    /\ ProgressBacked
    /\ OutcomeBacked

-----------------------------------------------------------------------------

\* The queue keeps the promise of RunLifecycle: only queued or running runs are
\* handed out, and a settled run is never active again.
Lifecycle == INSTANCE RunLifecycle
LifecycleSpec == Lifecycle!Spec

\* Every queued run settles: crashed, stalled and lost claims run out and are
\* claimed again, and no run is left behind by a worker that gave it up.
QueuedRunsSettle ==
    \A r \in Runs : status[r] = "queued" ~> status[r] \in Terminal

\* A worker changes a run only while the row names it: a reclaimed run rejects
\* writes from its previous worker.  This is what tests/unit/runs-repository
\* says of updateStage and finish; the code checks before it writes.
ReclaimedRunRejectsWrites ==
    [][\A w \in Workers :
          LET r == job[w].run IN
          /\ job[w].pc \in {"write", "fwrite"}
          /\ job'[w] # job[w]
          /\ <<status[r], warned[r]>> # <<status'[r], warned'[r]>>
          => Owns(w, r)]_vars

=============================================================================
