-------------------------- MODULE ScanWorkerProofs --------------------------
(***************************************************************************)
(* Proofs about ScanWorker, for any number of runs, keys, workers, clients *)
(* and faults, any lease length, any clock skew and any pipeline that      *)
(* meets ScanWorkerAssumption.                                             *)
(***************************************************************************)
EXTENDS ScanWorker, TLAPS

USE ScanRunsAssumption, ScanWorkerAssumption

-----------------------------------------------------------------------------
(* The control operators keep a worker's record well formed. *)

LEMMA EnterType ==
    ASSUME NEW j \in Job, NEW i \in Nat
    PROVE  /\ Enter(j, i) \in Job
           /\ Enter(j, i).pc \in {"get", "fget"}
           /\ Enter(j, i).run = j.run
BY DEF Enter, Finish, Update, Job, Terminal, Verdict

LEMMA SoftType ==
    ASSUME NEW j \in Job
    PROVE  /\ Soft(j) \in Job
           /\ Soft(j).pc = "get"
           /\ Soft(j).run = j.run
BY DEF Soft, Update, Job

LEMMA DiagType ==
    ASSUME NEW j \in Job
    PROVE  /\ Diag(j) \in Job
           /\ Diag(j).pc = "get"
           /\ Diag(j).run = j.run
BY DEF Diag, Update, Job

LEMMA CaughtType ==
    ASSUME NEW j \in Job
    PROVE  /\ Caught(j) \in Job
           /\ Caught(j).pc = "fget"
           /\ Caught(j).run = j.run
BY DEF Caught, Finish, Job, Terminal

LEMMA ToRunnerType ==
    ASSUME NEW j \in Job
    PROVE  /\ ToRunner(j) \in Job
           /\ ToRunner(j).pc = "rget"
           /\ ToRunner(j).run = j.run
BY DEF ToRunner, Job

LEMMA IdleType == Idle \in Job
BY DEF Idle, Job, Terminal

\* A call that returns or throws leaves the worker idle or on the same run.
LEMMA ReturnedType ==
    ASSUME NEW j \in Job
    PROVE  /\ Returned(j) \in Job
           /\ Returned(j).pc # "idle" => Returned(j).run = j.run
<1>1. j.ctx \in {"start", "done", "soft", "diag", "final", "catch", "runner"} /\ j.pos + 1 \in Nat
  BY DEF Job
<1>2. CASE j.ctx = "start"
  BY <1>2 DEF Returned, Job
<1>3. CASE j.ctx \in {"done", "soft"}
  <2>1. Returned(j) = Enter(j, j.pos + 1)
    BY <1>3 DEF Returned
  <2>2. QED BY <2>1, <1>1, EnterType
<1>4. CASE j.ctx = "diag"
  BY <1>4, CaughtType DEF Returned
<1>5. CASE j.ctx = "catch"
  BY <1>5, ToRunnerType DEF Returned
<1>6. CASE j.ctx \in {"final", "runner"}
  BY <1>6, IdleType DEF Returned, Idle
<1>7. QED BY <1>1, <1>2, <1>3, <1>4, <1>5, <1>6

LEMMA ThrownType ==
    ASSUME NEW j \in Job
    PROVE  /\ Thrown(j) \in Job
           /\ Thrown(j).pc # "idle" => Thrown(j).run = j.run
<1>1. j.ctx \in {"start", "done", "soft", "diag", "final", "catch", "runner"}
  BY DEF Job
<1>2. CASE j.ctx = "done"
  BY <1>2, SoftType, DiagType DEF Thrown
<1>3. CASE j.ctx \in {"start", "final"}
  BY <1>3, DiagType DEF Thrown
<1>4. CASE j.ctx \in {"soft", "diag"}
  BY <1>4, CaughtType DEF Thrown
<1>5. CASE j.ctx = "catch"
  BY <1>5, ToRunnerType DEF Thrown
<1>6. CASE j.ctx = "runner"
  BY <1>6, IdleType DEF Thrown, Idle
<1>7. QED BY <1>1, <1>2, <1>3, <1>4, <1>5, <1>6

-----------------------------------------------------------------------------
(* What the requests do to well-typed rows. *)

LEMMA RenewedLeaseType ==
    ASSUME NEW w \in Workers
    PROVE  RenewedLease(w) \in Nat
BY DEF RenewedLease

LEMMA ClaimNextType ==
    ASSUME RowsTypeOK, NEW w \in Workers, NEW r \in Runs, ClaimNext(w, r), UNCHANGED intent
    PROVE  RowsTypeOK'
BY DEF RowsTypeOK, ClaimNext, Statuses, NoLease, Expired

LEMMA RenewLeaseType ==
    ASSUME RowsTypeOK, NEW w \in Workers, NEW r \in Runs, RenewLease(w, r), UNCHANGED intent
    PROVE  RowsTypeOK'
BY RenewedLeaseType DEF RowsTypeOK, RenewLease

LEMMA PatchWarningsType ==
    ASSUME RowsTypeOK, NEW r \in Runs, NEW b \in BOOLEAN, NEW a \in BOOLEAN,
           PatchWarnings(r, b, a), UNCHANGED intent
    PROVE  RowsTypeOK'
BY DEF RowsTypeOK, PatchWarnings

LEMMA PatchOutcomeType ==
    ASSUME RowsTypeOK, NEW r \in Runs, NEW o \in Terminal, PatchOutcome(r, o), UNCHANGED intent
    PROVE  RowsTypeOK'
BY DEF RowsTypeOK, PatchOutcome, Statuses, NoLease

LEMMA SaveReportType ==
    ASSUME RowsTypeOK, NEW r \in Runs, SaveReport(r), UNCHANGED intent
    PROVE  RowsTypeOK'
BY DEF RowsTypeOK, SaveReport

LEMMA AgeLeasesType ==
    ASSUME RowsTypeOK, AgeLeases, UNCHANGED intent
    PROVE  RowsTypeOK'
<1>1. ASSUME NEW l \in Nat \cup {NoLease}
      PROVE  Aged(l) \in Nat \cup {NoLease}
  BY <1>1 DEF Aged, NoLease
<1>2. lease' \in [Runs -> Nat \cup {NoLease}]
  BY <1>1 DEF RowsTypeOK, AgeLeases
<1>3. QED BY <1>2 DEF RowsTypeOK, AgeLeases

-----------------------------------------------------------------------------
(* Type correctness.  A worker's run must be a row, so both are proved at   *)
(* once.                                                                    *)

Typed == TypeOK /\ WorkersOnRuns

\* No request deletes a row.
RowsStay == \A r \in Runs : status[r] # "absent" => status'[r] # "absent"

LEMMA RowsKept ==
    ASSUME RowsTypeOK
    PROVE  /\ UNCHANGED status => RowsStay
           /\ UNCHANGED <<rowVars, intent>> => RowsTypeOK'
           /\ \A w, r : ClaimNext(w, r) => RowsStay
           /\ \A w, r : RenewLease(w, r) => RowsStay
           /\ \A r, b, a : PatchWarnings(r, b, a) => RowsStay
           /\ \A r : \A o \in Terminal : PatchOutcome(r, o) => RowsStay
           /\ \A r : SaveReport(r) => RowsStay
           /\ AgeLeases => RowsStay
BY DEF RowsTypeOK, RowsStay, rowVars, ClaimNext, Expired, RenewLease, PatchWarnings,
       PatchOutcome, SaveReport, AgeLeases, Terminal

LEMMA InitTyped == Init => Typed
BY IdleType DEF Init, RowsInit, Typed, TypeOK, RowsTypeOK, WorkersOnRuns, Statuses, NoLease,
                Idle, Job

LEMMA FaultsTyped ==
    ASSUME Typed
    PROVE  UNCHANGED faults \/ Fault => faults' \in 0..MaxFaults
BY DEF Typed, TypeOK, Fault

-----------------------------------------------------------------------------
(* What a step of a worker amounts to: at most one request about its run,   *)
(* and a record that is idle or stays on that run.                          *)

OneRequest(w) ==
    LET j == job[w] IN
    \/ UNCHANGED rowVars
    \/ RenewLease(w, j.run)
    \/ j.pc = "write" /\ PatchWarnings(j.run, j.seen, j.warn)
    \/ j.pc = "fwrite" /\ PatchOutcome(j.run, j.verdict)
    \/ SaveReport(j.run)

StaysOnRun(w) ==
    /\ job[w].pc # "idle"
    /\ \E n \in Job : Go(w, n) /\ (n.pc # "idle" => n.run = job[w].run)

\* A worker that is not idle works on a row that exists.
LEMMA AtWork ==
    ASSUME Typed, NEW w \in Workers, job[w].pc # "idle"
    PROVE  /\ job[w] \in Job
           /\ job[w].run \in Runs
           /\ status[job[w].run] # "absent"
           /\ job[w].pos \in Nat
           /\ job[w].verdict \in Terminal
           /\ job[w].seen \in BOOLEAN
           /\ job[w].warn \in BOOLEAN
BY DEF Typed, TypeOK, WorkersOnRuns, Job

LEMMA StepEffect ==
    ASSUME Typed, NEW w \in Workers, Step(w)
    PROVE  StaysOnRun(w) /\ OneRequest(w) /\ UNCHANGED <<intent, faults>>
<1> DEFINE j == job[w]
<1>0. RowsTypeOK /\ UNCHANGED <<intent, faults>>
  BY DEF Step, Setup, ReadForUpdate, RenewForUpdate, WriteUpdate, WorkSucceeds,
     WorkWarns, WorkDegrades, WorkFails, ReadForFinish, WriteFinish, RunnerReads, Typed, TypeOK
<1>1. j.pc # "idle"
  BY DEF Step, Setup, ReadForUpdate, RenewForUpdate, WriteUpdate, WorkSucceeds,
     WorkWarns, WorkDegrades, WorkFails, ReadForFinish, WriteFinish, RunnerReads, StageIs
<1>2. j \in Job /\ j.run \in Runs
  BY <1>1, AtWork
<1>3. OneRequest(w)
  BY DEF OneRequest, Step, Setup, ReadForUpdate, RenewForUpdate, WriteUpdate, WorkSucceeds,
     WorkWarns, WorkDegrades, WorkFails, ReadForFinish, WriteFinish, RunnerReads
<1> SUFFICES StaysOnRun(w)
  BY <1>0, <1>3
<1>4. ASSUME NEW n \in Job, Go(w, n), n.pc # "idle" => n.run = j.run
      PROVE  StaysOnRun(w)
  BY <1>1, <1>4 DEF StaysOnRun
<1>5. CASE Setup(w)
  BY <1>2, <1>4, <1>5, EnterType, ToRunnerType DEF Setup
<1>6. CASE ReadForUpdate(w)
  <2>1. [j EXCEPT !.pc = "renew", !.seen = warned[j.run]] \in Job
    BY <1>0, <1>2 DEF RowsTypeOK, Job
  <2>2. CASE Owns(w, j.run)
    BY <1>2, <1>4, <1>6, <2>1, <2>2 DEF ReadForUpdate, Job
  <2>3. CASE ~Owns(w, j.run)
    BY <1>2, <1>4, <1>6, <2>3, ThrownType DEF ReadForUpdate
  <2>4. QED BY <2>2, <2>3
<1>7. CASE RenewForUpdate(w)
  <2>1. [j EXCEPT !.pc = "write"] \in Job /\ [j EXCEPT !.pc = "write"].run = j.run
    BY <1>2 DEF Job
  <2>2. QED BY <1>2, <1>4, <1>7, <2>1, ThrownType DEF RenewForUpdate
<1>8. CASE WriteUpdate(w)
  BY <1>2, <1>4, <1>8, ReturnedType DEF WriteUpdate
<1>9. CASE WorkSucceeds(w)
  <2>1. Update(j, "done", FALSE) \in Job /\ Update(j, "done", FALSE).run = j.run
    BY <1>2 DEF Update, Job
  <2>2. QED BY <1>4, <1>9, <2>1 DEF WorkSucceeds
<1>10. CASE WorkWarns(w)
  <2> DEFINE n == Update([j EXCEPT !.sad = TRUE], "done", TRUE)
  <2>1. n \in Job /\ n.run = j.run
    BY <1>2 DEF Update, Job
  <2>2. QED BY <1>4, <1>10, <2>1 DEF WorkWarns
<1>11. CASE WorkDegrades(w)
  BY <1>2, <1>4, <1>11, SoftType DEF WorkDegrades
<1>12. CASE WorkFails(w)
  BY <1>2, <1>4, <1>12, DiagType DEF WorkFails
<1>13. CASE ReadForFinish(w)
  <2>1. [j EXCEPT !.pc = "fwrite"] \in Job /\ [j EXCEPT !.pc = "fwrite"].run = j.run
    BY <1>2 DEF Job
  <2>2. QED BY <1>2, <1>4, <1>13, <2>1, ThrownType DEF ReadForFinish
<1>14. CASE WriteFinish(w)
  BY <1>2, <1>4, <1>14, ReturnedType DEF WriteFinish
<1>15. CASE RunnerReads(w)
  <2>1. Finish(j, "runner", "failed") \in Job /\ Finish(j, "runner", "failed").run = j.run
    BY <1>2 DEF Finish, Job, Terminal
  <2>2. Idle \in Job /\ Idle.pc = "idle"
    BY IdleType DEF Idle
  <2>3. QED BY <1>4, <1>15, <2>1, <2>2 DEF RunnerReads
<1>16. QED
  BY <1>5, <1>6, <1>7, <1>8, <1>9, <1>10, <1>11, <1>12, <1>13, <1>14, <1>15 DEF Step

LEMMA FaultyEffect ==
    ASSUME Typed, NEW w \in Workers, Faulty(w)
    PROVE  /\ Fault /\ UNCHANGED intent
           /\ \/ StaysOnRun(w) /\ OneRequest(w)
              \/ UNCHANGED job /\ \E r \in Runs : ClaimNext(w, r)
<1> DEFINE j == job[w]
<1>1. Fault /\ UNCHANGED intent
  BY DEF Faulty, RequestLost, AnswerLost, ClaimAnswerLost, Crash
<1>2. CASE RequestLost(w)
  <2>1. j.pc # "idle" /\ Go(w, Thrown(j)) /\ UNCHANGED rowVars
    BY <1>2 DEF RequestLost
  <2>2. QED BY <1>1, <2>1, AtWork, ThrownType DEF StaysOnRun, OneRequest
<1>3. CASE AnswerLost(w)
  <2>1. j.pc # "idle" /\ Go(w, Thrown(j)) /\ OneRequest(w)
    BY <1>3 DEF AnswerLost, OneRequest
  <2>2. QED BY <1>1, <2>1, AtWork, ThrownType DEF StaysOnRun
<1>4. CASE ClaimAnswerLost(w)
  BY <1>1, <1>4 DEF ClaimAnswerLost
<1>5. CASE Crash(w)
  BY <1>1, <1>5, IdleType DEF Crash, StaysOnRun, OneRequest, Idle
<1>6. QED BY <1>2, <1>3, <1>4, <1>5 DEF Faulty

-----------------------------------------------------------------------------
(* Every step keeps the types. *)

LEMMA OneRequestType ==
    ASSUME Typed, NEW w \in Workers, job[w].pc # "idle", OneRequest(w), UNCHANGED intent
    PROVE  RowsTypeOK' /\ RowsStay
<1>1. /\ RowsTypeOK /\ job[w].run \in Runs /\ job[w].verdict \in Terminal
      /\ job[w].seen \in BOOLEAN /\ job[w].warn \in BOOLEAN
  BY AtWork DEF Typed, TypeOK
<1>2. QED BY <1>1, RenewLeaseType, PatchWarningsType, PatchOutcomeType, SaveReportType,
     RowsKept DEF OneRequest, rowVars

\* The record of w changes to n, the other workers' records stay.
LEMMA GoTyped ==
    ASSUME Typed, NEW w \in Workers, NEW n \in Job, Go(w, n),
           n.pc # "idle" => n.run \in Runs /\ status'[n.run] # "absent",
           RowsStay, RowsTypeOK', faults' \in 0..MaxFaults
    PROVE  Typed'
<1>1. job' \in [Workers -> Job]
  BY DEF Typed, TypeOK, Go
<1>2. ASSUME NEW v \in Workers, job'[v].pc # "idle"
      PROVE  job'[v].run \in Runs /\ status'[job'[v].run] # "absent"
  <2>1. CASE v = w
    BY <2>1, <1>2 DEF Typed, TypeOK, Go
  <2>2. CASE v # w
    BY <2>2, <1>2 DEF Typed, TypeOK, Go, WorkersOnRuns, RowsStay
  <2>3. QED BY <2>1, <2>2
<1>3. QED BY <1>1, <1>2 DEF Typed, TypeOK, WorkersOnRuns

LEMMA StayTyped ==
    ASSUME Typed, UNCHANGED job, RowsStay, RowsTypeOK', faults' \in 0..MaxFaults
    PROVE  Typed'
BY DEF Typed, TypeOK, WorkersOnRuns, RowsStay

LEMMA TypedSame ==
    ASSUME Typed, NEW w \in Workers, StaysOnRun(w), OneRequest(w), UNCHANGED intent,
           faults' \in 0..MaxFaults
    PROVE  Typed'
<1>1. PICK n \in Job : Go(w, n) /\ (n.pc # "idle" => n.run = job[w].run)
  BY DEF StaysOnRun
<1>2. RowsTypeOK' /\ RowsStay
  BY OneRequestType DEF StaysOnRun
<1>3. job[w].run \in Runs /\ status'[job[w].run] # "absent"
  BY <1>2, AtWork DEF StaysOnRun, RowsStay
<1>4. QED BY <1>1, <1>2, <1>3, GoTyped

LEMMA TypedCreate ==
    ASSUME Typed, NEW c \in Clients, Create(c)
    PROVE  Typed'
<1>1. RowsTypeOK /\ faults' \in 0..MaxFaults /\ UNCHANGED job
  BY FaultsTyped DEF Typed, TypeOK, Create
<1>2. CASE \E k \in Keys : FindNoActive(c, k)
  BY <1>1, <1>2, StayTyped DEF FindNoActive, RowsTypeOK, rowVars, RowsStay
<1>3. CASE InsertRun(c)
  <2>1. PICK r \in Runs : status[r] = "absent" /\ InsertRow(r, intent[c])
    BY <1>3 DEF InsertRun
  <2>2. RowsTypeOK'
    BY <1>1, <1>3, <2>1 DEF InsertRun, InsertRow, RowsTypeOK, Statuses
  <2>3. RowsStay
    BY <1>1, <2>1 DEF InsertRow, RowsTypeOK, RowsStay
  <2>4. QED BY <1>1, <2>2, <2>3, StayTyped
<1>4. CASE InsertRefused(c)
  BY <1>1, <1>4, StayTyped DEF InsertRefused, RowsTypeOK, rowVars, RowsStay
<1>5. QED BY <1>2, <1>3, <1>4 DEF Create

LEMMA ClaimedType ==
    ASSUME NEW r \in Runs
    PROVE  Claimed(r) \in Job /\ Claimed(r).run = r /\ Claimed(r).pc = "setup"
BY IdleType DEF Claimed, Job

LEMMA TypedClaim ==
    ASSUME Typed, NEW w \in Workers, Claim(w)
    PROVE  Typed'
<1>1. PICK r \in Runs : ClaimNext(w, r) /\ Go(w, Claimed(r))
  BY DEF Claim
<1>2. RowsTypeOK /\ UNCHANGED <<intent, faults>>
  BY DEF Claim, Typed, TypeOK
<1>3. RowsTypeOK' /\ RowsStay
  BY <1>1, <1>2, ClaimNextType, RowsKept
<1>4. status'[r] # "absent"
  BY <1>1 DEF ClaimNext
<1>5. QED BY <1>1, <1>2, <1>3, <1>4, ClaimedType, GoTyped, FaultsTyped

LEMMA TypedNext == Typed /\ [Next]_vars => Typed'
<1> SUFFICES ASSUME Typed, [Next]_vars PROVE Typed'
  OBVIOUS
<1>0. RowsTypeOK
  BY DEF Typed, TypeOK
<1>1. ASSUME NEW w \in Workers, Heartbeat(w) PROVE Typed'
  <2>1. job[w].run \in Runs
    BY <1>1, AtWork DEF Heartbeat
  <2>2. QED BY <1>0, <1>1, <2>1, RenewLeaseType, RowsKept, StayTyped, FaultsTyped DEF Heartbeat
<1>2. CASE Tick
  BY <1>0, <1>2, AgeLeasesType, RowsKept, StayTyped, FaultsTyped DEF Tick
<1>3. CASE Stall
  BY <1>0, <1>3, AgeLeasesType, RowsKept, StayTyped, FaultsTyped DEF Stall
<1>4. CASE UNCHANGED vars
  BY <1>4 DEF vars, Typed, TypeOK, RowsTypeOK, WorkersOnRuns
<1>5. ASSUME NEW w \in Workers, Step(w) PROVE Typed'
  BY <1>5, StepEffect, TypedSame, FaultsTyped
<1>6. ASSUME NEW w \in Workers, Faulty(w) PROVE Typed'
  BY <1>0, <1>6, FaultyEffect, TypedSame, FaultsTyped, ClaimNextType, RowsKept, StayTyped
<1>7. QED
  BY <1>1, <1>2, <1>3, <1>4, <1>5, <1>6, TypedCreate, TypedClaim DEF Next

LEMMA TypedAlways == Spec => []Typed
BY InitTyped, TypedNext, PTL DEF Spec

\* Every variable keeps its type: no request of a lost, crashed or stalled
\* worker writes a status, lease or verdict the columns do not have.
THEOREM TypeCorrect == Spec => []TypeOK
<1>1. Typed => TypeOK
  BY DEF Typed
<1>2. QED BY <1>1, TypedAlways, PTL

-----------------------------------------------------------------------------
(* What any step does to the table: nothing or one request. *)

RowEffect ==
    \/ UNCHANGED rowVars
    \/ \E r \in Runs, k \in Keys :
          /\ status[r] = "absent"
          /\ InsertRow(r, k)
          /\ UNCHANGED <<worker, lease, warned, report, reclaimed>>
    \/ \E w \in Workers, r \in Runs : ClaimNext(w, r)
    \/ \E w \in Workers, r \in Runs : RenewLease(w, r)
    \/ \E r \in Runs, b, a \in BOOLEAN : PatchWarnings(r, b, a)
    \/ \E w \in Workers : job[w].pc = "fwrite" /\ PatchOutcome(job[w].run, job[w].verdict)
    \/ \E r \in Runs : SaveReport(r)
    \/ AgeLeases

LEMMA EffectOfRequest ==
    ASSUME Typed, NEW w \in Workers, job[w].pc # "idle", OneRequest(w)
    PROVE  RowEffect
BY AtWork DEF OneRequest, RowEffect

LEMMA EffectOfNext ==
    ASSUME Typed, [Next]_vars
    PROVE  RowEffect
<1>1. ASSUME NEW c \in Clients, Create(c) PROVE RowEffect
  <2>1. CASE InsertRun(c)
    <3>1. intent[c] \in Keys
      BY <2>1 DEF InsertRun, Typed, TypeOK, RowsTypeOK
    <3>2. QED BY <2>1, <3>1 DEF InsertRun, RowEffect
  <2>2. CASE (\E k \in Keys : FindNoActive(c, k)) \/ InsertRefused(c)
    BY <2>2 DEF FindNoActive, InsertRefused, RowEffect
  <2>3. QED BY <1>1, <2>1, <2>2 DEF Create
<1>2. ASSUME NEW w \in Workers, Claim(w) PROVE RowEffect
  BY <1>2 DEF Claim, RowEffect
<1>3. ASSUME NEW w \in Workers, Step(w) PROVE RowEffect
  BY <1>3, StepEffect, EffectOfRequest DEF StaysOnRun
<1>4. ASSUME NEW w \in Workers, Heartbeat(w) PROVE RowEffect
  BY <1>4, AtWork DEF Heartbeat, RowEffect
<1>5. ASSUME NEW w \in Workers, Faulty(w) PROVE RowEffect
  <2>1. CASE StaysOnRun(w) /\ OneRequest(w)
    BY <2>1, EffectOfRequest DEF StaysOnRun
  <2>2. CASE \E r \in Runs : ClaimNext(w, r)
    BY <2>2 DEF RowEffect
  <2>3. QED BY <1>5, <2>1, <2>2, FaultyEffect
<1>6. CASE Tick \/ Stall
  BY <1>6 DEF Tick, Stall, RowEffect
<1>7. CASE UNCHANGED vars
  BY <1>7 DEF vars, rowVars, RowEffect
<1>8. QED BY <1>1, <1>2, <1>3, <1>4, <1>5, <1>6, <1>7 DEF Next

-----------------------------------------------------------------------------
(* At most one active run per key. *)

\* A request that makes no run active and changes no key keeps the invariant.
LEMMA FewerActive ==
    ASSUME OneActivePerKey, UNCHANGED key, \A r \in Runs : Active(r)' => Active(r)
    PROVE  OneActivePerKey'
BY DEF OneActivePerKey

LEMMA OneActiveNext ==
    ASSUME Typed, OneActivePerKey, RowEffect
    PROVE  OneActivePerKey'
<1>0. RowsTypeOK
  BY DEF Typed, TypeOK
<1>1. ASSUME NEW r \in Runs, NEW k \in Keys, InsertRow(r, k)
      PROVE  OneActivePerKey'
  BY <1>0, <1>1 DEF InsertRow, HasActive, OneActivePerKey, Active, RowsTypeOK
<1>2. ASSUME NEW w \in Workers, NEW r \in Runs, ClaimNext(w, r)
      PROVE  OneActivePerKey'
  <2>1. UNCHANGED key
    BY <1>2 DEF ClaimNext
  <2>2. \A x \in Runs : Active(x)' => Active(x)
    BY <1>2 DEF ClaimNext, Claimable, Expired, Active
  <2>3. QED BY <2>1, <2>2, FewerActive
<1>3. ASSUME NEW w \in Workers, job[w].pc = "fwrite", PatchOutcome(job[w].run, job[w].verdict)
      PROVE  OneActivePerKey'
  <2>1. job[w].verdict \in Terminal /\ job[w].run \in Runs
    BY <1>3, AtWork
  <2>2. UNCHANGED key /\ \A x \in Runs : Active(x)' => Active(x)
    BY <1>0, <1>3, <2>1 DEF PatchOutcome, Active, Terminal, RowsTypeOK
  <2>3. QED BY <2>2, FewerActive
<1>4. CASE UNCHANGED <<status, key>>
  BY <1>4 DEF OneActivePerKey, Active
<1>5. QED BY <1>1, <1>2, <1>3, <1>4 DEF RowEffect, rowVars, RenewLease, PatchWarnings,
     SaveReport, AgeLeases

\* Two requests to start a scan of one workspace and mode never both leave an
\* active run, however their reads and inserts interleave.
THEOREM OneActivePerKeyHolds == Spec => []OneActivePerKey
<1>1. Init => OneActivePerKey
  BY DEF Init, RowsInit, OneActivePerKey, Active
<1>2. Typed /\ OneActivePerKey /\ [Next]_vars => OneActivePerKey'
  BY EffectOfNext, OneActiveNext
<1>3. QED BY <1>1, <1>2, TypedAlways, PTL DEF Spec

-----------------------------------------------------------------------------
(* Status, worker and lease agree. *)

LEMMA LeaseShapeNext ==
    ASSUME Typed, LeaseShape, RowEffect
    PROVE  LeaseShape'
<1>0. RowsTypeOK
  BY DEF Typed, TypeOK
<1>1. ASSUME NEW r \in Runs, NEW k \in Keys, status[r] = "absent", InsertRow(r, k),
             UNCHANGED <<worker, lease>>
      PROVE  LeaseShape'
  BY <1>0, <1>1 DEF InsertRow, LeaseShape, RowsTypeOK, Terminal
<1>2. ASSUME NEW w \in Workers, NEW r \in Runs, ClaimNext(w, r)
      PROVE  LeaseShape'
  BY <1>0, <1>2 DEF ClaimNext, Expired, LeaseShape, RowsTypeOK, Terminal, NoLease
<1>3. ASSUME NEW w \in Workers, NEW r \in Runs, RenewLease(w, r)
      PROVE  LeaseShape'
  <2>1. RenewedLease(w) # NoLease
    BY RenewedLeaseType DEF NoLease
  <2>2. QED BY <1>0, <1>3, <2>1 DEF RenewLease, Renewable, Owns, LeaseShape, RowsTypeOK, Terminal
<1>4. ASSUME NEW w \in Workers, job[w].pc = "fwrite", PatchOutcome(job[w].run, job[w].verdict)
      PROVE  LeaseShape'
  <2>1. job[w].verdict \in Terminal /\ job[w].run \in Runs
    BY <1>4, AtWork
  <2>2. QED BY <1>0, <1>4, <2>1 DEF PatchOutcome, LeaseShape, RowsTypeOK, Terminal
<1>5. CASE AgeLeases
  <2>1. \A r \in Runs : lease'[r] = NoLease <=> lease[r] = NoLease
    BY <1>0, <1>5 DEF AgeLeases, Aged, RowsTypeOK, NoLease
  <2>2. QED BY <1>5, <2>1 DEF AgeLeases, LeaseShape
<1>6. CASE UNCHANGED <<status, worker, lease>>
  BY <1>6 DEF LeaseShape
<1>7. QED BY <1>1, <1>2, <1>3, <1>4, <1>5, <1>6 DEF RowEffect, rowVars, PatchWarnings, SaveReport

\* However the requests of lost, reclaimed and current workers interleave,
\* status, worker and lease of a row never disagree.
THEOREM LeaseShapeHolds == Spec => []LeaseShape
<1>1. Init => LeaseShape
  BY DEF Init, RowsInit, LeaseShape, Terminal
<1>2. Typed /\ LeaseShape /\ [Next]_vars => LeaseShape'
  BY EffectOfNext, LeaseShapeNext
<1>3. QED BY <1>1, <1>2, TypedAlways, PTL DEF Spec

-----------------------------------------------------------------------------
(* The detailed queue implements RunLifecycle. *)

LEMMA LifecycleInit == Init => Lifecycle!Init
BY DEF Init, RowsInit, Lifecycle!Init, Runs, Lifecycle!Runs

LEMMA LifecycleNext ==
    ASSUME Typed, RowEffect
    PROVE  [Lifecycle!Next]_<<status, key>>
<1> USE DEF Runs, Lifecycle!Runs, Terminal, Lifecycle!Terminal
<1>1. ASSUME NEW r \in Runs, NEW k \in Keys, status[r] = "absent", InsertRow(r, k)
      PROVE  Lifecycle!Next
  <2>1. Lifecycle!Submit(r, k)
    BY <1>1 DEF InsertRow, HasActive, Active, Lifecycle!Submit, Lifecycle!Active
  <2>2. QED BY <2>1 DEF Lifecycle!Next
<1>2. ASSUME NEW w \in Workers, NEW r \in Runs, ClaimNext(w, r)
      PROVE  Lifecycle!Next
  <2> DEFINE lost == {x \in Runs : Expired(x)}
  <2>1. Lifecycle!Dispatch(r, lost)
    BY <1>2 DEF ClaimNext, Claimable, Expired, Lifecycle!Dispatch
  <2>2. lost \in SUBSET Lifecycle!Runs
    OBVIOUS
  <2>3. QED BY <2>1, <2>2 DEF Lifecycle!Next
<1>3. ASSUME NEW w \in Workers, job[w].pc = "fwrite", PatchOutcome(job[w].run, job[w].verdict)
      PROVE  Lifecycle!Next
  <2>1. /\ job[w].verdict \in Terminal /\ job[w].run \in Runs
        /\ status[job[w].run] # "absent"
    BY <1>3, AtWork
  <2>2. Lifecycle!Settle(job[w].run, job[w].verdict)
    BY <1>3, <2>1 DEF PatchOutcome, Lifecycle!Settle
  <2>3. QED BY <2>1, <2>2 DEF Lifecycle!Next
<1>4. QED BY <1>1, <1>2, <1>3 DEF RowEffect, rowVars, RenewLease, PatchWarnings,
     SaveReport, AgeLeases

\* Leases, stalls, crashes and lost messages only ever show a user what
\* RunLifecycle allows: a settled run is never handed out again.
THEOREM LifecycleRefined == Spec => LifecycleSpec
<1>1. Typed /\ [Next]_vars => [Lifecycle!Next]_<<status, key>>
  BY EffectOfNext, LifecycleNext
<1>2. QED BY <1>1, LifecycleInit, TypedAlways, PTL DEF Spec, LifecycleSpec, Lifecycle!Spec

-----------------------------------------------------------------------------
(* Without faults a worker keeps the run it claimed. *)

\* What OwnershipUntilFault says of one worker.
Keeps(w) ==
    job[w].pc # "idle" =>
        /\ Owns(w, job[w].run)
        /\ \/ status[job[w].run] = "running" /\ lease[job[w].run] > 0
           \/ status[job[w].run] \in Terminal

\* The requests of a worker about its own run disturb no other worker's claim.
LEMMA KeepsOnRequest ==
    ASSUME Typed, SkewBelowLease, NEW w \in Workers, StaysOnRun(w) \/ UNCHANGED job,
           job[w].pc # "idle", OneRequest(w), \A v \in Workers : Keeps(v)
    PROVE  \A v \in Workers : Keeps(v)'
<1> DEFINE r == job[w].run
<1>0. RowsTypeOK /\ r \in Runs /\ job[w].verdict \in Terminal
  BY AtWork DEF Typed, TypeOK
<1>1. RenewedLease(w) > 0
  BY DEF RenewedLease, SkewBelowLease
<1>2. UNCHANGED worker
  BY DEF OneRequest, rowVars, RenewLease, PatchWarnings, PatchOutcome, SaveReport
<1>3. ASSUME NEW x \in Runs,
             (status[x] = "running" /\ lease[x] > 0) \/ status[x] \in Terminal
      PROVE  (status'[x] = "running" /\ lease'[x] > 0) \/ status'[x] \in Terminal
  BY <1>0, <1>1, <1>3 DEF OneRequest, rowVars, RenewLease, PatchWarnings, PatchOutcome,
     SaveReport, RowsTypeOK
<1>4. ASSUME NEW v \in Workers, job'[v].pc # "idle"
      PROVE  job[v].pc # "idle" /\ job'[v].run = job[v].run
  BY <1>4 DEF StaysOnRun, Go, Typed, TypeOK
<1>5. ASSUME NEW v \in Workers, job'[v].pc # "idle"
      PROVE  Keeps(v)'
  <2>1. job[v].run \in Runs
    BY <1>4, <1>5, AtWork
  <2>2. QED BY <1>2, <1>3, <1>4, <1>5, <2>1 DEF Keeps, Owns
<1>6. QED BY <1>5 DEF Keeps

LEMMA KeepsOnClaim ==
    ASSUME Typed, NEW w \in Workers, Claim(w), \A v \in Workers : Keeps(v)
    PROVE  \A v \in Workers : Keeps(v)'
<1>1. PICK r \in Runs : ClaimNext(w, r) /\ Go(w, Claimed(r))
  BY DEF Claim
<1>2. /\ status'[r] = "running" /\ worker'[r] = w /\ lease'[r] = LeaseTicks
      /\ job'[w] = Claimed(r)
  BY <1>1 DEF ClaimNext, Go, Typed, TypeOK
<1>3. Keeps(w)'
  BY <1>2, ClaimedType DEF Keeps, Owns
<1>4. ASSUME NEW v \in Workers, v # w, job[v].pc # "idle"
      PROVE  Keeps(v)'
  <2> DEFINE x == job[v].run
  <2>1. x \in Runs /\ job'[v] = job[v]
    BY <1>1, <1>4, AtWork DEF Go, Typed, TypeOK
  <2>2. ~Claimable(x)
    BY <1>4 DEF Keeps, Claimable, Expired, Terminal, NoLease
  <2>3. x # r /\ ~Expired(x)
    BY <1>1, <2>2 DEF ClaimNext, Claimable
  <2>4. UNCHANGED <<status[x], worker[x], lease[x]>>
    BY <1>1, <2>1, <2>3 DEF ClaimNext
  <2>5. QED BY <1>4, <2>1, <2>4 DEF Keeps, Owns
<1>5. ASSUME NEW v \in Workers, v # w, job[v].pc = "idle"
      PROVE  Keeps(v)'
  BY <1>1, <1>5 DEF Go, Typed, TypeOK, Keeps
<1>6. QED BY <1>3, <1>4, <1>5

LEMMA KeepsOnTick ==
    ASSUME Typed, Tick, \A v \in Workers : Keeps(v)
    PROVE  \A v \in Workers : Keeps(v)'
<1> SUFFICES ASSUME NEW v \in Workers, job[v].pc # "idle" PROVE Keeps(v)'
  BY DEF Tick, Keeps
<1> DEFINE r == job[v].run
<1>1. r \in Runs /\ lease[r] \in Nat \cup {NoLease}
  BY AtWork DEF Typed, TypeOK, RowsTypeOK
<1>2. UNCHANGED <<status, worker, job>> /\ lease'[r] = Aged(lease[r])
  BY <1>1 DEF Tick, AgeLeases
<1>3. ASSUME status[r] = "running", lease[r] > 0
      PROVE  lease'[r] > 0
  <2>1. Owns(v, r)
    BY DEF Keeps
  <2>2. lease[r] # 1
    BY <1>1, <1>3, <2>1 DEF Tick, HeartbeatDue, Drives, Renewable
  <2>3. QED BY <1>1, <1>2, <1>3, <2>2 DEF Aged, NoLease
<1>4. QED BY <1>2, <1>3 DEF Keeps, Owns

LEMMA KeepsOnCreate ==
    ASSUME Typed, NEW c \in Clients, Create(c), \A v \in Workers : Keeps(v)
    PROVE  \A v \in Workers : Keeps(v)'
<1> SUFFICES ASSUME NEW v \in Workers, job[v].pc # "idle" PROVE Keeps(v)'
  BY DEF Create, Keeps
<1>1. job[v].run \in Runs /\ status[job[v].run] # "absent"
  BY AtWork
<1>2. UNCHANGED <<worker, lease, job>>
  BY DEF Create, FindNoActive, InsertRun, InsertRefused, rowVars
<1>3. status'[job[v].run] = status[job[v].run]
  BY <1>1 DEF Create, FindNoActive, InsertRun, InsertRow, InsertRefused, rowVars, Typed,
     TypeOK, RowsTypeOK
<1>4. QED BY <1>2, <1>3 DEF Keeps, Owns

LEMMA OwnershipNext ==
    ASSUME Typed, OwnershipUntilFault, [Next]_vars
    PROVE  OwnershipUntilFault'
<1> SUFFICES ASSUME faults' = 0, SkewBelowLease
             PROVE  \A v \in Workers : Keeps(v)'
  BY DEF OwnershipUntilFault, SkewBelowLease, Keeps
<1>1. ~Fault
  BY DEF Fault, Typed, TypeOK
<1>2. faults = 0
  BY <1>1, StepEffect, FaultyEffect DEF Next, vars, Create, Claim, Heartbeat, Tick, Stall
<1>3. \A v \in Workers : Keeps(v)
  BY <1>2 DEF OwnershipUntilFault, Keeps
<1>4. ASSUME NEW w \in Workers, Step(w) PROVE \A v \in Workers : Keeps(v)'
  BY <1>3, <1>4, StepEffect, KeepsOnRequest DEF StaysOnRun
<1>5. ASSUME NEW w \in Workers, Heartbeat(w) PROVE \A v \in Workers : Keeps(v)'
  BY <1>3, <1>5, KeepsOnRequest DEF Heartbeat, OneRequest
<1>6. CASE UNCHANGED vars
  BY <1>3, <1>6 DEF vars, Keeps, Owns
<1>7. QED
  BY <1>1, <1>3, <1>4, <1>5, <1>6, KeepsOnClaim, KeepsOnTick, KeepsOnCreate, FaultyEffect
     DEF Next, Stall

LEMMA OwnershipAlways == Spec => []OwnershipUntilFault
<1>1. Init => OwnershipUntilFault
  BY DEF Init, OwnershipUntilFault, Idle
<1>2. Typed /\ OwnershipUntilFault /\ [Next]_vars => OwnershipUntilFault'
  BY OwnershipNext
<1>3. QED BY <1>1, <1>2, TypedAlways, PTL DEF Spec

\* Without a lost message, a crash or a stall, and with no clock a whole lease
\* behind, two workers never drive one run: the heartbeat protects the claim.
THEOREM SingleDriver == Spec => []SingleDriverUntilFault
<1>1. OwnershipUntilFault => SingleDriverUntilFault
  BY DEF OwnershipUntilFault, SingleDriverUntilFault, Drives, Owns
<1>2. QED BY <1>1, OwnershipAlways, PTL

-----------------------------------------------------------------------------
(* A worker past the report stage has its report stored.  The control       *)
(* operators first: each leads from a backed record to a backed one.        *)

LEMMA StageAt ==
    ASSUME NEW i \in 1..Len(Stages)
    PROVE  Stages[i] \in StageNames
OBVIOUS

\* Entering a stage is backed when every report stage before it is.
LEMMA EnterBacked ==
    ASSUME NEW j \in Job, NEW stored, NEW i \in 1..(Len(Stages) + 1),
           \A k \in 1..Len(Stages) : k < i /\ Stages[k] = "report" => stored[j.run]
    PROVE  Backed(Enter(j, i), stored)
<1> DEFINE n == Enter(j, i)
<1>1. Len(Stages) \in Nat
  OBVIOUS
<1>2. CASE i > Len(Stages)
  <2>1. n.pc = "fget" /\ n.ctx = "final" /\ n.pos = i /\ n.run = j.run
    BY <1>2 DEF Enter, Finish, Job
  <2>2. PICK k \in 1..Len(Stages) : Stages[k] = "report"
    OBVIOUS
  <2>3. stored[j.run]
    BY <1>1, <1>2, <2>2
  <2>4. QED BY <2>1, <2>3 DEF Backed, CallsNest, InStage
<1>3. CASE i <= Len(Stages)
  <2>1. /\ n.pc = "get" /\ n.pos = i /\ n.run = j.run
        /\ n.ctx = IF Skips(j.run, Stages[i]) THEN "done" ELSE "start"
    BY <1>1, <1>3 DEF Enter, Update, Job
  <2>2. ~Skips(j.run, "report")
    BY DEF Skips, RecallStages
  <2>3. n.ctx \in {"done", "start"} /\ (Stages[i] = "report" => n.ctx = "start")
    BY <2>1, <2>2
  <2>4. ReportPassed(n) => stored[j.run]
    BY <1>1, <1>3, <2>1, <2>3 DEF ReportPassed
  <2>5. i \in 1..Len(Stages)
    BY <1>1, <1>3
  <2>6. QED BY <2>1, <2>3, <2>4, <2>5 DEF Backed, CallsNest, InStage
<1>4. QED BY <1>1, <1>2, <1>3

LEMMA SoftBacked ==
    ASSUME NEW j \in Job, NEW stored, Backed(j, stored), InStage(j),
           Stages[j.pos] \in RecallStages \cup GuardedStages
    PROVE  Backed(Soft(j), stored)
<1> DEFINE n == Soft(j)
<1>1. n.pc = "get" /\ n.ctx = "soft" /\ n.pos = j.pos /\ n.run = j.run
  BY DEF Soft, Update, Job
<1>2. ReportPassed(n) => ReportPassed(j)
  BY <1>1 DEF ReportPassed
<1>3. QED BY <1>1, <1>2 DEF Backed, CallsNest, InStage

LEMMA DiagBacked ==
    ASSUME NEW j \in Job, NEW stored, Backed(j, stored), j.pc # "idle"
    PROVE  Backed(Diag(j), stored)
<1> DEFINE n == Diag(j)
<1>1. n.pc = "get" /\ n.ctx = "diag" /\ n.pos = j.pos /\ n.run = j.run
  BY DEF Diag, Update, Job
<1>2. ReportPassed(n) => ReportPassed(j)
  BY <1>1 DEF ReportPassed
<1>3. QED BY <1>1, <1>2 DEF Backed, CallsNest, InStage

LEMMA FinishFailedBacked ==
    ASSUME NEW j \in Job, NEW stored, Backed(j, stored), j.pc # "idle", NEW c \in {"catch", "runner"}
    PROVE  Backed(Finish(j, c, "failed"), stored)
<1> DEFINE n == Finish(j, c, "failed")
<1>1. n.pc = "fget" /\ n.ctx = c /\ n.pos = j.pos /\ n.run = j.run /\ n.verdict = "failed"
  BY DEF Finish, Job
<1>2. ReportPassed(n) => ReportPassed(j)
  BY <1>1 DEF ReportPassed
<1>3. QED BY <1>1, <1>2 DEF Backed, CallsNest, InStage

LEMMA CaughtBacked ==
    ASSUME NEW j \in Job, NEW stored, Backed(j, stored), j.pc # "idle"
    PROVE  Backed(Caught(j), stored)
BY FinishFailedBacked DEF Caught

LEMMA ToRunnerBacked ==
    ASSUME NEW j \in Job, NEW stored, Backed(j, stored), j.pc # "idle"
    PROVE  Backed(ToRunner(j), stored)
<1> DEFINE n == ToRunner(j)
<1>1. n.pc = "rget" /\ n.ctx = "runner" /\ n.pos = j.pos /\ n.run = j.run
  BY DEF ToRunner, Job
<1>2. ReportPassed(n) => ReportPassed(j)
  BY <1>1 DEF ReportPassed
<1>3. QED BY <1>1, <1>2 DEF Backed, CallsNest, InStage

LEMMA UnstartedBacked ==
    ASSUME NEW j, NEW stored, j.pos = 0, j.pc \in {"idle", "setup"}
    PROVE  Backed(j, stored)
<1>1. ~ReportPassed(j)
  BY DEF ReportPassed
<1>2. QED BY <1>1 DEF Backed, CallsNest, InStage

LEMMA ReturnedBacked ==
    ASSUME NEW j \in Job, NEW stored, Backed(j, stored), j.pc \in {"write", "fwrite"}
    PROVE  Backed(Returned(j), stored)
<1>1. CASE j.ctx = "start"
  <2> DEFINE n == Returned(j)
  <2>1. n.pc = "work" /\ n.ctx = "start" /\ n.pos = j.pos /\ n.run = j.run
    BY <1>1 DEF Returned, Job
  <2>2. (ReportPassed(n) => ReportPassed(j)) /\ InStage(j)
    BY <1>1, <2>1 DEF ReportPassed, Backed, CallsNest, InStage
  <2>3. QED BY <2>1, <2>2 DEF Backed, CallsNest, InStage
<1>2. CASE j.ctx \in {"done", "soft"}
  <2>1. InStage(j) /\ j.pos \in 1..Len(Stages)
    BY <1>2 DEF Backed, CallsNest, InStage
  <2>2. ASSUME NEW k \in 1..Len(Stages), k < j.pos + 1, Stages[k] = "report"
        PROVE  stored[j.run]
    <3>1. CASE k < j.pos
      BY <2>2, <3>1 DEF Backed, ReportPassed
    <3>2. CASE k = j.pos
      <4>1. j.ctx # "soft"
        BY <2>1, <2>2, <3>2 DEF Backed, RecallStages, GuardedStages
      <4>2. QED BY <1>2, <2>2, <3>2, <4>1 DEF Backed, ReportPassed
    <3>3. QED BY <2>1, <2>2, <3>1, <3>2
  <2>3. j.pos + 1 \in 1..(Len(Stages) + 1)
    BY <2>1
  <2>4. Returned(j) = Enter(j, j.pos + 1)
    BY <1>2 DEF Returned
  <2>5. Backed(Enter(j, j.pos + 1), stored)
    BY <2>2, <2>3, EnterBacked
  <2>6. QED BY <2>4, <2>5
<1>3. CASE j.ctx = "diag"
  BY <1>3, CaughtBacked DEF Returned
<1>4. CASE j.ctx = "catch"
  BY <1>4, ToRunnerBacked DEF Returned
<1>5. CASE j.ctx \in {"final", "runner"}
  BY <1>5, UnstartedBacked DEF Returned, Idle
<1>6. QED BY <1>1, <1>2, <1>3, <1>4, <1>5 DEF Job

LEMMA ThrownBacked ==
    ASSUME NEW j \in Job, NEW stored, Backed(j, stored), j.pc \notin {"idle", "setup", "work"}
    PROVE  Backed(Thrown(j), stored)
<1>1. CASE j.ctx = "done" /\ Stages[j.pos] \in GuardedStages
  <2>1. InStage(j)
    BY <1>1 DEF Backed, CallsNest, InStage, Job
  <2>2. QED BY <1>1, <2>1, SoftBacked DEF Thrown
<1>2. CASE j.ctx \in {"start", "done", "final"} /\ ~(j.ctx = "done" /\ Stages[j.pos] \in GuardedStages)
  BY <1>2, DiagBacked DEF Thrown
<1>3. CASE j.ctx \in {"soft", "diag"}
  BY <1>3, CaughtBacked DEF Thrown
<1>4. CASE j.ctx = "catch"
  BY <1>4, ToRunnerBacked DEF Thrown
<1>5. CASE j.ctx = "runner"
  BY <1>5, UnstartedBacked DEF Thrown, Idle
<1>6. QED BY <1>1, <1>2, <1>3, <1>4, <1>5 DEF Job

\* Storing more reports backs no fewer records.
LEMMA BackedGrows ==
    ASSUME NEW j, NEW stored, NEW more, Backed(j, stored),
           j.pc # "idle" => (stored[j.run] => more[j.run])
    PROVE  Backed(j, more)
BY DEF Backed

-----------------------------------------------------------------------------
(* No step leaves a record past the report stage without its report. *)

\* No request removes a report.
LEMMA ReportsStay ==
    ASSUME Typed, RowEffect, NEW r \in Runs, report[r]
    PROVE  report'[r]
BY DEF RowEffect, rowVars, InsertRow, ClaimNext, RenewLease, PatchWarnings, PatchOutcome,
       SaveReport, AgeLeases, Typed, TypeOK, RowsTypeOK

\* A backed record stays backed when it is idle or on the run of a worker.
LEMMA StaysBacked ==
    ASSUME Typed, RowEffect, NEW w \in Workers, NEW n, Backed(n, report),
           n.pc # "idle" => job[w].pc # "idle" /\ n.run = job[w].run
    PROVE  Backed(n, report')
BY ReportsStay, AtWork, BackedGrows

\* It is enough to look at the record that changes.
LEMMA BackedByGo ==
    ASSUME Typed, RowEffect, ProgressBacked, NEW w \in Workers, NEW n, Go(w, n),
           Backed(n, report')
    PROVE  ProgressBacked'
<1> SUFFICES ASSUME NEW v \in Workers PROVE Backed(job'[v], report')
  BY DEF ProgressBacked
<1>1. CASE v = w
  BY <1>1 DEF Go, Typed, TypeOK
<1>2. CASE v # w
  BY <1>2, StaysBacked DEF Go, Typed, TypeOK, ProgressBacked
<1>3. QED BY <1>1, <1>2

LEMMA BackedStep ==
    ASSUME Typed, ProgressBacked, NEW w \in Workers, Step(w)
    PROVE  ProgressBacked'
<1> DEFINE j == job[w]
<1>0. StaysOnRun(w) /\ RowEffect
  BY StepEffect, EffectOfRequest DEF StaysOnRun
<1>1. j.pc # "idle" /\ j \in Job /\ j.run \in Runs /\ Backed(j, report)
  BY <1>0, AtWork DEF StaysOnRun, ProgressBacked
<1>2. ASSUME NEW n \in Job, Go(w, n), n.pc # "idle" => n.run = j.run, Backed(n, report)
      PROVE  ProgressBacked'
  <2>1. Backed(n, report')
    BY <1>0, <1>1, <1>2, StaysBacked
  <2>2. QED BY <1>0, <1>2, <2>1, BackedByGo
<1>3. CASE Setup(w)
  <2>1. Backed(Enter(j, 1), report)
    BY <1>1, EnterBacked
  <2>2. QED BY <1>1, <1>2, <1>3, <2>1, EnterType, ToRunnerType, ToRunnerBacked DEF Setup
<1>4. CASE ReadForUpdate(w)
  <2> DEFINE n == [j EXCEPT !.pc = "renew", !.seen = warned[j.run]]
  <2>1. n \in Job /\ n.run = j.run /\ n.pos = j.pos /\ n.ctx = j.ctx /\ n.pc = "renew"
    BY <1>1 DEF Job, Typed, TypeOK, RowsTypeOK
  <2>2. Backed(n, report)
    BY <1>1, <1>4, <2>1 DEF ReadForUpdate, Backed, CallsNest, InStage, ReportPassed
  <2>3. CASE Owns(w, j.run)
    BY <1>2, <1>4, <2>1, <2>2, <2>3 DEF ReadForUpdate
  <2>4. CASE ~Owns(w, j.run)
    BY <1>1, <1>2, <1>4, <2>4, ThrownBacked, ThrownType DEF ReadForUpdate
  <2>5. QED BY <2>3, <2>4
<1>5. CASE RenewForUpdate(w)
  <2> DEFINE n == [j EXCEPT !.pc = "write"]
  <2>1. n \in Job /\ n.run = j.run /\ n.pos = j.pos /\ n.ctx = j.ctx /\ n.pc = "write"
    BY <1>1 DEF Job
  <2>2. Backed(n, report)
    BY <1>1, <1>5, <2>1 DEF RenewForUpdate, Backed, CallsNest, InStage, ReportPassed
  <2>3. QED BY <1>1, <1>2, <1>5, <2>1, <2>2, ThrownBacked, ThrownType DEF RenewForUpdate
<1>6. CASE WriteUpdate(w)
  BY <1>1, <1>2, <1>6, ReturnedBacked, ReturnedType DEF WriteUpdate
<1>7. CASE WorkSucceeds(w)
  <2> DEFINE n == Update(j, "done", FALSE)
  <2>1. n \in Job /\ n.run = j.run /\ n.pos = j.pos /\ n.ctx = "done" /\ n.pc = "get"
    BY <1>1 DEF Update, Job
  <2>2. Stages[j.pos] = "report" => report'[j.run]
    BY <1>1, <1>7 DEF WorkSucceeds, SaveReport, Typed, TypeOK, RowsTypeOK
  <2>3. report[j.run] => report'[j.run]
    BY <1>0, <1>1, ReportsStay
  <2>4. ReportPassed(n) => report'[j.run]
    <3>1. SUFFICES ASSUME NEW k \in 1..Len(Stages), Stages[k] = "report",
                          j.pos > k \/ j.pos = k
                   PROVE  report'[j.run]
      BY <2>1 DEF ReportPassed
    <3>2. CASE j.pos = k
      BY <2>2, <3>1, <3>2
    <3>3. CASE j.pos > k
      BY <1>1, <2>3, <3>1, <3>3 DEF Backed, ReportPassed
    <3>4. QED BY <3>1, <3>2, <3>3
  <2>5. InStage(j)
    BY <1>1, <1>7 DEF WorkSucceeds, InStage, Backed, CallsNest
  <2>6. Backed(n, report')
    BY <1>1, <2>1, <2>4, <2>5 DEF Backed, CallsNest, InStage
  <2>7. QED BY <1>0, <1>7, <2>6, BackedByGo DEF WorkSucceeds
<1>8. CASE WorkWarns(w)
  <2> DEFINE n == Update([j EXCEPT !.sad = TRUE], "done", TRUE)
  <2>1. n \in Job /\ n.run = j.run /\ n.pos = j.pos /\ n.ctx = "done" /\ n.pc = "get"
    BY <1>1 DEF Update, Job
  <2>2. Stages[j.pos] # "report" /\ j.pc = "work" /\ Go(w, n)
    BY <1>8 DEF WorkWarns, StageIs, WarningStages
  <2>3. ReportPassed(n) => ReportPassed(j)
    BY <2>1, <2>2 DEF ReportPassed
  <2>4. Backed(n, report)
    BY <1>1, <2>1, <2>2, <2>3 DEF InStage, Backed, CallsNest
  <2>5. QED BY <1>2, <2>1, <2>2, <2>4
<1>9. CASE WorkDegrades(w)
  <2>1. InStage(j) /\ Stages[j.pos] \in RecallStages \cup GuardedStages
    BY <1>1, <1>9 DEF WorkDegrades, StageIs, InStage, Backed, CallsNest
  <2>2. QED BY <1>1, <1>2, <1>9, <2>1, SoftBacked, SoftType DEF WorkDegrades
<1>10. CASE WorkFails(w)
  BY <1>1, <1>2, <1>10, DiagBacked, DiagType DEF WorkFails
<1>11. CASE ReadForFinish(w)
  <2> DEFINE n == [j EXCEPT !.pc = "fwrite"]
  <2>1. /\ n \in Job /\ n.run = j.run /\ n.pos = j.pos /\ n.ctx = j.ctx /\ n.pc = "fwrite"
        /\ n.verdict = j.verdict
    BY <1>1 DEF Job
  <2>2. Backed(n, report)
    BY <1>1, <1>11, <2>1 DEF ReadForFinish, Backed, CallsNest, InStage, ReportPassed
  <2>3. QED BY <1>1, <1>2, <1>11, <2>1, <2>2, ThrownBacked, ThrownType DEF ReadForFinish
<1>12. CASE WriteFinish(w)
  BY <1>1, <1>2, <1>12, ReturnedBacked, ReturnedType DEF WriteFinish
<1>13. CASE RunnerReads(w)
  <2>1. Finish(j, "runner", "failed") \in Job /\ Finish(j, "runner", "failed").run = j.run
    BY <1>1 DEF Finish, Job, Terminal
  <2>2. Backed(Finish(j, "runner", "failed"), report)
    BY <1>1, FinishFailedBacked
  <2>3. QED BY <1>2, <1>13, <2>1, <2>2, IdleType, UnstartedBacked DEF RunnerReads, Idle
<1>14. QED
  BY <1>3, <1>4, <1>5, <1>6, <1>7, <1>8, <1>9, <1>10, <1>11, <1>12, <1>13 DEF Step

LEMMA BackedNext ==
    ASSUME Typed, ProgressBacked, [Next]_vars
    PROVE  ProgressBacked'
<1>0. RowEffect
  BY EffectOfNext
<1>1. ASSUME UNCHANGED job PROVE ProgressBacked'
  BY <1>0, <1>1, StaysBacked DEF ProgressBacked
<1>2. ASSUME NEW w \in Workers, Claim(w) PROVE ProgressBacked'
  <2>1. PICK r \in Runs : Go(w, Claimed(r))
    BY <1>2 DEF Claim
  <2>2. Claimed(r).pos = 0 /\ Claimed(r).pc = "setup"
    BY DEF Claimed, Idle
  <2>3. Backed(Claimed(r), report')
    BY <2>2, UnstartedBacked
  <2>4. QED BY <1>0, <2>1, <2>3, BackedByGo
<1>3. ASSUME NEW w \in Workers, Faulty(w) PROVE ProgressBacked'
  <2> DEFINE j == job[w]
  <2>1. CASE UNCHANGED job
    BY <1>1, <2>1
  <2>2. CASE j.pc \notin {"idle", "setup", "work"} /\ Go(w, Thrown(j))
    <3>1. Thrown(j) \in Job /\ (Thrown(j).pc # "idle" => Thrown(j).run = j.run)
      BY <2>2, AtWork, ThrownType
    <3>2. Backed(Thrown(j), report)
      BY <2>2, AtWork, ThrownBacked DEF ProgressBacked
    <3>3. Backed(Thrown(j), report')
      BY <1>0, <2>2, <3>1, <3>2, StaysBacked
    <3>4. QED BY <1>0, <2>2, <3>3, BackedByGo
  <2>3. CASE Go(w, Idle)
    BY <1>0, <2>3, UnstartedBacked, BackedByGo DEF Idle
  <2>4. QED BY <1>3, <2>1, <2>2, <2>3 DEF Faulty, RequestLost, AnswerLost, ClaimAnswerLost, Crash
<1>4. QED BY <1>1, <1>2, <1>3, BackedStep DEF Next, Create, Heartbeat, Tick, Stall, vars

\* finish is called with completed or partial only past the report stage.
LEMMA OutcomeNext ==
    ASSUME Typed, ProgressBacked, OutcomeBacked, RowEffect
    PROVE  OutcomeBacked'
<1> SUFFICES ASSUME NEW r \in Runs, status'[r] \in {"completed", "partial"}
             PROVE  report'[r]
  BY DEF OutcomeBacked
<1>0. RowsTypeOK
  BY DEF Typed, TypeOK
<1>1. CASE status[r] = status'[r]
  BY <1>1, ReportsStay DEF OutcomeBacked
<1>2. CASE status[r] # status'[r]
  <2>1. PICK w \in Workers : /\ job[w].pc = "fwrite" /\ job[w].run = r
                             /\ PatchOutcome(r, job[w].verdict)
    BY <1>0, <1>2, ZenonT(30) DEF RowEffect, rowVars, InsertRow, ClaimNext, RenewLease, PatchWarnings,
       PatchOutcome, SaveReport, AgeLeases, RowsTypeOK
  <2>2. job[w].verdict # "failed"
    BY <1>0, <2>1 DEF PatchOutcome, RowsTypeOK
  <2>3. QED BY <2>1, <2>2, ReportsStay DEF ProgressBacked, Backed
<1>3. QED BY <1>1, <1>2

\* A run reads completed or partial only when its report is stored: degraded
\* stages, diagnostic updates, lost answers and the finish of a worker that has
\* lost the run cannot produce an outcome without a report.
THEOREM OutcomeBackedHolds == Spec => []OutcomeBacked
<1>1. Init => ProgressBacked /\ OutcomeBacked
  <2>1. Backed(Idle, report)
    BY UnstartedBacked DEF Idle
  <2>2. QED BY <2>1 DEF Init, RowsInit, ProgressBacked, OutcomeBacked
<1>2. Typed /\ ProgressBacked /\ [Next]_vars => ProgressBacked'
  BY BackedNext
<1>3. Typed /\ ProgressBacked /\ OutcomeBacked /\ [Next]_vars => OutcomeBacked'
  BY EffectOfNext, OutcomeNext
<1>4. QED BY <1>1, <1>2, <1>3, TypedAlways, PTL DEF Spec

-----------------------------------------------------------------------------
(* The row's warnings and the worker's own list.  As long as a run was      *)
(* never put back, one worker alone writes what the row says of it.         *)

\* A call that can only end in failure.
Failing(j) == j.ctx \in {"diag", "catch", "runner"}

\* An update that carries a warning has not been written yet.
Warning(j) == j.pc \in {"get", "renew", "write"} /\ j.ctx \in {"done", "soft"} /\ j.warn

\* What a worker knows of the warnings of a run nobody else ever drove: told is what
\* the row says of them, running that it runs.
Candid(j, told, running) ==
    /\ j.pc = "setup" => j.ctx = "start"
    /\ j.pc \in {"renew", "write"} => j.seen = told
    /\ j.pc = "write" => running
    /\ j.pc \in {"fget", "fwrite"} /\ j.ctx \in {"catch", "runner"} => j.verdict = "failed"
    /\ Failing(j) \/ /\ running
                     /\ told => j.sad
                     /\ j.sad => told \/ Warning(j)
                     /\ j.pc \in {"get", "renew", "write"} /\ j.warn => Warning(j) /\ j.sad
                     /\ j.ctx = "final" => j.verdict = Verdict(j)

Alone(w) ==
    LET j == job[w] IN
    j.pc # "idle" /\ ~reclaimed[j.run] =>
        /\ Owns(w, j.run)
        /\ status[j.run] # "queued"
        /\ Candid(j, warned[j.run], status[j.run] = "running")

RowTold(r) == ~reclaimed[r] =>
    /\ status[r] \in {"absent", "queued"} => ~warned[r]
    /\ status[r] = "completed" => ~warned[r]
    /\ status[r] = "partial" => warned[r]

WarningsTold == (\A w \in Workers : Alone(w)) /\ (\A r \in Runs : RowTold(r))

LEMMA EnterCandid ==
    ASSUME NEW j \in Job, NEW i \in Nat, NEW told \in BOOLEAN, j.sad = told
    PROVE  Candid(Enter(j, i), told, TRUE)
<1> DEFINE n == Enter(j, i)
<1>1. CASE i > Len(Stages)
  <2>1. n.pc = "fget" /\ n.ctx = "final" /\ n.sad = j.sad /\ n.verdict = Verdict(j)
    BY <1>1 DEF Enter, Finish, Job
  <2>2. Verdict(n) = Verdict(j)
    BY <2>1 DEF Verdict
  <2>3. QED BY <2>1, <2>2 DEF Candid
<1>2. CASE ~(i > Len(Stages))
  <2>1. n.pc = "get" /\ n.ctx \in {"start", "done"} /\ n.sad = j.sad /\ n.warn = FALSE
    BY <1>2 DEF Enter, Update, Job
  <2>2. QED BY <2>1 DEF Candid
<1>3. QED BY <1>1, <1>2

\* What carries a warning is on its way, whatever the row says meanwhile.
LEMMA SoftCandid ==
    ASSUME NEW j \in Job, NEW told
    PROVE  Candid(Soft(j), told, TRUE)
<1>1. Soft(j).pc = "get" /\ Soft(j).ctx = "soft" /\ Soft(j).sad = TRUE /\ Soft(j).warn = TRUE
  BY DEF Soft, Update, Job
<1>2. QED BY <1>1 DEF Candid, Warning

LEMMA FailingCandid ==
    ASSUME NEW j \in Job, NEW told, NEW running
    PROVE  /\ Candid(Diag(j), told, running)
           /\ Candid(Caught(j), told, running)
           /\ Candid(ToRunner(j), told, running)
           /\ Candid(Finish(j, "runner", "failed"), told, running)
<1>1. Diag(j).pc = "get" /\ Diag(j).ctx = "diag"
  BY DEF Diag, Update, Job
<1>2. Caught(j).pc = "fget" /\ Caught(j).ctx = "catch" /\ Caught(j).verdict = "failed"
  BY DEF Caught, Finish, Job
<1>3. ToRunner(j).pc = "rget" /\ ToRunner(j).ctx = "runner"
  BY DEF ToRunner, Job
<1>4. /\ Finish(j, "runner", "failed").pc = "fget" /\ Finish(j, "runner", "failed").ctx = "runner"
      /\ Finish(j, "runner", "failed").verdict = "failed"
  BY DEF Finish, Job
<1>5. QED BY <1>1, <1>2, <1>3, <1>4 DEF Candid, Failing

\* Whatever throws: the run fails, or its worker takes a warning down.
LEMMA ThrownCandid ==
    ASSUME NEW j \in Job, NEW told, NEW running, j.ctx = "done" => running,
           Thrown(j).pc # "idle"
    PROVE  Candid(Thrown(j), told, running)
<1>1. CASE j.ctx = "done" /\ Stages[j.pos] \in GuardedStages
  BY <1>1, SoftCandid DEF Thrown, Candid
<1>2. CASE j.ctx \in {"start", "done", "final"} /\ ~(j.ctx = "done" /\ Stages[j.pos] \in GuardedStages)
  BY <1>2, FailingCandid DEF Thrown
<1>3. CASE j.ctx \in {"soft", "diag"}
  BY <1>3, FailingCandid DEF Thrown
<1>4. CASE j.ctx = "catch"
  BY <1>4, FailingCandid DEF Thrown
<1>5. CASE j.ctx = "runner"
  BY <1>5 DEF Thrown, Idle
<1>6. QED BY <1>1, <1>2, <1>3, <1>4, <1>5 DEF Job

\* An update was written: the row has the warning it carried.
LEMMA WrittenCandid ==
    ASSUME NEW j \in Job, CallsNest(j), j.pc = "write", NEW told \in BOOLEAN, Candid(j, told, TRUE)
    PROVE  Candid(Returned(j), j.seen \/ j.warn, TRUE)
<1>0. j.seen = told /\ j.seen \in BOOLEAN /\ j.warn \in BOOLEAN /\ j.sad \in BOOLEAN
  BY DEF Candid, Job
<1>1. CASE j.ctx = "start"
  <2>1. Returned(j).pc = "work" /\ Returned(j).ctx = "start" /\ Returned(j).sad = j.sad
    BY <1>1 DEF Returned, Job
  <2>2. j.sad = (told \/ j.warn)
    BY <1>0, <1>1 DEF Candid, Failing, Warning
  <2>3. QED BY <1>0, <2>1, <2>2 DEF Candid
<1>2. CASE j.ctx \in {"done", "soft"}
  <2>1. j.sad = (told \/ j.warn) /\ j.pos + 1 \in Nat
    BY <1>0, <1>2 DEF Candid, Failing, Warning, Job
  <2>2. QED BY <1>0, <1>2, <2>1, EnterCandid DEF Returned
<1>3. CASE j.ctx = "diag"
  BY <1>3, FailingCandid DEF Returned
<1>4. QED BY <1>1, <1>2, <1>3 DEF CallsNest

\* finish was written: what is left of the call can only fail.
LEMMA FinishedCandid ==
    ASSUME NEW j \in Job, CallsNest(j), j.pc = "fwrite", NEW told, NEW running, Returned(j).pc # "idle"
    PROVE  Candid(Returned(j), told, running)
<1>1. CASE j.ctx = "catch"
  BY <1>1, FailingCandid DEF Returned
<1>2. CASE j.ctx \in {"final", "runner"}
  BY <1>2 DEF Returned, Idle
<1>3. QED BY <1>1, <1>2 DEF CallsNest

-----------------------------------------------------------------------------
(* What a request about one run means for that run and for the others. *)

SameRow(r) == /\ status'[r] = status[r] /\ worker'[r] = worker[r] /\ warned'[r] = warned[r]
              /\ reclaimed[r] => reclaimed'[r]

LEMMA AloneStays ==
    ASSUME NEW v \in Workers, Alone(v), job'[v] = job[v],
           job[v].pc # "idle" => reclaimed'[job[v].run] \/ SameRow(job[v].run)
    PROVE  Alone(v)'
BY DEF Alone, Owns, SameRow

LEMMA RowToldStays ==
    ASSUME NEW r \in Runs, RowTold(r), reclaimed'[r] \/ SameRow(r)
    PROVE  RowTold(r)'
BY DEF RowTold, SameRow

LEMMA RequestSparesOthers ==
    ASSUME Typed, NEW w \in Workers, job[w].pc # "idle", OneRequest(w)
    PROVE  /\ UNCHANGED <<worker, reclaimed>>
           /\ \A r \in Runs : r # job[w].run => SameRow(r)
<1>1. RowsTypeOK /\ job[w].run \in Runs
  BY AtWork DEF Typed, TypeOK
<1>2. UNCHANGED <<worker, reclaimed>>
  BY DEF OneRequest, rowVars, RenewLease, PatchWarnings, PatchOutcome, SaveReport
<1>3. ASSUME NEW r \in Runs, r # job[w].run PROVE status'[r] = status[r] /\ warned'[r] = warned[r]
  BY <1>1, <1>3 DEF OneRequest, rowVars, RenewLease, PatchWarnings, PatchOutcome, SaveReport, RowsTypeOK
<1>4. QED BY <1>2, <1>3 DEF SameRow

\* The row of a run that was never put back after a request of its worker.
LEMMA RequestTellsRow ==
    ASSUME Typed, ProgressBacked, WarningsTold, NEW w \in Workers, job[w].pc # "idle", OneRequest(w),
           NEW r \in Runs, r = job[w].run, ~reclaimed[r]
    PROVE  RowTold(r)' /\ status'[r] # "queued"
<1> DEFINE j == job[w]
<1>1. RowsTypeOK /\ j \in Job /\ r \in Runs /\ j.verdict \in Terminal /\ CallsNest(j) /\ RowTold(r)
  BY AtWork DEF Typed, TypeOK, ProgressBacked, Backed, WarningsTold
<1>2. status[r] # "queued" /\ status[r] # "absent" /\ Candid(j, warned[r], status[r] = "running")
  BY AtWork DEF WarningsTold, Alone
<1>3. CASE status'[r] = status[r] /\ warned'[r] = warned[r]
  BY <1>1, <1>2, <1>3, RequestSparesOthers DEF RowTold
<1>4. CASE j.pc = "write" /\ PatchWarnings(r, j.seen, j.warn)
  <2>1. status'[r] = "running"
    BY <1>2, <1>4 DEF Candid, PatchWarnings
  <2>2. QED BY <2>1 DEF RowTold
<1>5. CASE j.pc = "fwrite" /\ PatchOutcome(r, j.verdict)
  <2>1. status'[r] = j.verdict /\ warned'[r] = warned[r]
    BY <1>1, <1>5 DEF PatchOutcome, RowsTypeOK
  <2>2. CASE j.verdict = "failed"
    BY <2>1, <2>2 DEF RowTold
  <2>3. CASE j.verdict # "failed"
    <3>1. j.ctx = "final"
      BY <1>1, <1>2, <1>5, <2>3 DEF CallsNest, Candid
    <3>2. j.verdict = (IF warned[r] THEN "partial" ELSE "completed")
      <4>1. warned[r] \in BOOLEAN /\ j.sad \in BOOLEAN
        BY <1>1 DEF RowsTypeOK, Job
      <4>2. (warned[r] => j.sad) /\ (j.sad => warned[r])
        BY <1>2, <1>5, <3>1 DEF Candid, Failing, Warning
      <4>3. QED BY <1>2, <3>1, <4>1, <4>2 DEF Candid, Failing, Verdict
    <3>3. QED BY <2>1, <3>2 DEF RowTold
  <2>4. QED BY <1>1, <2>1, <2>2, <2>3 DEF Terminal
<1>6. QED
  BY <1>1, <1>3, <1>4, <1>5 DEF OneRequest, rowVars, RenewLease, SaveReport

\* It is enough to look at the record that changes.
LEMMA ToldByGo ==
    ASSUME Typed, ProgressBacked, WarningsTold, NEW w \in Workers, job[w].pc # "idle", OneRequest(w),
           NEW n, Go(w, n), n.pc # "idle" => n.run = job[w].run,
           n.pc # "idle" /\ ~reclaimed[job[w].run]
               => Candid(n, warned'[job[w].run], status'[job[w].run] = "running")
    PROVE  WarningsTold'
<1> DEFINE r == job[w].run
<1>0. r \in Runs /\ UNCHANGED <<worker, reclaimed>>
  BY AtWork, RequestSparesOthers
<1>1. ASSUME NEW v \in Workers PROVE Alone(v)'
  <2>1. CASE v = w
    <3>1. job'[w] = n
      BY DEF Go, Typed, TypeOK
    <3>2. SUFFICES ASSUME n.pc # "idle", ~reclaimed[r]
                   PROVE  worker'[r] = w /\ status'[r] # "queued"
                          /\ Candid(n, warned'[r], status'[r] = "running")
      BY <1>0, <2>1, <3>1 DEF Alone, Owns
    <3>3. worker[r] = w
      BY <3>2 DEF WarningsTold, Alone, Owns
    <3>4. QED BY <1>0, <3>2, <3>3, RequestTellsRow
  <2>2. CASE v # w
    <3>1. Alone(v) /\ job'[v] = job[v]
      BY <2>2 DEF WarningsTold, Go, Typed, TypeOK
    <3>2. ASSUME job[v].pc # "idle", ~reclaimed[job[v].run] PROVE SameRow(job[v].run)
      <4>1. job[v].run # r
        BY <2>2, <3>2 DEF WarningsTold, Alone, Owns
      <4>2. job[v].run \in Runs
        BY <3>2, AtWork
      <4>3. QED BY <4>1, <4>2, RequestSparesOthers
    <3>3. QED BY <1>0, <3>1, <3>2, AloneStays
  <2>3. QED BY <2>1, <2>2
<1>2. ASSUME NEW x \in Runs PROVE RowTold(x)'
  <2>1. CASE x # r
    BY <2>1, RequestSparesOthers, RowToldStays DEF WarningsTold
  <2>2. CASE reclaimed[x]
    BY <1>0, <2>2 DEF RowTold
  <2>3. CASE x = r /\ ~reclaimed[x]
    BY <2>3, RequestTellsRow
  <2>4. QED BY <2>1, <2>2, <2>3
<1>3. QED BY <1>1, <1>2 DEF WarningsTold

LEMMA ToldStep ==
    ASSUME Typed, ProgressBacked, WarningsTold, NEW w \in Workers, Step(w)
    PROVE  WarningsTold'
<1> DEFINE j == job[w]
           r == j.run
           told == warned[r]
<1>0. StaysOnRun(w) /\ OneRequest(w)
  BY StepEffect
<1>1. /\ RowsTypeOK /\ j.pc # "idle" /\ j \in Job /\ r \in Runs /\ CallsNest(j) /\ j.pos \in Nat
      /\ told \in BOOLEAN /\ j.sad \in BOOLEAN
  BY <1>0, AtWork DEF StaysOnRun, Typed, TypeOK, RowsTypeOK, ProgressBacked, Backed, Job
<1>2. ~reclaimed[r] => Owns(w, r) /\ Candid(j, told, status[r] = "running")
  BY <1>1 DEF WarningsTold, Alone
<1>3. ASSUME NEW n \in Job, Go(w, n), n.pc # "idle" => n.run = r,
             UNCHANGED <<status, warned>>,
             n.pc # "idle" /\ ~reclaimed[r] => Candid(n, told, status[r] = "running")
      PROVE  WarningsTold'
  BY <1>0, <1>1, <1>3, ToldByGo
<1>4. CASE Setup(w)
  <2>1. UNCHANGED <<status, warned>>
    BY <1>4 DEF Setup, rowVars
  <2>2. ~reclaimed[r] /\ ~Failing(j) => j.sad = told /\ (status[r] = "running")
    BY <1>1, <1>2, <1>4 DEF Setup, Candid, Warning
  <2>3. ~reclaimed[r] => ~Failing(j)
    BY <1>2, <1>4 DEF Setup, Candid, Failing
  <2>4. ~reclaimed[r] => Candid(Enter(j, 1), told, status[r] = "running")
    <3>1. SUFFICES ASSUME ~reclaimed[r] PROVE Candid(Enter(j, 1), told, TRUE)
      BY <2>2, <2>3
    <3>2. j.sad = told /\ 1 \in Nat
      BY <2>2, <2>3, <3>1
    <3>3. \A n \in Job, b \in BOOLEAN : n.sad = b => Candid(Enter(n, 1), b, TRUE)
      BY <3>2, EnterCandid, ZenonT(30)
    <3>4. QED BY <1>1, <3>2, <3>3, Zenon
  <2>5. CASE Go(w, Enter(j, 1))
    BY <1>1, <1>3, <2>1, <2>4, <2>5, EnterType
  <2>6. CASE Go(w, ToRunner(j))
    BY <1>1, <1>3, <2>1, <2>6, ToRunnerType, FailingCandid
  <2>7. QED BY <1>4, <2>5, <2>6 DEF Setup
<1>5. CASE ReadForUpdate(w)
  <2> DEFINE n == [j EXCEPT !.pc = "renew", !.seen = warned[j.run]]
  <2>1. UNCHANGED <<status, warned>> /\ j.pc = "get"
    BY <1>5 DEF ReadForUpdate, rowVars
  <2>2. /\ n \in Job /\ n.run = r /\ n.ctx = j.ctx /\ n.pc = "renew" /\ n.seen = told
        /\ n.sad = j.sad /\ n.warn = j.warn /\ n.verdict = j.verdict
    BY <1>1 DEF Job
  <2>3. Candid(j, told, status[r] = "running") => Candid(n, told, status[r] = "running")
    BY <2>1, <2>2 DEF Candid, Failing, Warning, Verdict
  <2>4. CASE Owns(w, r)
    BY <1>2, <1>3, <1>5, <2>1, <2>2, <2>3, <2>4 DEF ReadForUpdate
  <2>5. CASE ~Owns(w, r)
    BY <1>1, <1>2, <1>3, <1>5, <2>1, <2>5, ThrownType DEF ReadForUpdate
  <2>6. QED BY <2>4, <2>5
<1>6. CASE RenewForUpdate(w)
  <2> DEFINE n == [j EXCEPT !.pc = "write"]
  <2>1. UNCHANGED <<status, warned>> /\ j.pc = "renew"
    BY <1>6 DEF RenewForUpdate, RenewLease, rowVars
  <2>2. /\ n \in Job /\ n.run = r /\ n.ctx = j.ctx /\ n.pc = "write" /\ n.seen = j.seen
        /\ n.sad = j.sad /\ n.warn = j.warn /\ n.verdict = j.verdict
    BY <1>1 DEF Job
  <2>3. CASE RenewLease(w, r) /\ Go(w, n)
    <3>1. status[r] = "running"
      BY <2>3 DEF RenewLease, Renewable
    <3>2. Candid(j, told, status[r] = "running") => Candid(n, told, status[r] = "running")
      BY <2>1, <2>2, <3>1 DEF Candid, Failing, Warning, Verdict
    <3>3. QED BY <1>2, <1>3, <2>1, <2>2, <2>3, <3>2
  <2>4. CASE ~Renewable(w, r) /\ Go(w, Thrown(j))
    <3>1. ~reclaimed[r] /\ j.ctx = "done" => status[r] = "running"
      BY <1>2 DEF Candid, Failing
    <3>2. QED BY <1>1, <1>3, <2>1, <2>4, <3>1, ThrownType, ThrownCandid
  <2>5. QED BY <1>6, <2>3, <2>4 DEF RenewForUpdate
<1>7. CASE WriteUpdate(w)
  <2>1. j.pc = "write" /\ PatchWarnings(r, j.seen, j.warn) /\ Go(w, Returned(j))
    BY <1>7 DEF WriteUpdate
  <2>2. warned'[r] = (j.seen \/ j.warn) /\ status' = status
    BY <1>1, <2>1 DEF PatchWarnings, RowsTypeOK
  <2>3. ~reclaimed[r] => status[r] = "running"
    BY <1>2, <2>1 DEF Candid
  <2>4. ~reclaimed[r] => Candid(Returned(j), warned'[r], status'[r] = "running")
    <3>1. SUFFICES ASSUME ~reclaimed[r] PROVE Candid(Returned(j), j.seen \/ j.warn, TRUE)
      BY <2>2, <2>3
    <3>2. Candid(j, told, TRUE)
      BY <1>2, <2>3, <3>1
    <3>3. QED BY <1>1, <2>1, <3>2, WrittenCandid
  <2>5. QED BY <1>0, <1>1, <2>1, <2>4, ReturnedType, ToldByGo
<1>8. CASE WorkSucceeds(w)
  <2> DEFINE n == Update(j, "done", FALSE)
  <2>1. UNCHANGED <<status, warned>> /\ j.pc = "work" /\ Go(w, n)
    BY <1>8 DEF WorkSucceeds, SaveReport, rowVars
  <2>2. n \in Job /\ n.run = r /\ n.ctx = "done" /\ n.pc = "get" /\ n.sad = j.sad /\ n.warn = FALSE
    BY <1>1 DEF Update, Job
  <2>3. Candid(j, told, status[r] = "running") => Candid(n, told, status[r] = "running")
    BY <1>1, <2>1, <2>2 DEF Candid, Failing, Warning, CallsNest
  <2>4. QED BY <1>2, <1>3, <2>1, <2>2, <2>3
<1>9. CASE WorkWarns(w)
  <2> DEFINE n == Update([j EXCEPT !.sad = TRUE], "done", TRUE)
  <2>1. UNCHANGED <<status, warned>> /\ j.pc = "work" /\ Go(w, n)
    BY <1>9 DEF WorkWarns, StageIs, rowVars
  <2>2. n \in Job /\ n.run = r /\ n.ctx = "done" /\ n.pc = "get" /\ n.sad = TRUE /\ n.warn = TRUE
    BY <1>1 DEF Update, Job
  <2>3. Candid(j, told, status[r] = "running") => Candid(n, told, status[r] = "running")
    BY <1>1, <2>1, <2>2 DEF Candid, Failing, Warning, CallsNest
  <2>4. QED BY <1>2, <1>3, <2>1, <2>2, <2>3
<1>10. CASE WorkDegrades(w)
  <2>1. UNCHANGED <<status, warned>> /\ j.pc = "work" /\ Go(w, Soft(j))
    BY <1>10 DEF WorkDegrades, StageIs, rowVars
  <2>2. ~reclaimed[r] => status[r] = "running"
    BY <1>1, <1>2, <2>1 DEF Candid, Failing, CallsNest
  <2>3. ~reclaimed[r] => Candid(Soft(j), told, status[r] = "running")
    BY <1>1, <2>2, SoftCandid
  <2>4. QED BY <1>1, <1>3, <2>1, <2>3, SoftType
<1>11. CASE WorkFails(w)
  <2>1. UNCHANGED <<status, warned>> /\ Go(w, Diag(j))
    BY <1>11 DEF WorkFails, SaveReport, rowVars
  <2>2. QED BY <1>1, <1>3, <2>1, FailingCandid, DiagType
<1>12. CASE ReadForFinish(w)
  <2> DEFINE n == [j EXCEPT !.pc = "fwrite"]
  <2>1. UNCHANGED <<status, warned>> /\ j.pc = "fget"
    BY <1>12 DEF ReadForFinish, rowVars
  <2>2. /\ n \in Job /\ n.run = r /\ n.ctx = j.ctx /\ n.pc = "fwrite"
        /\ n.sad = j.sad /\ n.warn = j.warn /\ n.verdict = j.verdict
    BY <1>1 DEF Job
  <2>3. Candid(j, told, status[r] = "running") => Candid(n, told, status[r] = "running")
    BY <2>1, <2>2 DEF Candid, Failing, Warning, Verdict
  <2>4. CASE Owns(w, r)
    BY <1>2, <1>3, <1>12, <2>1, <2>2, <2>3, <2>4 DEF ReadForFinish
  <2>5. CASE ~Owns(w, r)
    BY <1>1, <1>2, <1>3, <1>12, <2>1, <2>5, ThrownType DEF ReadForFinish
  <2>6. QED BY <2>4, <2>5
<1>13. CASE WriteFinish(w)
  <2>1. j.pc = "fwrite" /\ Go(w, Returned(j))
    BY <1>13 DEF WriteFinish
  <2>2. QED BY <1>0, <1>1, <2>1, ReturnedType, FinishedCandid, ToldByGo
<1>14. CASE RunnerReads(w)
  <2>1. Finish(j, "runner", "failed") \in Job /\ Finish(j, "runner", "failed").run = r
    BY <1>1 DEF Finish, Job, Terminal
  <2>2. UNCHANGED <<status, warned>> /\ Idle.pc = "idle"
    BY <1>14 DEF RunnerReads, rowVars, Idle
  <2>3. QED BY <1>1, <1>3, <1>14, <2>1, <2>2, IdleType, FailingCandid DEF RunnerReads
<1>15. QED
  BY <1>4, <1>5, <1>6, <1>7, <1>8, <1>9, <1>10, <1>11, <1>12, <1>13, <1>14 DEF Step

LEMMA ToldFaulty ==
    ASSUME Typed, ProgressBacked, WarningsTold, NEW w \in Workers, RequestLost(w) \/ AnswerLost(w) \/ Crash(w)
    PROVE  WarningsTold'
<1> DEFINE j == job[w]
           r == j.run
<1>1. CASE Crash(w)
  <2>1. j.pc # "idle" /\ Go(w, Idle) /\ OneRequest(w) /\ Idle.pc = "idle"
    BY <1>1 DEF Crash, OneRequest, Idle
  <2>2. QED BY <2>1, ToldByGo
<1>2. CASE RequestLost(w) \/ AnswerLost(w)
  <2>1. j.pc # "idle" /\ Go(w, Thrown(j)) /\ OneRequest(w)
        /\ j.pc \notin {"setup", "work"}
    BY <1>2 DEF RequestLost, AnswerLost, OneRequest
  <2>2. RowsTypeOK /\ j \in Job /\ r \in Runs /\ CallsNest(j)
    BY <2>1, AtWork DEF Typed, TypeOK, ProgressBacked, Backed
  <2>3. ~reclaimed[r] /\ j.ctx = "done" => status'[r] = "running"
    <3>1. j.ctx = "done" => j.pc # "fwrite"
      BY <2>2 DEF CallsNest
    <3>2. j.ctx = "done" => status'[r] = status[r]
      BY <2>1, <3>1 DEF OneRequest, rowVars, RenewLease, PatchWarnings, SaveReport
    <3>3. QED BY <2>1, <3>2 DEF WarningsTold, Alone, Candid, Failing
  <2>4. QED BY <2>1, <2>2, <2>3, ThrownType, ThrownCandid, ToldByGo
<1>3. QED BY <1>1, <1>2

\* A claim puts other runs back, and takes one that nobody drives unless it was put back.
LEMMA ClaimTold ==
    ASSUME Typed, WarningsTold, NEW w \in Workers, NEW r \in Runs, ClaimNext(w, r)
    PROVE  /\ \A x \in Runs : RowTold(x)'
           /\ \A v \in Workers : job[v].pc # "idle" => reclaimed'[job[v].run] \/ SameRow(job[v].run)
           /\ ~reclaimed'[r] => worker'[r] = w /\ status'[r] = "running" /\ warned'[r] = FALSE
<1>0. RowsTypeOK
  BY DEF Typed, TypeOK
<1>1. ASSUME NEW x \in Runs, x # r PROVE reclaimed'[x] \/ SameRow(x)
  BY <1>0, <1>1 DEF ClaimNext, SameRow, RowsTypeOK
<1>2. reclaimed'[r] \/ status[r] = "queued"
  BY DEF ClaimNext, Claimable
<1>3. ~reclaimed'[r] => /\ worker'[r] = w /\ status'[r] = "running" /\ warned'[r] = FALSE
                        /\ status[r] = "queued" /\ ~reclaimed[r]
  BY <1>0, <1>2 DEF ClaimNext, WarningsTold, RowTold, RowsTypeOK
<1>4. ASSUME NEW x \in Runs PROVE RowTold(x)'
  <2>1. CASE x # r
    BY <1>1, <2>1, RowToldStays DEF WarningsTold
  <2>2. CASE x = r
    BY <1>3, <2>2 DEF RowTold
  <2>3. QED BY <2>1, <2>2
<1>5. ASSUME NEW v \in Workers, job[v].pc # "idle", ~reclaimed'[job[v].run] PROVE SameRow(job[v].run)
  <2>1. job[v].run \in Runs
    BY <1>5, AtWork
  <2>2. job[v].run # r
    BY <1>3, <1>5 DEF WarningsTold, Alone
  <2>3. QED BY <1>1, <1>5, <2>1, <2>2
<1>6. QED BY <1>3, <1>4, <1>5

LEMMA ToldNext ==
    ASSUME Typed, ProgressBacked, WarningsTold, [Next]_vars
    PROVE  WarningsTold'
<1>0. RowsTypeOK
  BY DEF Typed, TypeOK
<1>1. ASSUME UNCHANGED job, \A r \in Runs : SameRow(r) PROVE WarningsTold'
  BY <1>1, AloneStays, RowToldStays, AtWork DEF WarningsTold
<1>2. CASE UNCHANGED <<job, status, worker, warned, reclaimed>>
  BY <1>1, <1>2 DEF SameRow
<1>3. ASSUME NEW c \in Clients, Create(c) PROVE WarningsTold'
  <2>1. CASE InsertRun(c)
    <3>1. PICK r \in Runs : status[r] = "absent" /\ InsertRow(r, intent[c])
      BY <2>1 DEF InsertRun
    <3>2. UNCHANGED <<worker, warned, reclaimed, job>> /\ status' = [status EXCEPT ![r] = "queued"]
      BY <1>3, <2>1, <3>1 DEF InsertRun, InsertRow, Create
    <3>3. \A x \in Runs : x # r => SameRow(x)
      BY <1>0, <3>2 DEF SameRow, RowsTypeOK
    <3>4. \A v \in Workers : job[v].pc # "idle" => job[v].run # r /\ job[v].run \in Runs
      BY <3>1, AtWork
    <3>5. RowTold(r)'
      BY <1>0, <3>1, <3>2 DEF RowTold, WarningsTold, RowsTypeOK
    <3>6. QED BY <3>2, <3>3, <3>4, <3>5, AloneStays, RowToldStays DEF WarningsTold
  <2>2. CASE (\E k \in Keys : FindNoActive(c, k)) \/ InsertRefused(c)
    BY <1>2, <1>3, <2>2 DEF FindNoActive, InsertRefused, rowVars, Create
  <2>3. QED BY <1>3, <2>1, <2>2 DEF Create
<1>4. ASSUME NEW w \in Workers, Claim(w) PROVE WarningsTold'
  <2>1. PICK r \in Runs : ClaimNext(w, r) /\ Go(w, Claimed(r))
    BY <1>4 DEF Claim
  <2>2. job' = [job EXCEPT ![w] = Claimed(r)] /\ job \in [Workers -> Job]
    BY <2>1 DEF Go, Typed, TypeOK
  <2>3. ASSUME NEW v \in Workers, v # w PROVE Alone(v)'
    BY <2>1, <2>2, <2>3, ClaimTold, AloneStays DEF WarningsTold
  <2>4. Alone(w)'
    <3>1. /\ Claimed(r).pc = "setup" /\ Claimed(r).run = r /\ Claimed(r).ctx = "start"
          /\ Claimed(r).sad = FALSE
      BY DEF Claimed, Idle
    <3>2. job'[w] = Claimed(r)
      BY <2>2
    <3>3. Candid(Claimed(r), FALSE, TRUE)
      BY <3>1 DEF Candid
    <3>4. SUFFICES ASSUME ~reclaimed'[r]
                   PROVE  worker'[r] = w /\ status'[r] # "queued"
                          /\ Candid(Claimed(r), warned'[r], status'[r] = "running")
      BY <3>1, <3>2 DEF Alone, Owns
    <3>5. worker'[r] = w /\ status'[r] = "running" /\ warned'[r] = FALSE
      BY <2>1, <3>4, ClaimTold
    <3>6. QED BY <3>3, <3>5
  <2>5. QED BY <2>1, <2>3, <2>4, ClaimTold DEF WarningsTold
<1>5. ASSUME NEW w \in Workers, ClaimAnswerLost(w) PROVE WarningsTold'
  <2>1. PICK r \in Runs : ClaimNext(w, r) /\ UNCHANGED job
    BY <1>5 DEF ClaimAnswerLost
  <2>2. QED BY <2>1, ClaimTold, AloneStays DEF WarningsTold
<1>6. ASSUME NEW w \in Workers, Heartbeat(w) PROVE WarningsTold'
  BY <1>2, <1>6 DEF Heartbeat, RenewLease
<1>7. CASE Tick \/ Stall
  BY <1>2, <1>7 DEF Tick, Stall, AgeLeases
<1>8. CASE UNCHANGED vars
  BY <1>2, <1>8 DEF vars
<1>9. QED
  BY <1>3, <1>4, <1>5, <1>6, <1>7, <1>8, ToldStep, ToldFaulty DEF Next, Faulty

\* A run that was never put back reads completed without warnings and partial with
\* some, although its worker decides by a list of its own: every update that failed,
\* was lost or lost its answer is accounted for.
THEOREM WarningsMatchOutcomeHolds == Spec => []WarningsMatchOutcome
<1>1. Init => ProgressBacked /\ WarningsTold
  <2>1. Backed(Idle, report)
    BY UnstartedBacked DEF Idle
  <2>2. Init => \A w \in Workers : job[w].pc = "idle"
    BY DEF Init, Idle
  <2>3. Init => \A r \in Runs : status[r] = "absent" /\ warned[r] = FALSE
    BY DEF Init, RowsInit
  <2>4. Init => WarningsTold
    BY <2>2, <2>3 DEF WarningsTold, Alone, RowTold
  <2>5. Init => ProgressBacked
    BY <2>1 DEF Init, RowsInit, ProgressBacked
  <2>6. QED BY <2>4, <2>5
<1>2. Typed /\ ProgressBacked /\ [Next]_vars => ProgressBacked'
  BY BackedNext
<1>3. Typed /\ ProgressBacked /\ WarningsTold /\ [Next]_vars => WarningsTold'
  BY ToldNext
<1>4. WarningsTold => WarningsMatchOutcome
  BY DEF WarningsTold, RowTold, WarningsMatchOutcome
<1>5. QED BY <1>1, <1>2, <1>3, <1>4, TypedAlways, PTL DEF Spec

=============================================================================
