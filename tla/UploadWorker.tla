---------------------------- MODULE UploadWorker ----------------------------
(***************************************************************************)
(* Workers taking uploads through extraction and memory ingest, and users  *)
(* confirming previews: runNextFairQueue, runNextQueuedUpload,             *)
(* runNextConfirmedUpload, processConfirmedSource and the confirm route,   *)
(* one action per awaited request.                                         *)
(*                                                                         *)
(* The third queue of a worker, the scans, is in ScanWorker; here a call   *)
(* of its handler only says whether it found work.  What Claude and XTrace *)
(* do is abstracted to how it ends.                                        *)
(***************************************************************************)
EXTENDS UploadedDocuments

CONSTANTS
    Workers,        \* worker processes
    IdOf,           \* their WORKER_IDs; nothing here needs them to differ
    Clients,        \* confirm requests that may be in progress at once
    Unindexable,    \* documents whose confirmed facts XTrace can never be given
    MaxFaults       \* bound on lost requests, lost answers, crashes and stalls

ASSUME UploadWorkerAssumption ==
    /\ IdOf \in [Workers -> WorkerIds]
    /\ Unindexable \subseteq Docs
    /\ MaxFaults \in Nat

VARIABLES
    task,       \* per worker: what it is doing
    intent,     \* per client: what its confirm request has read
    told,       \* history: the confirmations reported to a client
    ingests,    \* history: per document, the ingests that succeeded
    spoilt,     \* history: documents with an extraction of their own that failed
    unstable,   \* XTrace may still fail for any document
    faults      \* faults so far

vars == <<status, worker, token, lease, preview, choice, evidence,
          task, intent, told, ingests, spoilt, unstable, faults>>

(* pc: "poll" between tasks, about to call the handler at Slot; "extract"   *)
(* and "ingest" the work itself; the rest are requests: "save" and "fail"   *)
(* of runNextQueuedUpload; "complete" and "failInner" of                    *)
(* processConfirmedSource, "reread" and "failOuter" of the catch around it. *)
AtTask == {"extract", "save", "fail", "ingest", "complete", "failInner", "reread", "failOuter"}

Task == [pc : {"poll"} \cup AtTask,
         doc : Docs \cup {0},
         token : Tokens \cup {NoToken},
         preview : Previews \cup {NoPreview},  \* what the extraction came to
         cursor : 0..2,                        \* queueCursor
         tried : 0..2]                         \* offset in runNextFairQueue

Fresh == [pc |-> "poll", doc |-> 0, token |-> NoToken, preview |-> NoPreview,
          cursor |-> 0, tried |-> 0]

Intent == [doc : Docs, choice : Choices, preview : Previews]
NoIntent == [doc |-> 0]

TypeOK ==
    /\ RowsTypeOK
    /\ task \in [Workers -> Task]
    /\ intent \in [Clients -> Intent \cup {NoIntent}]
    /\ told \subseteq Docs \X Choices
    /\ ingests \in [Docs -> Nat]
    /\ spoilt \subseteq Docs
    /\ unstable \in BOOLEAN
    /\ faults \in 0..MaxFaults

Init ==
    /\ RowsInit
    /\ task = [w \in Workers |-> Fresh]
    /\ intent = [c \in Clients |-> NoIntent]
    /\ told = {}
    /\ ingests = [d \in Docs |-> 0]
    /\ spoilt = {}
    /\ unstable \in BOOLEAN
    /\ faults = 0

clientVars == <<intent, told>>
outcomeVars == <<ingests, spoilt>>
envVars == <<unstable, faults>>

-----------------------------------------------------------------------------
(* The fair queue. *)

Slot(j) == (j.cursor + j.tried) % 3

Target(j) == IF Slot(j) = 0 THEN "queued" ELSE "confirmed"

\* The handler at Slot answers false; after all three the worker sleeps.
NothingFound(j) ==
    IF j.tried < 2 THEN [j EXCEPT !.tried = @ + 1]
    ELSE [j EXCEPT !.tried = 0, !.cursor = (@ + 1) % 3]

StickyHandled(j) == [Fresh EXCEPT !.cursor = j.cursor]

\* The handler answers true, whatever became of its task.
Handled(j) == [Fresh EXCEPT !.cursor = (Slot(j) + 1) % 3]

\* The handler throws to runWorkerIteration, which leaves the cursor alone.
Threw(j) == [Fresh EXCEPT !.cursor = j.cursor]

Go(w, j) == task' = [task EXCEPT ![w] = j]

\* gen_random_uuid: a token no row and no worker holds.  One that nobody holds
\* any more cannot be told from a new one.
Held(t) ==
    \/ \E d \in Docs : token[d] = t
    \/ \E w \in Workers : task[w].token = t

NewToken(t) == ~Held(t) /\ \A x \in Tokens : x < t => Held(x)

Polls(w, slots) == task[w].pc = "poll" /\ Slot(task[w]) \in slots

Started(j, d, t) ==
    [j EXCEPT !.pc = IF Target(j) = "queued" THEN "extract" ELSE "ingest",
              !.doc = d, !.token = t]

Claim(w) ==
    /\ Polls(w, {0, 1})
    /\ \E d \in Docs, t \in Tokens :
          /\ NewToken(t)
          /\ ClaimNext(IdOf[w], d, Target(task[w]), t)
          /\ Go(w, Started(task[w], d, token'[d]))
    /\ UNCHANGED <<clientVars, outcomeVars, envVars>>

FindNothing(w) ==
    /\ Polls(w, {0, 1})
    /\ ~ \E d \in Docs : Claimable(d, Target(task[w]))
    /\ Go(w, NothingFound(task[w]))
    /\ UNCHANGED <<rowVars, clientVars, outcomeVars, envVars>>

\* runNextQueuedScan drives a scan to its end, or finds none.
CallScanHandler(w) ==
    /\ Polls(w, {2})
    /\ Go(w, Handled(task[w])) \/ Go(w, NothingFound(task[w]))
    /\ UNCHANGED <<rowVars, clientVars, outcomeVars, envVars>>

-----------------------------------------------------------------------------
(* The tasks. *)

Step(w, pc) == Go(w, [task[w] EXCEPT !.pc = pc])

\* readPrivateObject and extractUploadPreview.
Extract(w) ==
    /\ task[w].pc = "extract"
    /\ \E p \in Previews : Go(w, [task[w] EXCEPT !.pc = "save", !.preview = p])
    /\ UNCHANGED <<rowVars, clientVars, outcomeVars, envVars>>

ExtractFails(w) ==
    /\ task[w].pc = "extract"
    /\ Step(w, "fail")
    /\ spoilt' = spoilt \cup {task[w].doc}
    /\ UNCHANGED <<rowVars, clientVars, ingests, envVars>>

\* loadBundle, ingest and poll end in "succeeded", or canonical image evidence
\* stands in for them.
Ingest(w) ==
    /\ task[w].pc = "ingest"
    /\ task[w].doc \notin Unindexable
    /\ Step(w, "complete")
    /\ ingests' = [ingests EXCEPT ![task[w].doc] = @ + 1]
    /\ UNCHANGED <<rowVars, clientVars, spoilt, envVars>>

IngestFails(w) ==
    /\ task[w].pc = "ingest"
    /\ unstable \/ task[w].doc \in Unindexable
    /\ Step(w, "failInner")
    /\ UNCHANGED <<rowVars, clientVars, outcomeVars, envVars>>

Requests == {"save", "fail", "complete", "failInner", "failOuter"}

\* The transition each of these requests asks for.
Call(pc) ==
    IF pc = "save" THEN "extraction_complete"
    ELSE IF pc = "fail" THEN "extraction_fail"
    ELSE IF pc = "complete" THEN "confirmed_complete"
    ELSE "confirmed_fail"

Admitted(w) == Admits(Call(task[w].pc), IdOf[w], task[w].doc, task[w].token)

Apply(w) ==
    Transition(Call(task[w].pc), IdOf[w], task[w].doc, task[w].token, task[w].preview)

\* A refused preview or completion is an error, a refused failure is not; the
\* inner failure rethrows the error that led to it either way.
Answered(j, yes) ==
    IF j.pc = "save" /\ ~yes THEN [j EXCEPT !.pc = "fail"]
    ELSE IF j.pc = "complete" /\ ~yes THEN [j EXCEPT !.pc = "failInner"]
    ELSE IF j.pc = "failInner" THEN [j EXCEPT !.pc = "reread"]
    ELSE Handled(j)

\* The call throws.  Nothing catches the requests of the two outer catches.
Broken(j) ==
    IF j.pc \in {"save", "complete", "failInner"} THEN Answered(j, FALSE) ELSE Threw(j)

Request(w) ==
    /\ task[w].pc \in Requests
    /\ \/ Apply(w) /\ Go(w, Answered(task[w], TRUE))
       \/ ~Admitted(w) /\ Go(w, Answered(task[w], FALSE)) /\ UNCHANGED rowVars
    /\ UNCHANGED <<clientVars, outcomeVars, envVars>>

\* The outer catch fails the row once more if it still reads ingesting_memory,
\* whoever is ingesting it by then.
Reread(w) ==
    /\ task[w].pc = "reread"
    /\ IF status[task[w].doc] = "ingesting_memory"
       THEN Step(w, "failOuter") ELSE Go(w, Handled(task[w]))
    /\ UNCHANGED <<rowVars, clientVars, outcomeVars, envVars>>

WorkerStep(w) ==
    \/ Claim(w) \/ FindNothing(w) \/ CallScanHandler(w)
    \/ Extract(w) \/ ExtractFails(w) \/ Ingest(w) \/ IngestFails(w)
    \/ Request(w) \/ Reread(w)

\* The timer set after a claim; a refused renewal is only logged.
Heartbeat(w) ==
    /\ task[w].pc \in AtTask
    /\ RenewLease(IdOf[w], task[w].doc, task[w].token)
    /\ UNCHANGED <<task, clientVars, outcomeVars, envVars>>

-----------------------------------------------------------------------------
(* Users.  The lock around a confirmation is per process and row, so two   *)
(* requests may meet only in the database.                                 *)

NewUpload ==
    /\ \E d \in Docs : Upload(d)
    /\ UNCHANGED <<task, clientVars, outcomeVars, envVars>>

\* confirm reads the row, decides that it awaits confirmation and computes the
\* evidence from the preview it read.
ReadForConfirm(c) ==
    /\ intent[c] = NoIntent
    /\ \E d \in Docs, k \in Choices :
          /\ Promotable(d)
          /\ intent' = [intent EXCEPT ![c] = [doc |-> d, choice |-> k, preview |-> preview[d]]]
    /\ UNCHANGED <<rowVars, task, told, outcomeVars, envVars>>

\* confirm finds the row confirmed with the same fingerprint and says so.
ReadConfirmed(c) ==
    /\ intent[c] = NoIntent
    /\ \E d \in Docs, k \in Choices : choice[d] = k /\ told' = told \cup {<<d, k>>}
    /\ UNCHANGED <<rowVars, task, intent, outcomeVars, envVars>>

PromoteIntended(c) ==
    Promote(intent[c].doc, [choice |-> intent[c].choice, preview |-> intent[c].preview])

\* The call of confirm_uploaded_document: it promotes, or answers for a row
\* confirmed with the same fingerprint, or raises an exception.
SendConfirm(c) ==
    /\ intent[c] # NoIntent
    /\ intent' = [intent EXCEPT ![c] = NoIntent]
    /\ LET d == intent[c].doc
           receipt == {<<d, intent[c].choice>>} IN
       \/ PromoteIntended(c) /\ told' = told \cup receipt
       \/ /\ choice[d] = intent[c].choice
          /\ told' = told \cup receipt /\ UNCHANGED rowVars
       \/ /\ ~Promotable(d) /\ choice[d] # intent[c].choice
          /\ UNCHANGED <<told, rowVars>>
    /\ UNCHANGED <<task, outcomeVars, envVars>>

Confirming(c) == ReadForConfirm(c) \/ ReadConfirmed(c) \/ SendConfirm(c)

-----------------------------------------------------------------------------
(* Faults and the environment. *)

Fault == faults < MaxFaults /\ faults' = faults + 1 /\ UNCHANGED unstable

\* A request of a worker, or the poll of any of its three handlers, fails
\* without an effect.
RequestLost(w) ==
    /\ Fault
    /\ task[w].pc \in Requests \cup {"poll", "reread"}
    /\ Go(w, Broken(task[w]))
    /\ spoilt' = IF task[w].pc = "save" THEN spoilt \cup {task[w].doc} ELSE spoilt
    /\ UNCHANGED <<rowVars, clientVars, ingests>>

\* A transition takes effect and its answer is lost.
AnswerLost(w) ==
    /\ Fault
    /\ task[w].pc \in Requests
    /\ Apply(w)
    /\ Go(w, Broken(task[w]))
    /\ UNCHANGED <<clientVars, outcomeVars>>

\* A claim commits and the worker never learns of it.
ClaimAnswerLost(w) ==
    /\ Fault
    /\ Polls(w, {0, 1})
    /\ \E d \in Docs, t \in Tokens : NewToken(t) /\ ClaimNext(IdOf[w], d, Target(task[w]), t)
    /\ Go(w, Threw(task[w]))
    /\ UNCHANGED <<clientVars, outcomeVars>>

\* The process dies and is started again with the same WORKER_ID.
Crash(w) ==
    /\ Fault
    /\ Go(w, Fresh)
    /\ UNCHANGED <<rowVars, clientVars, outcomeVars>>

\* The confirm call or its answer is lost; the user sees an error.
ConfirmLost(c) ==
    /\ Fault
    /\ intent[c] # NoIntent
    /\ intent' = [intent EXCEPT ![c] = NoIntent]
    /\ PromoteIntended(c) \/ UNCHANGED rowVars
    /\ UNCHANGED <<task, told, outcomeVars>>

\* A live worker's timer renews its lease in time unless the worker stalls.
HeartbeatDue ==
    \E w \in Workers :
        /\ task[w].pc \in AtTask
        /\ Renewable(IdOf[w], task[w].doc, task[w].token)
        /\ lease[task[w].doc] = 1

Tick ==
    /\ ~HeartbeatDue
    /\ AgeLeases
    /\ UNCHANGED <<task, clientVars, outcomeVars, envVars>>

\* Five minutes without one successful renewal.
Stall ==
    /\ HeartbeatDue
    /\ Fault
    /\ AgeLeases
    /\ UNCHANGED <<task, clientVars, outcomeVars>>

\* From here on XTrace takes whatever it can be given.
Stabilise ==
    /\ unstable
    /\ unstable' = FALSE
    /\ UNCHANGED <<rowVars, task, clientVars, outcomeVars, faults>>

-----------------------------------------------------------------------------

Faulty(w) == RequestLost(w) \/ AnswerLost(w) \/ ClaimAnswerLost(w) \/ Crash(w)

Next ==
    \/ NewUpload
    \/ \E w \in Workers : WorkerStep(w) \/ Heartbeat(w) \/ Faulty(w)
    \/ \E c \in Clients : Confirming(c) \/ ConfirmLost(c)
    \/ Tick
    \/ Stall
    \/ Stabilise

Spec == Init /\ [][Next]_vars

\* The loop of a worker never ends, time passes, XTrace stops failing.
Fairness ==
    /\ \A w \in Workers : WF_vars(WorkerStep(w))
    /\ WF_vars(Tick)
    /\ WF_vars(Stabilise)

FairSpec == Spec /\ Fairness

-----------------------------------------------------------------------------
(* Properties *)

\* The two CHECK constraints of the table never refuse an update, a claimed row
\* has a lease and no other row keeps one, and a document has a preview exactly
\* from the end of its extraction on.
RowShape ==
    \A d \in Docs :
        /\ choice[d] # NoChoice <=> status[d] \in Confirmed
        /\ status[d] \in Leased <=> worker[d] # NoWorker
        /\ status[d] \in Leased <=> token[d] # NoToken
        /\ status[d] \in Leased <=> lease[d] # NoLease
        /\ preview[d] # NoPreview <=> status[d] \in Confirmed \cup {"awaiting_confirmation"}

\* One worker at most may settle a document: every claim has a token of its
\* own, also when the same worker claims the row again after a crash.
SoleHolder ==
    \A w, v \in Workers : \A d \in Docs :
        /\ task[w].pc \in AtTask /\ task[w].doc = d /\ task[w].token = token[d]
        /\ task[v].pc \in AtTask /\ task[v].doc = d /\ task[v].token = token[d]
        => w = v

\* A confirmation a user was told of is the one in force, and its evidence is
\* in store once, for that choice and the preview on record: although users
\* read a preview first and confirm it later, in competition and repeatedly.
ReceiptsHold ==
    \A r \in told :
        /\ choice[r[1]] = r[2]
        /\ evidence[r[1]] = {[choice |-> r[2], preview |-> preview[r[1]]]}

\* A document fails only for a cause of its own: an extraction of it threw, or
\* the request that would have saved its preview got lost.  A worker that lost
\* its claim reports a failure too, and must not fail the document.
FailedForCause == \A d \in Docs : status[d] = "failed" => d \in spoilt

\* Without a fault a document's memory is ingested once, however long the
\* ingest takes: the heartbeat keeps it from a second worker.
IngestedOnceUntilFault == faults = 0 => \A d \in Docs : ingests[d] <= 1

-----------------------------------------------------------------------------

Phase(s) ==
    IF s = "absent" THEN "unknown"
    ELSE IF s \in {"queued", "extracting"} THEN "pending"
    ELSE IF s = "awaiting_confirmation" THEN "review"
    ELSE IF s = "failed" THEN "rejected"
    ELSE IF s = "ready" THEN "ready"
    ELSE "accepted"

\* Workers, leases and retries implement the promise of UploadPromise.
Promise == INSTANCE UploadPromise WITH
    phase <- [d \in Docs |-> Phase(status[d])], shown <- preview, record <- evidence
PromiseSpec == Promise!Spec

\* Every upload gets its preview or its failure: lost and crashed claims run
\* out and are claimed again, and no other queue keeps a worker to itself.
QueuedAreReviewed ==
    \A d \in Docs :
        status[d] = "queued" ~> status[d] \in Confirmed \cup {"awaiting_confirmation", "failed"}

\* A confirmed upload becomes ready if no older one can never be indexed.
ConfirmedBecomeReady ==
    \A d \in Docs : (\A x \in Unindexable : d < x) =>
        (status[d] = "confirmed" ~> status[d] = "ready")

\* Scans get their turn, even while an upload is confirmed that fails forever.
ScansGetTurns == \A w \in Workers : []<>Polls(w, {2})

\* Confirmed ingest cannot starve, which is what tests/unit/worker-runner says
\* of the rotation: an upload that can be indexed is, whatever else is queued.
ConfirmedIngestCannotStarve ==
    \A d \in Docs \ Unindexable : status[d] = "confirmed" ~> status[d] = "ready"

-----------------------------------------------------------------------------
(* The inductive strengthening of the properties above. *)

\* A worker at a task has a document and a token, one that polls has neither.
Shaped(j) ==
    /\ j.pc \in AtTask => j.doc \in Docs /\ j.token \in Tokens
    /\ j.pc = "poll" => j.token = NoToken
    /\ j.pc = "save" => j.preview \in Previews

TaskShape == \A w \in Workers : Shaped(task[w])

\* No two workers ever hold the same token.
TokensDistinct ==
    \A w, v \in Workers :
        task[w].token = task[v].token /\ task[w].token # NoToken => w = v

\* A confirm request in progress carries the preview that is on record.
IntentsCurrent ==
    \A c \in Clients : intent[c] # NoIntent =>
        /\ preview[intent[c].doc] # NoPreview
        /\ preview[intent[c].doc] = intent[c].preview

\* The evidence of a document is what its confirmation and its preview say.
EvidenceShape ==
    \A d \in Docs :
        evidence[d] = IF choice[d] = NoChoice THEN {}
                      ELSE {[choice |-> choice[d], preview |-> preview[d]]}

ToldInForce == \A r \in told : choice[r[1]] = r[2]

\* A worker about to fail a document it did not spoil has lost the claim.
BlamelessHaveLost ==
    \A w \in Workers :
        task[w].pc = "fail" /\ task[w].doc \notin spoilt =>
            ~Admits("extraction_fail", IdOf[w], task[w].doc, task[w].token)

\* Until a fault a worker's claim is good for the transition it works towards.
ClaimsHoldUntilFault ==
    faults = 0 =>
        \A w \in Workers :
            LET j == task[w] IN
            /\ j.pc \in {"extract", "save", "fail"} =>
                  Admits("extraction_complete", IdOf[w], j.doc, j.token)
            /\ j.pc \in {"ingest", "complete", "failInner"} =>
                  Admits("confirmed_complete", IdOf[w], j.doc, j.token)

\* Until a fault a document was ingested only if it is ready or about to be.
IngestsSettle ==
    faults = 0 =>
        \A d \in Docs :
            \/ ingests[d] = 0
            \/ /\ ingests[d] = 1
               /\ \/ status[d] = "ready"
                  \/ \E w \in Workers : task[w].pc = "complete" /\ task[w].doc = d

Inv ==
    /\ TypeOK /\ TaskShape /\ RowShape
    /\ TokensDistinct
    /\ IntentsCurrent /\ EvidenceShape /\ ToldInForce
    /\ FailedForCause /\ BlamelessHaveLost
    /\ ClaimsHoldUntilFault /\ IngestsSettle

=============================================================================
