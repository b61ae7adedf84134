------------------------- MODULE UploadWorkerProofs -------------------------
(***************************************************************************)
(* Theorems about UploadWorker, for any number of documents, workers,      *)
(* users and faults.  The tables and the tasks are treated apart: first    *)
(* what a step may do to each, then each invariant against those effects.  *)
(***************************************************************************)
EXTENDS UploadWorker, TLAPS

Typed == TypeOK /\ TaskShape

-----------------------------------------------------------------------------
(* What a step does to the workers' tasks. *)

LEMMA SlotType ==
    ASSUME NEW j \in Task
    PROVE  Slot(j) \in 0..2 /\ (Slot(j) + 1) % 3 \in 0..2
<1>1. j.cursor \in 0..2 /\ j.tried \in 0..2
  BY DEF Task
<1>2. Slot(j) \in 0..2
  BY <1>1 DEF Slot
<1>3. QED BY <1>2

LEMMA FreshType == Fresh \in Task /\ Shaped(Fresh)
BY UploadedDocumentsAssumption DEF Fresh, Task, Shaped, AtTask

LEMMA HandledType ==
    ASSUME NEW j \in Task
    PROVE  Handled(j) \in Task /\ Shaped(Handled(j)) /\ Handled(j).token = NoToken
           /\ Handled(j).pc = "poll"
BY SlotType, FreshType DEF Handled, Fresh, Task, Shaped, AtTask

LEMMA ThrewType ==
    ASSUME NEW j \in Task
    PROVE  Threw(j) \in Task /\ Shaped(Threw(j)) /\ Threw(j).token = NoToken
           /\ Threw(j).pc = "poll"
BY FreshType DEF Threw, Fresh, Task, Shaped, AtTask

LEMMA NothingFoundType ==
    ASSUME NEW j \in Task, Shaped(j), j.pc = "poll"
    PROVE  NothingFound(j) \in Task /\ Shaped(NothingFound(j))
           /\ NothingFound(j).token = NoToken /\ NothingFound(j).pc = "poll"
<1>1. j.cursor \in 0..2 /\ j.tried \in 0..2 /\ j.token = NoToken
  BY DEF Task, Shaped
<1>2. (j.cursor + 1) % 3 \in 0..2
  BY <1>1
<1>3. CASE j.tried < 2
  <2>1. j.tried + 1 \in 0..2
    BY <1>1, <1>3
  <2>2. NothingFound(j) = [j EXCEPT !.tried = j.tried + 1]
    BY <1>3 DEF NothingFound, Task
  <2>3. QED BY <1>1, <2>1, <2>2 DEF Task, Shaped, AtTask
<1>4. CASE ~(j.tried < 2)
  <2>1. PICK k \in 0..2 : NothingFound(j) = [j EXCEPT !.tried = 0, !.cursor = k]
    BY <1>2, <1>4 DEF NothingFound, Task
  <2>2. NothingFound(j) \in Task
    <3>1. [j EXCEPT !.tried = 0] \in Task
      BY DEF Task
    <3>2. [[j EXCEPT !.tried = 0] EXCEPT !.cursor = k] \in Task
      BY <3>1 DEF Task
    <3>3. QED BY <2>1, <3>2 DEF Task
  <2>3. NothingFound(j).pc = "poll" /\ NothingFound(j).token = NoToken
    BY <1>1, <2>1 DEF Task
  <2>4. QED BY <2>2, <2>3 DEF Shaped, AtTask
<1>5. QED BY <1>3, <1>4

LEMMA AnsweredType ==
    ASSUME NEW j \in Task, Shaped(j), j.pc \in Requests, NEW yes \in BOOLEAN
    PROVE  /\ Answered(j, yes) \in Task /\ Shaped(Answered(j, yes))
           /\ Answered(j, yes).token \in {j.token, NoToken}
           /\ Answered(j, yes).pc \in {"poll", "fail", "failInner", "reread"}
           /\ Answered(j, yes).pc = "fail" =>
                 j.pc = "save" /\ ~yes /\ Answered(j, yes) = [j EXCEPT !.pc = "fail"]
           /\ Answered(j, yes).pc = "failInner" =>
                 j.pc = "complete" /\ ~yes /\ Answered(j, yes) = [j EXCEPT !.pc = "failInner"]
<1>1. CASE j.pc = "save" /\ ~yes
  BY <1>1 DEF Answered, Task, Shaped, AtTask, Requests
<1>2. CASE j.pc = "complete" /\ ~yes
  BY <1>2 DEF Answered, Task, Shaped, AtTask, Requests
<1>3. CASE j.pc = "failInner"
  BY <1>3 DEF Answered, Task, Shaped, AtTask, Requests
<1>4. CASE ~(j.pc = "save" /\ ~yes) /\ ~(j.pc = "complete" /\ ~yes) /\ j.pc # "failInner"
  BY <1>4, HandledType DEF Answered
<1>5. QED BY <1>1, <1>2, <1>3, <1>4

LEMMA BrokenType ==
    ASSUME NEW j \in Task, Shaped(j), j.pc \in Requests \cup {"poll", "reread"}
    PROVE  /\ Broken(j) \in Task /\ Shaped(Broken(j))
           /\ Broken(j).token \in {j.token, NoToken}
           /\ Broken(j).pc \in {"poll", "fail", "failInner", "reread"}
           /\ Broken(j).pc = "fail" =>
                 j.pc = "save" /\ Broken(j) = [j EXCEPT !.pc = "fail"]
<1>1. CASE j.pc \in {"save", "complete", "failInner"}
  BY <1>1, AnsweredType DEF Broken, Requests
<1>2. CASE j.pc \notin {"save", "complete", "failInner"}
  BY <1>2, ThrewType DEF Broken
<1>3. QED BY <1>1, <1>2

\* A claim gives its worker the row's new token.
LEMMA ClaimTakesToken ==
    ASSUME Typed, NEW w \in Workers, Claim(w)
    PROVE  \E d \in Docs, t \in Tokens :
              /\ NewToken(t)
              /\ ClaimNext(IdOf[w], d, Target(task[w]), t)
              /\ Go(w, Started(task[w], d, t))
<1>1. PICK d \in Docs, t \in Tokens :
         /\ NewToken(t)
         /\ ClaimNext(IdOf[w], d, Target(task[w]), t)
         /\ Go(w, Started(task[w], d, token'[d]))
  BY DEF Claim
<1>2. token'[d] = t
  BY <1>1 DEF ClaimNext, Typed, TypeOK, RowsTypeOK
<1>3. QED BY <1>1, <1>2

\* A step gives at most one worker a new task record.
TaskEffect ==
    \/ UNCHANGED task
    \/ \E w \in Workers, j \in Task :
          /\ Go(w, j)
          /\ Shaped(j)
          /\ j.token \in {task[w].token, NoToken} \/ NewToken(j.token)

LEMMA TaskEffectOfNext ==
    ASSUME Typed, Next
    PROVE  TaskEffect
<1> USE DEF Typed, TypeOK, TaskShape
<1>1. ASSUME NEW w \in Workers, WorkerStep(w)
      PROVE  TaskEffect
  <2> DEFINE j == task[w]
  <2>0. j \in Task /\ Shaped(j)
    OBVIOUS
  <2>1. CASE Claim(w)
    <3>1. PICK d \in Docs, t \in Tokens : NewToken(t) /\ Go(w, Started(j, d, t))
      BY <2>1, ClaimTakesToken
    <3>2. Started(j, d, t) \in Task /\ Shaped(Started(j, d, t)) /\ Started(j, d, t).token = t
      BY <2>0, <3>1 DEF Started, Task, Shaped, AtTask
    <3>3. QED BY <3>1, <3>2 DEF TaskEffect
  <2>2. CASE FindNothing(w) \/ CallScanHandler(w)
    <3>1. j.pc = "poll" /\ (Go(w, NothingFound(j)) \/ Go(w, Handled(j)))
      BY <2>2 DEF FindNothing, CallScanHandler, Polls
    <3>2. QED BY <2>0, <3>1, NothingFoundType, HandledType DEF TaskEffect
  <2>3. CASE Extract(w)
    <3>1. PICK p \in Previews : Go(w, [j EXCEPT !.pc = "save", !.preview = p])
      BY <2>3 DEF Extract
    <3>2. [j EXCEPT !.pc = "save", !.preview = p] \in Task
          /\ Shaped([j EXCEPT !.pc = "save", !.preview = p])
          /\ [j EXCEPT !.pc = "save", !.preview = p].token = j.token
      BY <2>0, <2>3 DEF Extract, Task, Shaped, AtTask
    <3>3. QED BY <3>1, <3>2 DEF TaskEffect
  <2>4. CASE ExtractFails(w) \/ Ingest(w) \/ IngestFails(w)
    <3>1. PICK pc \in {"fail", "complete", "failInner"} :
             j.pc \in AtTask /\ Go(w, [j EXCEPT !.pc = pc])
      BY <2>4 DEF ExtractFails, Ingest, IngestFails, Step, AtTask
    <3>2. [j EXCEPT !.pc = pc] \in Task /\ Shaped([j EXCEPT !.pc = pc])
          /\ [j EXCEPT !.pc = pc].token = j.token
      BY <2>0, <3>1 DEF Task, Shaped, AtTask
    <3>3. QED BY <3>1, <3>2 DEF TaskEffect
  <2>5. CASE Request(w)
    <3>1. PICK yes \in BOOLEAN : j.pc \in Requests /\ Go(w, Answered(j, yes))
      BY <2>5 DEF Request
    <3>2. QED BY <2>0, <3>1, AnsweredType DEF TaskEffect
  <2>6. CASE Reread(w)
    <3>1. j.pc = "reread" /\ (Go(w, [j EXCEPT !.pc = "failOuter"]) \/ Go(w, Handled(j)))
      BY <2>6 DEF Reread, Step
    <3>2. [j EXCEPT !.pc = "failOuter"] \in Task /\ Shaped([j EXCEPT !.pc = "failOuter"])
          /\ [j EXCEPT !.pc = "failOuter"].token = j.token
      BY <2>0, <3>1 DEF Task, Shaped, AtTask
    <3>3. QED BY <2>0, <3>1, <3>2, HandledType DEF TaskEffect
  <2>7. QED BY <1>1, <2>1, <2>2, <2>3, <2>4, <2>5, <2>6 DEF WorkerStep
<1>2. ASSUME NEW w \in Workers, Faulty(w)
      PROVE  TaskEffect
  <2> DEFINE j == task[w]
  <2>0. j \in Task /\ Shaped(j)
    OBVIOUS
  <2>1. CASE RequestLost(w) \/ AnswerLost(w)
    <3>1. j.pc \in Requests \cup {"poll", "reread"} /\ Go(w, Broken(j))
      BY <2>1 DEF RequestLost, AnswerLost
    <3>2. QED BY <2>0, <3>1, BrokenType DEF TaskEffect
  <2>2. CASE ClaimAnswerLost(w)
    BY <2>0, <2>2, ThrewType DEF ClaimAnswerLost, TaskEffect
  <2>3. CASE Crash(w)
    <3>1. Fresh.token = NoToken
      BY DEF Fresh
    <3>2. QED BY <2>3, <3>1, FreshType DEF Crash, TaskEffect
  <2>4. QED BY <1>2, <2>1, <2>2, <2>3 DEF Faulty
<1>3. ASSUME NEW w \in Workers, Heartbeat(w) PROVE TaskEffect
  BY <1>3 DEF Heartbeat, TaskEffect
<1>4. ASSUME NEW c \in Clients, Confirming(c) \/ ConfirmLost(c) PROVE TaskEffect
  BY <1>4 DEF Confirming, ConfirmLost, ReadForConfirm, ReadConfirmed, SendConfirm, TaskEffect
<1>5. CASE NewUpload \/ Tick \/ Stall \/ Stabilise
  BY <1>5 DEF NewUpload, Tick, Stall, Stabilise, TaskEffect
<1>6. QED BY <1>1, <1>2, <1>3, <1>4, <1>5 DEF Next

-----------------------------------------------------------------------------
(* What a step does to the table. *)

RowEffect ==
    \/ UNCHANGED rowVars
    \/ \E d \in Docs : Upload(d)
    \/ \E i \in WorkerIds, d \in Docs, q \in {"queued", "confirmed"}, t \in Tokens :
          NewToken(t) /\ ClaimNext(i, d, q, t)
    \/ \E i \in WorkerIds, d \in Docs, t \in Tokens : RenewLease(i, d, t)
    \/ \E w \in Workers : task[w].pc \in Requests /\ Apply(w) /\ (Request(w) \/ AnswerLost(w))
    \/ \E c \in Clients : intent[c] # NoIntent /\ PromoteIntended(c)
    \/ AgeLeases /\ (HeartbeatDue => faults' = faults + 1)

LEMMA RowEffectOfNext ==
    ASSUME Typed, Next
    PROVE  RowEffect
<1>1. ASSUME NEW w \in Workers, Claim(w) \/ ClaimAnswerLost(w)
      PROVE  RowEffect
  <2>1. PICK d \in Docs, t \in Tokens :
           NewToken(t) /\ ClaimNext(IdOf[w], d, Target(task[w]), t)
    BY <1>1 DEF Claim, ClaimAnswerLost
  <2>2. IdOf[w] \in WorkerIds /\ Target(task[w]) \in {"queued", "confirmed"}
    BY UploadWorkerAssumption DEF Target
  <2>3. QED BY <2>1, <2>2 DEF RowEffect
<1>2. ASSUME NEW w \in Workers, Heartbeat(w)
      PROVE  RowEffect
  <2>1. task[w].doc \in Docs /\ task[w].token \in Tokens /\ IdOf[w] \in WorkerIds
    BY <1>2, UploadWorkerAssumption DEF Heartbeat, Typed, TaskShape, Shaped
  <2>2. QED BY <1>2, <2>1 DEF Heartbeat, RowEffect
<1>3. ASSUME NEW w \in Workers, WorkerStep(w) \/ Faulty(w)
      PROVE  RowEffect
  BY <1>1, <1>3 DEF WorkerStep, Faulty, FindNothing, CallScanHandler, Extract, ExtractFails,
     Ingest, IngestFails, Request, Reread, RequestLost, AnswerLost, Crash, RowEffect
<1>4. ASSUME NEW c \in Clients, Confirming(c) \/ ConfirmLost(c)
      PROVE  RowEffect
  BY <1>4 DEF Confirming, ConfirmLost, ReadForConfirm, ReadConfirmed, SendConfirm, RowEffect
<1>5. CASE NewUpload \/ Tick \/ Stall \/ Stabilise
  BY <1>5 DEF NewUpload, Tick, Stall, Stabilise, Fault, RowEffect
<1>6. QED BY <1>2, <1>3, <1>4, <1>5 DEF Next

\* What the two requests that carry data are given.
LEMMA RequestShape ==
    ASSUME Typed, NEW w \in Workers, task[w].pc \in Requests
    PROVE  /\ task[w].doc \in Docs /\ task[w].token \in Tokens
           /\ Call(task[w].pc) \in Transitions
           /\ Call(task[w].pc) = "extraction_complete" <=> task[w].pc = "save"
           /\ Call(task[w].pc) = "extraction_fail" <=> task[w].pc = "fail"
           /\ Call(task[w].pc) = "extraction_complete" => task[w].preview \in Previews
           /\ IdOf[w] \in WorkerIds
BY UploadWorkerAssumption DEF Typed, TaskShape, Shaped, Requests, AtTask, Call,
   Transitions, Extraction

LEMMA IntentShape ==
    ASSUME Typed, NEW c \in Clients, intent[c] # NoIntent
    PROVE  intent[c].doc \in Docs /\ intent[c].choice \in Choices
           /\ intent[c].preview \in Previews
BY DEF Typed, TypeOK, Intent

LEMMA RowsStayTyped ==
    ASSUME Typed, RowEffect
    PROVE  RowsTypeOK'
<1> USE DEF RowsTypeOK
<1>0. RowsTypeOK
  BY DEF Typed, TypeOK
<1>1. CASE UNCHANGED rowVars
  BY <1>0, <1>1 DEF rowVars
<1>2. ASSUME NEW d \in Docs, Upload(d) PROVE RowsTypeOK'
  BY <1>0, <1>2 DEF Upload, Unconfirmed
<1>3. ASSUME NEW i \in WorkerIds, NEW d \in Docs, NEW q \in {"queued", "confirmed"},
             NEW t \in Tokens, ClaimNext(i, d, q, t)
      PROVE  RowsTypeOK'
  BY <1>0, <1>3, UploadedDocumentsAssumption DEF ClaimNext, ClaimedAs, Unconfirmed, Confirmed
<1>4. ASSUME NEW i \in WorkerIds, NEW d \in Docs, NEW t \in Tokens, RenewLease(i, d, t)
      PROVE  RowsTypeOK'
  BY <1>0, <1>4, UploadedDocumentsAssumption DEF RenewLease
<1>5. ASSUME NEW w \in Workers, task[w].pc \in Requests, Apply(w)
      PROVE  RowsTypeOK'
  <2>1. PICK k \in Transitions, d \in Docs, i \in WorkerIds, t \in Tokens,
             p \in Previews \cup {NoPreview} :
           Transition(k, i, d, t, p)
    BY <1>5, RequestShape DEF Apply, Typed, TypeOK, Task
  <2>2. To(k) \in Unconfirmed \cup Confirmed
    BY DEF To, Unconfirmed, Confirmed
  <2>3. QED BY <1>0, <2>1, <2>2 DEF Transition
<1>6. ASSUME NEW c \in Clients, intent[c] # NoIntent, PromoteIntended(c)
      PROVE  RowsTypeOK'
  <2>1. PICK d \in Docs, e \in Evidence : Promote(d, e)
    BY <1>6, IntentShape DEF PromoteIntended, Evidence
  <2>2. e.choice \in Choices
    BY DEF Evidence
  <2>3. QED BY <1>0, <2>1, <2>2 DEF Promote, Confirmed
<1>7. CASE AgeLeases
  BY <1>0, <1>7 DEF AgeLeases, Aged, NoLease
<1>8. QED BY <1>1, <1>2, <1>3, <1>4, <1>5, <1>6, <1>7 DEF RowEffect

\* What a step does to the rest of the state.
SideEffects ==
    /\ UNCHANGED clientVars \/ \E c \in Clients : Confirming(c) \/ ConfirmLost(c)
    /\ UNCHANGED outcomeVars \/ \E w \in Workers : ExtractFails(w) \/ Ingest(w) \/ RequestLost(w)
    /\ unstable' \in BOOLEAN
    /\ faults' = faults \/ (faults < MaxFaults /\ faults' = faults + 1)

LEMMA SideEffectsOfNext ==
    ASSUME Typed, Next
    PROVE  SideEffects
<1> USE DEF SideEffects, clientVars, outcomeVars, envVars, Fault
<1>0. unstable \in BOOLEAN
  BY DEF Typed, TypeOK
<1>1. ASSUME NEW w \in Workers, WorkerStep(w) \/ Heartbeat(w)
      PROVE  SideEffects
  BY <1>0, <1>1 DEF WorkerStep, Heartbeat, Claim, FindNothing, CallScanHandler, Extract,
     ExtractFails, Ingest, IngestFails, Request, Reread
<1>2. ASSUME NEW w \in Workers, Faulty(w)
      PROVE  SideEffects
  BY <1>0, <1>2 DEF Faulty, RequestLost, AnswerLost, ClaimAnswerLost, Crash
<1>3. ASSUME NEW c \in Clients, Confirming(c) \/ ConfirmLost(c)
      PROVE  SideEffects
  BY <1>0, <1>3 DEF Confirming, ReadForConfirm, ReadConfirmed, SendConfirm, ConfirmLost
<1>4. CASE NewUpload \/ Tick \/ Stall \/ Stabilise
  BY <1>0, <1>4 DEF NewUpload, Tick, Stall, Stabilise
<1>5. QED BY <1>1, <1>2, <1>3, <1>4 DEF Next

\* Typed says of the whole state what RowsStayTyped says of the table.
LEMMA TypedInit == Init => Typed
<1> SUFFICES ASSUME Init PROVE Typed
  OBVIOUS
<1>1. RowsTypeOK
  BY DEF Init, RowsInit, RowsTypeOK
<1>2. task \in [Workers -> Task] /\ TaskShape
  BY FreshType DEF Init, TaskShape
<1>3. QED BY <1>1, <1>2, UploadWorkerAssumption DEF Init, Typed, TypeOK

LEMMA TypedNext == Typed /\ [Next]_vars => Typed'
<1> SUFFICES ASSUME Typed, [Next]_vars PROVE Typed'
  OBVIOUS
<1>1. CASE UNCHANGED vars
  BY <1>1 DEF vars, Typed, TypeOK, RowsTypeOK, TaskShape
<1>2. CASE Next
  <2>0. SideEffects
    BY <1>2, SideEffectsOfNext
  <2>1. RowsTypeOK'
    BY <1>2, RowEffectOfNext, RowsStayTyped
  <2>2. task' \in [Workers -> Task] /\ TaskShape'
    BY <1>2, TaskEffectOfNext DEF TaskEffect, Go, Typed, TypeOK, TaskShape
  <2>3. intent' \in [Clients -> Intent \cup {NoIntent}]
    <3>1. ASSUME NEW c \in Clients, ReadForConfirm(c)
          PROVE  intent' \in [Clients -> Intent \cup {NoIntent}]
      <4>1. PICK d \in Docs, k \in Choices :
               /\ Promotable(d)
               /\ intent' = [intent EXCEPT ![c] =
                               [doc |-> d, choice |-> k, preview |-> preview[d]]]
        BY <3>1 DEF ReadForConfirm
      <4>2. preview[d] \in Previews
        BY <4>1 DEF Promotable, Typed, TypeOK, RowsTypeOK
      <4>3. QED BY <4>1, <4>2 DEF Intent, Typed, TypeOK
    <3>2. ASSUME NEW c \in Clients, ReadConfirmed(c) \/ SendConfirm(c) \/ ConfirmLost(c)
          PROVE  intent' \in [Clients -> Intent \cup {NoIntent}]
      BY <3>2 DEF ReadConfirmed, SendConfirm, ConfirmLost, Typed, TypeOK
    <3>3. QED BY <2>0, <3>1, <3>2 DEF SideEffects, Confirming, clientVars, Typed, TypeOK
  <2>4. told' \subseteq Docs \X Choices
    <3>1. told \subseteq Docs \X Choices
      BY DEF Typed, TypeOK
    <3>2. ASSUME NEW c \in Clients, SendConfirm(c)
          PROVE  told' \subseteq Docs \X Choices
      BY <3>1, <3>2, IntentShape DEF SendConfirm
    <3>3. QED BY <2>0, <3>1, <3>2 DEF SideEffects, Confirming, ReadForConfirm, ReadConfirmed,
             ConfirmLost, clientVars
  <2>5. ingests' \in [Docs -> Nat] /\ spoilt' \subseteq Docs
    <3>1. ingests \in [Docs -> Nat] /\ spoilt \subseteq Docs
      BY DEF Typed, TypeOK
    <3>2. ASSUME NEW w \in Workers, task[w].pc \in AtTask
          PROVE  task[w].doc \in Docs
      BY <3>2 DEF Typed, TaskShape, Shaped
    <3>3. QED BY <2>0, <3>1, <3>2 DEF SideEffects, ExtractFails, Ingest, RequestLost,
             outcomeVars, AtTask
  <2>6. unstable' \in BOOLEAN /\ faults' \in 0..MaxFaults
    BY <2>0, UploadWorkerAssumption DEF SideEffects, Typed, TypeOK
  <2>7. QED BY <2>1, <2>2, <2>3, <2>4, <2>5, <2>6 DEF Typed, TypeOK
<1>3. QED BY <1>1, <1>2

\* TypeOK, of the tables, the workers' tasks and the users' requests.
THEOREM TypeCorrect == Spec => []TypeOK
<1>1. Typed => TypeOK
  BY DEF Typed
<1>2. QED BY <1>1, TypedInit, TypedNext, PTL DEF Spec

-----------------------------------------------------------------------------
(* The shape of the rows, and whose a document is. *)

LEMMA RowShapeKept ==
    ASSUME Typed, RowShape, RowEffect
    PROVE  RowShape'
<1> USE DEF RowShape
<1>0. RowsTypeOK
  BY DEF Typed, TypeOK
<1>1. CASE UNCHANGED rowVars
  BY <1>1 DEF rowVars
<1>2. ASSUME NEW d \in Docs, Upload(d) PROVE RowShape'
  BY <1>0, <1>2 DEF Upload, RowsTypeOK, Confirmed, Leased
<1>3. ASSUME NEW i \in WorkerIds, NEW d \in Docs, NEW q \in {"queued", "confirmed"},
             NEW t \in Tokens, ClaimNext(i, d, q, t)
      PROVE  RowShape'
  <2>1. NoWorker # i /\ NoToken # t /\ LeaseTicks # NoLease
    BY UploadedDocumentsAssumption DEF NoLease
  <2>2. status[d] = q \/ status[d] = ClaimedAs(q)
    BY <1>3 DEF ClaimNext, Claimable
  <2>3. QED BY <1>0, <1>3, <2>1, <2>2 DEF ClaimNext, ClaimedAs, RowsTypeOK, Confirmed, Leased
<1>4. ASSUME NEW i \in WorkerIds, NEW d \in Docs, NEW t \in Tokens, RenewLease(i, d, t)
      PROVE  RowShape'
  BY <1>0, <1>4, UploadedDocumentsAssumption DEF RenewLease, Renewable, RowsTypeOK, NoLease
<1>5. ASSUME NEW w \in Workers, task[w].pc \in Requests, Apply(w)
      PROVE  RowShape'
  <2> DEFINE k == Call(task[w].pc)
             p == task[w].preview
  <2>0. task[w].doc \in Docs /\ task[w].token \in Tokens /\ IdOf[w] \in WorkerIds
        /\ k \in Transitions
    BY <1>5, RequestShape
  <2>1. p \in Previews \cup {NoPreview} /\ (k = "extraction_complete" => p # NoPreview)
    BY <1>5, RequestShape, UploadedDocumentsAssumption DEF Typed, TypeOK, Task
  <2>2. Transition(k, IdOf[w], task[w].doc, task[w].token, p)
    BY <1>5 DEF Apply
  <2> HIDE DEF k, p
  <2>3. PICK d \in Docs, i \in WorkerIds, t \in Tokens : Transition(k, i, d, t, p)
    BY <2>0, <2>2
  <2>4. QED BY <1>0, <2>0, <2>1, <2>3 DEF Transition, Admits, From, To, Transitions, Extraction,
           RowsTypeOK, Confirmed, Leased
<1>6. ASSUME NEW c \in Clients, intent[c] # NoIntent, PromoteIntended(c)
      PROVE  RowShape'
  <2>1. PICK d \in Docs, e \in Evidence : Promote(d, e)
    BY <1>6, IntentShape DEF PromoteIntended, Evidence
  <2>2. e.choice # NoChoice
    BY UploadedDocumentsAssumption DEF Evidence
  <2>3. QED BY <1>0, <2>1, <2>2 DEF Promote, Promotable, RowsTypeOK, Confirmed, Leased
<1>7. CASE AgeLeases
  BY <1>0, <1>7 DEF AgeLeases, Aged, NoLease, RowsTypeOK
<1>8. QED BY <1>1, <1>2, <1>3, <1>4, <1>5, <1>6, <1>7 DEF RowEffect

ShapeInv == Typed /\ RowShape

LEMMA ShapeInvInit == Init => ShapeInv
BY TypedInit DEF ShapeInv, Init, RowsInit, RowShape, Confirmed, Leased

LEMMA ShapeInvNext == ShapeInv /\ [Next]_vars => ShapeInv'
<1>1. ShapeInv /\ UNCHANGED vars => RowShape'
  BY DEF ShapeInv, vars, RowShape
<1>2. ShapeInv /\ Next => RowShape'
  BY RowEffectOfNext, RowShapeKept DEF ShapeInv
<1>3. QED BY <1>1, <1>2, TypedNext DEF ShapeInv

\* The CHECK constraints of the table never refuse an update of this code.
THEOREM RowShapeHolds == Spec => []RowShape
<1>1. ShapeInv => RowShape
  BY DEF ShapeInv
<1>2. QED BY <1>1, ShapeInvInit, ShapeInvNext, PTL DEF Spec

LEMMA TokensDistinctInit == Init => TokensDistinct
BY DEF Init, TokensDistinct, Fresh

LEMMA TokensDistinctNext == Typed /\ TokensDistinct /\ [Next]_vars => TokensDistinct'
<1> SUFFICES ASSUME Typed, TokensDistinct, [Next]_vars PROVE TokensDistinct'
  OBVIOUS
<1>1. CASE UNCHANGED vars
  BY <1>1 DEF vars, TokensDistinct
<1>2. CASE Next
  <2>1. TaskEffect
    BY <1>2, TaskEffectOfNext
  <2>2. ASSUME NEW w \in Workers, NEW j \in Task, Go(w, j),
               j.token \in {task[w].token, NoToken} \/ NewToken(j.token)
        PROVE  TokensDistinct'
    BY <2>2 DEF Go, NewToken, Held, TokensDistinct, Typed, TypeOK
  <2>3. QED BY <2>1, <2>2 DEF TaskEffect, TokensDistinct
<1>3. QED BY <1>1, <1>2

\* Two workers never hold the current claim of one document.
THEOREM SoleHolderHolds == Spec => []SoleHolder
<1>1. Typed /\ TokensDistinct => SoleHolder
  BY UploadedDocumentsAssumption DEF SoleHolder, Typed, TaskShape, Shaped, TokensDistinct
<1>2. QED BY <1>1, TypedInit, TypedNext, TokensDistinctInit, TokensDistinctNext, PTL DEF Spec

-----------------------------------------------------------------------------
(* Confirmations and their evidence. *)

RecordInv == ShapeInv /\ IntentsCurrent /\ EvidenceShape

\* A preview and a choice, once set, stay; the evidence stays what they say.
LEMMA RecordKept ==
    ASSUME RecordInv, RowEffect
    PROVE  /\ \A d \in Docs : preview[d] # NoPreview => preview'[d] = preview[d]
           /\ \A d \in Docs : choice[d] # NoChoice => choice'[d] = choice[d]
           /\ EvidenceShape'
<1> DEFINE Kept ==
        /\ \A d \in Docs : preview[d] # NoPreview => preview'[d] = preview[d]
        /\ \A d \in Docs : choice[d] # NoChoice => choice'[d] = choice[d]
        /\ EvidenceShape'
<1> SUFFICES Kept
  OBVIOUS
<1>0. RowsTypeOK /\ EvidenceShape /\ RowShape /\ Typed
  BY DEF RecordInv, ShapeInv, Typed, TypeOK
<1>1. ASSUME UNCHANGED <<preview, choice, evidence>> PROVE Kept
  BY <1>0, <1>1 DEF EvidenceShape
<1>2. ASSUME NEW w \in Workers, task[w].pc \in Requests, Apply(w)
      PROVE  Kept
  <2> DEFINE k == Call(task[w].pc)
             p == task[w].preview
             d == task[w].doc
  <2>1. d \in Docs /\ Transition(k, IdOf[w], d, task[w].token, p)
    BY <1>0, <1>2, RequestShape DEF Apply
  <2> HIDE DEF k, p, d
  <2>2. choice' = choice /\ evidence' = evidence
    BY <2>1 DEF Transition
  <2>3. CASE k = "extraction_complete"
    <3>1. status[d] = "extracting" /\ preview' = [preview EXCEPT ![d] = p]
      BY <2>1, <2>3 DEF Transition, Admits, From, Extraction
    <3>2. preview[d] = NoPreview /\ choice[d] = NoChoice
      BY <1>0, <2>1, <3>1 DEF RowShape, Confirmed
    <3>3. QED BY <1>0, <2>1, <2>2, <3>1, <3>2 DEF EvidenceShape, RowsTypeOK
  <2>4. CASE k # "extraction_complete"
    <3>1. preview' = preview
      BY <2>1, <2>4 DEF Transition
    <3>2. QED BY <1>1, <2>2, <3>1
  <2>5. QED BY <2>3, <2>4
<1>3. ASSUME NEW c \in Clients, intent[c] # NoIntent, PromoteIntended(c)
      PROVE  Kept
  <2> DEFINE d == intent[c].doc
             e == [choice |-> intent[c].choice, preview |-> intent[c].preview]
  <2>1. d \in Docs /\ e.choice \in Choices /\ e = [choice |-> e.choice, preview |-> preview[d]]
    BY <1>0, <1>3, IntentShape DEF RecordInv, IntentsCurrent
  <2>2. Promote(d, e)
    BY <1>3 DEF PromoteIntended
  <2> HIDE DEF d, e
  <2>3. choice[d] = NoChoice /\ evidence[d] = {}
    BY <1>0, <2>1, <2>2 DEF Promote, Promotable, EvidenceShape
  <2>4. preview' = preview /\ choice' = [choice EXCEPT ![d] = e.choice]
        /\ evidence' = [evidence EXCEPT ![d] = {e}]
    BY <2>2, <2>3 DEF Promote
  <2>5. e.choice # NoChoice
    BY <2>1, UploadedDocumentsAssumption
  <2>6. QED BY <1>0, <2>1, <2>3, <2>4, <2>5 DEF EvidenceShape, RowsTypeOK
<1>4. QED BY <1>1, <1>2, <1>3 DEF RowEffect, rowVars, Upload, ClaimNext, RenewLease, AgeLeases

LEMMA RecordInvInit == Init => RecordInv
BY ShapeInvInit DEF RecordInv, Init, RowsInit, IntentsCurrent, EvidenceShape

LEMMA RecordInvNext == RecordInv /\ [Next]_vars => RecordInv'
<1> SUFFICES ASSUME RecordInv, [Next]_vars PROVE RecordInv'
  OBVIOUS
<1>0. ShapeInv'
  BY ShapeInvNext DEF RecordInv
<1>1. CASE UNCHANGED vars
  BY <1>0, <1>1 DEF vars, RecordInv, IntentsCurrent, EvidenceShape
<1>2. CASE Next
  <2>0. Typed
    BY DEF RecordInv, ShapeInv
  <2>1. RowEffect /\ SideEffects
    BY <1>2, <2>0, RowEffectOfNext, SideEffectsOfNext
  <2>2. EvidenceShape' /\ \A d \in Docs : preview[d] # NoPreview => preview'[d] = preview[d]
    BY <2>1, RecordKept
  <2>3. ASSUME NEW c \in Clients, intent'[c] # NoIntent, intent'[c] = intent[c]
        PROVE  preview'[intent'[c].doc] # NoPreview
               /\ preview'[intent'[c].doc] = intent'[c].preview
    BY <2>0, <2>2, <2>3, IntentShape DEF RecordInv, IntentsCurrent
  <2>4. ASSUME NEW c \in Clients, ReadForConfirm(c)
        PROVE  IntentsCurrent'
    <3>1. PICK d \in Docs, k \in Choices :
             /\ Promotable(d)
             /\ intent' = [intent EXCEPT ![c] =
                             [doc |-> d, choice |-> k, preview |-> preview[d]]]
      BY <2>4 DEF ReadForConfirm
    <3>2. preview' = preview /\ preview[d] # NoPreview
      BY <2>4, <3>1 DEF ReadForConfirm, rowVars, Promotable
    <3>3. intent \in [Clients -> Intent \cup {NoIntent}]
      BY <2>0 DEF Typed, TypeOK
    <3>4. QED BY <2>3, <3>1, <3>2, <3>3 DEF IntentsCurrent
  <2>5. ASSUME NEW c \in Clients, ReadConfirmed(c) \/ SendConfirm(c) \/ ConfirmLost(c)
        PROVE  IntentsCurrent'
    <3>1. \A b \in Clients : intent'[b] = intent[b] \/ intent'[b] = NoIntent
      BY <2>0, <2>5 DEF ReadConfirmed, SendConfirm, ConfirmLost, Typed, TypeOK
    <3>2. QED BY <2>3, <3>1 DEF IntentsCurrent
  <2>6. ASSUME intent' = intent PROVE IntentsCurrent'
    BY <2>3, <2>6 DEF IntentsCurrent
  <2>7. IntentsCurrent'
    BY <2>1, <2>4, <2>5, <2>6 DEF SideEffects, Confirming, clientVars
  <2>8. QED BY <1>0, <2>2, <2>7 DEF RecordInv
<1>3. QED BY <1>1, <1>2

LEMMA ToldInForceNext == RecordInv /\ ToldInForce /\ [Next]_vars => ToldInForce'
<1> SUFFICES ASSUME RecordInv, ToldInForce, [Next]_vars PROVE ToldInForce'
  OBVIOUS
<1>1. CASE UNCHANGED vars
  BY <1>1 DEF vars, ToldInForce
<1>2. CASE Next
  <2>0. Typed /\ RowsTypeOK
    BY DEF RecordInv, ShapeInv, Typed, TypeOK
  <2>1. RowEffect /\ SideEffects
    BY <1>2, <2>0, RowEffectOfNext, SideEffectsOfNext
  <2>2. \A d \in Docs : choice[d] # NoChoice => choice'[d] = choice[d]
    BY <2>1, RecordKept
  <2>3. \A d \in Docs, k \in Choices : choice[d] = k => choice'[d] = k
    BY <2>2, UploadedDocumentsAssumption
  <2>4. \A r \in told : r[1] \in Docs /\ r[2] \in Choices /\ choice'[r[1]] = r[2]
    BY <2>0, <2>3 DEF ToldInForce, Typed, TypeOK
  <2>5. ASSUME NEW c \in Clients, ReadConfirmed(c) PROVE ToldInForce'
    BY <2>3, <2>4, <2>5 DEF ReadConfirmed, ToldInForce
  <2>6. ASSUME NEW c \in Clients, SendConfirm(c) PROVE ToldInForce'
    <3>1. intent[c].doc \in Docs /\ intent[c].choice \in Choices
      BY <2>0, <2>6, IntentShape DEF SendConfirm
    <3>2. CASE PromoteIntended(c)
      BY <2>0, <2>4, <2>6, <3>1, <3>2 DEF SendConfirm, PromoteIntended, Promote, ToldInForce,
         RowsTypeOK
    <3>3. CASE ~PromoteIntended(c)
      BY <2>3, <2>4, <2>6, <3>1, <3>3 DEF SendConfirm, ToldInForce
    <3>4. QED BY <3>2, <3>3
  <2>7. CASE UNCHANGED told
    BY <2>4, <2>7 DEF ToldInForce
  <2>8. QED BY <2>1, <2>5, <2>6, <2>7 DEF SideEffects, Confirming, ReadForConfirm, ConfirmLost,
           clientVars
<1>3. QED BY <1>1, <1>2

\* What a user was told of a confirmation stays true, and its evidence stays
\* what the preview on record says.
THEOREM ReceiptsHoldHolds == Spec => []ReceiptsHold
<1>1. Init => ToldInForce
  BY DEF Init, ToldInForce
<1>2. RecordInv /\ ToldInForce => ReceiptsHold
  <2> SUFFICES ASSUME RecordInv, ToldInForce, NEW r \in told
               PROVE  /\ choice[r[1]] = r[2]
                      /\ evidence[r[1]] = {[choice |-> r[2], preview |-> preview[r[1]]]}
    BY DEF ReceiptsHold
  <2>1. r[1] \in Docs /\ r[2] \in Choices
    BY DEF RecordInv, ShapeInv, Typed, TypeOK
  <2>2. choice[r[1]] = r[2] /\ r[2] # NoChoice
    BY <2>1, UploadedDocumentsAssumption DEF ToldInForce
  <2>3. QED BY <2>1, <2>2 DEF RecordInv, EvidenceShape
<1>3. QED BY <1>1, <1>2, RecordInvInit, RecordInvNext, ToldInForceNext, PTL DEF Spec

-----------------------------------------------------------------------------
(* Which documents fail. *)

FailInv == ShapeInv /\ FailedForCause /\ BlamelessHaveLost

LEMMA FailInvInit == Init => FailInv
BY ShapeInvInit DEF FailInv, Init, RowsInit, FailedForCause, BlamelessHaveLost, Fresh

\* A claim that is lost stays lost: another one has another token.
LEMMA LostStaysLost ==
    ASSUME Typed, RowEffect, NEW i, NEW d \in Docs, NEW t \in Tokens, ~NewToken(t),
           ~Admits("extraction_fail", i, d, t)
    PROVE  ~Admits("extraction_fail", i, d, t)'
<1> USE DEF Admits, Holds, From, Extraction
<1>0. RowsTypeOK
  BY DEF Typed, TypeOK
<1> USE DEF RowsTypeOK
<1>1. CASE UNCHANGED rowVars
  BY <1>1 DEF rowVars
<1>2. ASSUME NEW x \in Docs, Upload(x) PROVE ~Admits("extraction_fail", i, d, t)'
  BY <1>0, <1>2 DEF Upload
<1>3. ASSUME NEW v \in WorkerIds, NEW x \in Docs, NEW q \in {"queued", "confirmed"},
             NEW s \in Tokens, NewToken(s), ClaimNext(v, x, q, s)
      PROVE  ~Admits("extraction_fail", i, d, t)'
  BY <1>0, <1>3 DEF ClaimNext
<1>4. ASSUME NEW v \in WorkerIds, NEW x \in Docs, NEW s \in Tokens, RenewLease(v, x, s)
      PROVE  ~Admits("extraction_fail", i, d, t)'
  BY <1>0, <1>4 DEF RenewLease, Renewable
<1>5. ASSUME NEW w \in Workers, task[w].pc \in Requests, Apply(w)
      PROVE  ~Admits("extraction_fail", i, d, t)'
  <2>1. task[w].doc \in Docs
    BY <1>5, RequestShape
  <2>2. QED BY <1>0, <1>5, <2>1 DEF Apply, Transition, To
<1>6. ASSUME NEW c \in Clients, intent[c] # NoIntent, PromoteIntended(c)
      PROVE  ~Admits("extraction_fail", i, d, t)'
  <2>1. intent[c].doc \in Docs
    BY <1>6, IntentShape
  <2>2. QED BY <1>0, <1>6, <2>1 DEF PromoteIntended, Promote
<1>7. CASE AgeLeases
  BY <1>0, <1>7 DEF AgeLeases, Aged, NoLease
<1>8. QED BY <1>1, <1>2, <1>3, <1>4, <1>5, <1>6, <1>7 DEF RowEffect

\* How a worker comes to report the failure of an extraction.
LEMMA EntersFail ==
    ASSUME Typed, Next, NEW w \in Workers, task'[w].pc = "fail"
    PROVE  \/ task'[w] = task[w]
           \/ task'[w].doc \in spoilt'
           \/ /\ task[w].pc = "save"
              /\ task'[w].doc = task[w].doc /\ task'[w].token = task[w].token
              /\ Apply(w) \/ (~Admitted(w) /\ UNCHANGED rowVars)
<1> DEFINE Entered ==
           \/ task'[w] = task[w]
           \/ task'[w].doc \in spoilt'
           \/ /\ task[w].pc = "save"
              /\ task'[w].doc = task[w].doc /\ task'[w].token = task[w].token
              /\ Apply(w) \/ (~Admitted(w) /\ UNCHANGED rowVars)
<1> SUFFICES Entered
  OBVIOUS
<1>0. \A v \in Workers : task[v] \in Task /\ Shaped(task[v])
  BY DEF Typed, TypeOK, TaskShape
<1>1. ASSUME NEW v \in Workers, v # w, NEW j, Go(v, j) PROVE Entered
  BY <1>1 DEF Go, Typed, TypeOK
<1>2. ASSUME NEW j, Go(w, j) PROVE task'[w] = j
  BY <1>2 DEF Go, Typed, TypeOK
<1>3. ASSUME NEW v \in Workers, WorkerStep(v) PROVE Entered
  <2>1. CASE Claim(v) \/ FindNothing(v) \/ CallScanHandler(v) \/ Extract(v) \/ Ingest(v)
             \/ IngestFails(v) \/ Reread(v)
    <3>1. ASSUME NEW j, Go(v, j), j.pc # "fail" PROVE Entered
      BY <1>1, <1>2, <3>1
    <3>2. CASE Claim(v)
      <4>1. PICK d \in Docs, t \in Tokens : Go(v, Started(task[v], d, t))
        BY <3>2, ClaimTakesToken
      <4>2. Started(task[v], d, t).pc # "fail"
        BY <1>0 DEF Started, Task
      <4>3. QED BY <3>1, <4>1, <4>2
    <3>3. CASE FindNothing(v) \/ CallScanHandler(v)
      <4>1. task[v].pc = "poll" /\ (Go(v, NothingFound(task[v])) \/ Go(v, Handled(task[v])))
        BY <3>3 DEF FindNothing, CallScanHandler, Polls
      <4>2. QED BY <1>0, <3>1, <4>1, NothingFoundType, HandledType
    <3>4. CASE Extract(v)
      <4>1. PICK p \in Previews : Go(v, [task[v] EXCEPT !.pc = "save", !.preview = p])
        BY <3>4 DEF Extract
      <4>2. [task[v] EXCEPT !.pc = "save", !.preview = p].pc # "fail"
        BY <1>0 DEF Task
      <4>3. QED BY <3>1, <4>1, <4>2
    <3>5. CASE Ingest(v) \/ IngestFails(v)
      <4>1. PICK pc \in {"complete", "failInner"} : Go(v, [task[v] EXCEPT !.pc = pc])
        BY <3>5 DEF Ingest, IngestFails, Step
      <4>2. [task[v] EXCEPT !.pc = pc].pc # "fail"
        BY <1>0 DEF Task
      <4>3. QED BY <3>1, <4>1, <4>2
    <3>6. CASE Reread(v)
      <4>1. Go(v, [task[v] EXCEPT !.pc = "failOuter"]) \/ Go(v, Handled(task[v]))
        BY <3>6 DEF Reread, Step
      <4>2. [task[v] EXCEPT !.pc = "failOuter"].pc # "fail"
        BY <1>0 DEF Task
      <4>3. QED BY <1>0, <3>1, <4>1, <4>2, HandledType
    <3>7. QED BY <2>1, <3>2, <3>3, <3>4, <3>5, <3>6
  <2>2. CASE ExtractFails(v)
    <3>1. Go(v, [task[v] EXCEPT !.pc = "fail"]) /\ task[v].doc \in spoilt'
      BY <2>2 DEF ExtractFails, Step
    <3>2. [task[v] EXCEPT !.pc = "fail"].doc = task[v].doc
      BY <1>0 DEF Task
    <3>3. QED BY <1>1, <1>2, <3>1, <3>2
  <2>3. CASE Request(v)
    <3>1. PICK yes \in BOOLEAN :
             /\ task[v].pc \in Requests
             /\ Go(v, Answered(task[v], yes))
             /\ Apply(v) \/ (~Admitted(v) /\ UNCHANGED rowVars)
      BY <2>3 DEF Request
    <3>2. Answered(task[v], yes).pc = "fail" =>
             task[v].pc = "save" /\ Answered(task[v], yes) = [task[v] EXCEPT !.pc = "fail"]
      BY <1>0, <3>1, AnsweredType
    <3>3. [task[v] EXCEPT !.pc = "fail"].doc = task[v].doc
          /\ [task[v] EXCEPT !.pc = "fail"].token = task[v].token
      BY <1>0 DEF Task
    <3>4. QED BY <1>1, <1>2, <3>1, <3>2, <3>3
  <2>4. QED BY <1>3, <2>1, <2>2, <2>3 DEF WorkerStep
<1>4. ASSUME NEW v \in Workers, Faulty(v) PROVE Entered
  <2>1. CASE RequestLost(v) \/ AnswerLost(v)
    <3>1. /\ task[v].pc \in Requests \cup {"poll", "reread"}
          /\ Go(v, Broken(task[v]))
          /\ Apply(v) \/ (task[v].pc = "save" => task[v].doc \in spoilt')
      BY <2>1 DEF RequestLost, AnswerLost
    <3>2. Broken(task[v]).pc = "fail" =>
             task[v].pc = "save" /\ Broken(task[v]) = [task[v] EXCEPT !.pc = "fail"]
      BY <1>0, <3>1, BrokenType
    <3>3. [task[v] EXCEPT !.pc = "fail"].doc = task[v].doc
          /\ [task[v] EXCEPT !.pc = "fail"].token = task[v].token
      BY <1>0 DEF Task
    <3>4. QED BY <1>1, <1>2, <3>1, <3>2, <3>3
  <2>2. CASE ClaimAnswerLost(v)
    BY <1>0, <1>1, <1>2, <2>2, ThrewType DEF ClaimAnswerLost
  <2>3. CASE Crash(v)
    BY <1>1, <1>2, <2>3 DEF Crash, Fresh
  <2>4. QED BY <1>4, <2>1, <2>2, <2>3 DEF Faulty
<1>5. CASE UNCHANGED task
  BY <1>5
<1>6. QED BY <1>3, <1>4, <1>5 DEF Next, Heartbeat, NewUpload, Tick, Stall, Stabilise, Confirming,
         ConfirmLost, ReadForConfirm, ReadConfirmed, SendConfirm

CanFail(w) == Admits("extraction_fail", IdOf[w], task[w].doc, task[w].token)

LEMMA SpoiltGrows ==
    ASSUME SideEffects
    PROVE  spoilt \subseteq spoilt'
BY DEF SideEffects, outcomeVars, ExtractFails, Ingest, RequestLost

\* Only the report of a failed extraction makes a document fail.
LEMMA BecomesFailed ==
    ASSUME Typed, RowEffect, NEW d \in Docs, status'[d] = "failed", status[d] # "failed"
    PROVE  \E w \in Workers : task[w].pc = "fail" /\ task[w].doc = d /\ Admitted(w)
<1>0. RowsTypeOK
  BY DEF Typed, TypeOK
<1> USE DEF RowsTypeOK
<1>1. PICK w \in Workers : task[w].pc \in Requests /\ Apply(w)
  <2>1. ASSUME NEW c \in Clients, intent[c] # NoIntent, PromoteIntended(c) PROVE FALSE
    BY <1>0, <2>1, IntentShape DEF PromoteIntended, Promote
  <2>2. QED BY <1>0, <2>1 DEF RowEffect, rowVars, Upload, ClaimNext, ClaimedAs, RenewLease, AgeLeases
<1>2. task[w].doc = d /\ To(Call(task[w].pc)) = "failed" /\ Admitted(w)
  BY <1>0, <1>1, RequestShape DEF Apply, Transition, Admitted
<1>3. Call(task[w].pc) = "extraction_fail"
  BY <1>1, <1>2, RequestShape DEF To, Transitions, Extraction
<1>4. QED BY <1>1, <1>2, <1>3, RequestShape

LEMMA FailInvNext == FailInv /\ [Next]_vars => FailInv'
<1> SUFFICES ASSUME FailInv, [Next]_vars PROVE FailInv'
  OBVIOUS
<1>0. ShapeInv' /\ Typed /\ Typed'
  BY ShapeInvNext, TypedNext DEF FailInv, ShapeInv
<1>1. CASE UNCHANGED vars
  BY <1>0, <1>1 DEF vars, FailInv, FailedForCause, BlamelessHaveLost, Admits, Holds
<1>2. CASE Next
  <2>1. RowEffect /\ spoilt \subseteq spoilt'
    BY <1>0, <1>2, RowEffectOfNext, SideEffectsOfNext, SpoiltGrows
  <2>2. FailedForCause'
    <3>1. ASSUME NEW d \in Docs, status'[d] = "failed"
          PROVE  d \in spoilt'
      <4>1. CASE status[d] = "failed"
        BY <2>1, <4>1 DEF FailInv, FailedForCause
      <4>2. CASE status[d] # "failed"
        <5>1. PICK w \in Workers : task[w].pc = "fail" /\ task[w].doc = d /\ Admitted(w)
          BY <1>0, <2>1, <3>1, <4>2, BecomesFailed
        <5>2. Admits("extraction_fail", IdOf[w], task[w].doc, task[w].token)
          BY <5>1 DEF Admitted, Call
        <5>3. QED BY <2>1, <5>1, <5>2 DEF FailInv, BlamelessHaveLost
      <4>3. QED BY <4>1, <4>2
    <3>2. QED BY <3>1 DEF FailedForCause
  <2>3. BlamelessHaveLost'
    <3>1. ASSUME NEW w \in Workers, task'[w].pc = "fail", task'[w].doc \notin spoilt'
          PROVE  ~CanFail(w)'
      <4>0. PICK d, t : d = task[w].doc /\ t = task[w].token
        OBVIOUS
      <4>1. CASE task'[w] = task[w]
        <5>1. d \in Docs /\ t \in Tokens /\ ~NewToken(t)
          BY <1>0, <3>1, <4>0, <4>1 DEF Typed, TaskShape, Shaped, AtTask, NewToken, Held
        <5>2. ~Admits("extraction_fail", IdOf[w], d, t)
          BY <2>1, <3>1, <4>0, <4>1 DEF FailInv, BlamelessHaveLost
        <5>3. ~Admits("extraction_fail", IdOf[w], d, t)'
          BY <1>0, <2>1, <5>1, <5>2, LostStaysLost
        <5>4. QED BY <4>0, <4>1, <5>3 DEF CanFail, Admits, Holds
      <4>2. CASE task[w].pc = "save" /\ task'[w].doc = d /\ task'[w].token = t /\ Apply(w)
        <5>1. d \in Docs /\ status' = [status EXCEPT ![d] = "awaiting_confirmation"]
          BY <1>0, <4>0, <4>2, RequestShape DEF Apply, Transition, Call, To, Requests
        <5>2. status'[d] = "awaiting_confirmation"
          BY <1>0, <5>1 DEF Typed, TypeOK, RowsTypeOK
        <5>3. QED BY <4>2, <5>2 DEF CanFail, Admits, From, Extraction
      <4>3. CASE task[w].pc = "save" /\ task'[w].doc = d /\ task'[w].token = t
                 /\ ~Admitted(w) /\ UNCHANGED rowVars
        BY <4>0, <4>3 DEF CanFail, Admitted, Admits, Holds, From, Call, Extraction, rowVars
      <4>4. QED BY <1>0, <1>2, <3>1, <4>0, <4>1, <4>2, <4>3, EntersFail
    <3>2. QED BY <3>1 DEF BlamelessHaveLost, CanFail, Admits, Holds
  <2>4. QED BY <1>0, <2>2, <2>3 DEF FailInv
<1>3. QED BY <1>1, <1>2

\* A document fails only if one of its own extractions did, or the request that
\* would have saved its preview got lost.
THEOREM FailedForCauseHolds == Spec => []FailedForCause
<1>1. FailInv => FailedForCause
  BY DEF FailInv
<1>2. QED BY <1>1, FailInvInit, FailInvNext, PTL DEF Spec

-----------------------------------------------------------------------------
(* The promise. *)

phaseOf == [d \in Docs |-> Phase(status[d])]

LEMMA PromiseStep ==
    ASSUME RecordInv, RowEffect
    PROVE  [Promise!Next]_(Promise!vars)
<1> DEFINE Kept == UNCHANGED <<phaseOf, preview, evidence>>
<1>0. RowsTypeOK /\ Typed /\ EvidenceShape
  BY DEF RecordInv, ShapeInv, Typed, TypeOK
<1>a. Kept => UNCHANGED Promise!vars
  BY DEF Promise!vars, phaseOf
<1>b. ASSUME NEW d \in Docs, NEW from, NEW to, Phase(status[d]) = from,
             NEW s, status' = [status EXCEPT ![d] = s], Phase(s) = to
      PROVE  Promise!Move(d, from, to)
  <2>1. \A x \in Docs : status'[x] = IF x = d THEN s ELSE status[x]
    BY <1>0, <1>b DEF RowsTypeOK
  <2>2. \A x \in Docs : Phase(status'[x]) = IF x = d THEN to ELSE Phase(status[x])
    BY <1>b, <2>1
  <2>3. [x \in Docs |-> Phase(status'[x])] =
           [[x \in Docs |-> Phase(status[x])] EXCEPT ![d] = to]
    BY <2>2
  <2>4. QED BY <1>b, <2>3 DEF Promise!Move
<1>c. ASSUME NEW d \in Docs, NEW s, status' = [status EXCEPT ![d] = s],
             Phase(s) = Phase(status[d])
      PROVE  phaseOf' = phaseOf
  <2>1. \A x \in Docs : status'[x] = IF x = d THEN s ELSE status[x]
    BY <1>0, <1>c DEF RowsTypeOK
  <2>2. QED BY <1>c, <2>1 DEF phaseOf
<1>1. ASSUME NEW d \in Docs, Upload(d) PROVE Promise!Next
  <2>1. Promise!Move(d, "unknown", "pending")
    BY <1>1, <1>b DEF Upload, Phase
  <2>2. QED BY <1>1, <2>1 DEF Upload, Promise!Submit, Promise!Next
<1>2. ASSUME NEW i \in WorkerIds, NEW d \in Docs, NEW q \in {"queued", "confirmed"},
             NEW t \in Tokens, ClaimNext(i, d, q, t)
      PROVE  Kept
  <2>1. Phase(ClaimedAs(q)) = Phase(status[d])
    BY <1>2 DEF ClaimNext, Claimable, ClaimedAs, Phase
  <2>2. QED BY <1>2, <1>c, <2>1 DEF ClaimNext
<1>3. ASSUME NEW w \in Workers, task[w].pc \in Requests, Apply(w)
      PROVE  [Promise!Next]_(Promise!vars)
  <2> DEFINE k == Call(task[w].pc)
             d == task[w].doc
             p == task[w].preview
  <2>1. d \in Docs /\ k \in Transitions /\ (k = "extraction_complete" => p \in Previews)
        /\ Transition(k, IdOf[w], d, task[w].token, p)
    BY <1>0, <1>3, RequestShape DEF Apply
  <2> HIDE DEF k, d, p
  <2>2. status[d] = From(k) /\ status' = [status EXCEPT ![d] = To(k)] /\ evidence' = evidence
    BY <2>1 DEF Transition, Admits
  <2>3. CASE k = "extraction_complete"
    <3>1. preview' = [preview EXCEPT ![d] = p]
      BY <2>1, <2>3 DEF Transition
    <3>2. Promise!Move(d, "pending", "review")
      BY <1>b, <2>1, <2>2, <2>3 DEF From, To, Extraction, Phase
    <3>3. Promise!Show(d, p)
      BY <2>2, <3>1, <3>2 DEF Promise!Show
    <3>4. QED BY <2>1, <2>3, <3>3 DEF Promise!Next
  <2>4. CASE k # "extraction_complete"
    <3>1. preview' = preview
      BY <2>1, <2>4 DEF Transition
    <3>2. CASE k = "extraction_fail"
      <4>1. Promise!Move(d, "pending", "rejected")
        BY <1>b, <2>1, <2>2, <3>2 DEF From, To, Extraction, Phase
      <4>2. QED BY <2>1, <2>2, <3>1, <4>1 DEF Promise!Reject, Promise!Next
    <3>3. CASE k = "confirmed_complete"
      <4>1. Promise!Move(d, "accepted", "ready")
        BY <1>b, <2>1, <2>2, <3>3 DEF From, To, Extraction, Phase
      <4>2. QED BY <2>1, <2>2, <3>1, <4>1 DEF Promise!Publish, Promise!Next
    <3>4. CASE k = "confirmed_fail"
      <4>1. Phase(To(k)) = Phase(status[d])
        BY <2>2, <3>4 DEF From, To, Extraction, Phase
      <4>2. QED BY <1>a, <1>c, <2>1, <2>2, <3>1, <4>1
    <3>5. QED BY <2>1, <2>4, <3>2, <3>3, <3>4 DEF Transitions, Extraction
  <2>5. QED BY <2>3, <2>4
<1>4. ASSUME NEW c \in Clients, intent[c] # NoIntent, PromoteIntended(c)
      PROVE  Promise!Next
  <2> DEFINE d == intent[c].doc
             k == intent[c].choice
             e == [choice |-> intent[c].choice, preview |-> intent[c].preview]
  <2>1. d \in Docs /\ k \in Choices /\ e = [choice |-> k, preview |-> preview[d]]
    BY <1>0, <1>4, IntentShape DEF RecordInv, IntentsCurrent
  <2>2. Promote(d, e)
    BY <1>4 DEF PromoteIntended
  <2> HIDE DEF d, k, e
  <2>3. evidence[d] = {}
    BY <1>0, <2>1, <2>2 DEF Promote, Promotable, EvidenceShape
  <2>4. preview' = preview
        /\ evidence' = [evidence EXCEPT ![d] = {[choice |-> k, preview |-> preview[d]]}]
    BY <2>1, <2>2, <2>3 DEF Promote
  <2>5. Promise!Move(d, "review", "accepted")
    BY <1>b, <2>1, <2>2 DEF Promote, Promotable, Phase
  <2>6. Promise!Accept(d, k)
    BY <2>4, <2>5 DEF Promise!Accept
  <2>7. QED BY <2>1, <2>6 DEF Promise!Next
<1>5. CASE UNCHANGED rowVars
  BY <1>5, <1>a DEF rowVars, phaseOf
<1>6. ASSUME AgeLeases \/ \E i \in WorkerIds, d \in Docs, t \in Tokens : RenewLease(i, d, t)
      PROVE  Kept
  BY <1>6 DEF AgeLeases, RenewLease, phaseOf
<1>7. QED BY <1>a, <1>1, <1>2, <1>3, <1>4, <1>5, <1>6 DEF RowEffect

\* Workers, leases and retries implement the promise made to the user.
THEOREM PromiseRefined == Spec => PromiseSpec
<1>1. Init => Promise!Init
  BY DEF Init, RowsInit, Promise!Init, Phase
<1>2. RecordInv /\ [Next]_vars => [Promise!Next]_(Promise!vars)
  <2>1. RecordInv /\ UNCHANGED vars => UNCHANGED Promise!vars
    BY DEF vars, Promise!vars
  <2>2. RecordInv /\ Next => [Promise!Next]_(Promise!vars)
    BY RowEffectOfNext, PromiseStep DEF RecordInv, ShapeInv
  <2>3. QED BY <2>1, <2>2
<1>3. QED BY <1>1, <1>2, RecordInvInit, RecordInvNext, PTL DEF Spec, PromiseSpec, Promise!Spec

-----------------------------------------------------------------------------
(* Ingesting once.  Nothing is claimed for as long as no fault happened.   *)

OnceInv == Typed /\ TokensDistinct /\ ClaimsHoldUntilFault /\ IngestsSettle

LEMMA OnceInvInit == Init => OnceInv
BY TypedInit, TokensDistinctInit
   DEF OnceInv, Init, ClaimsHoldUntilFault, IngestsSettle, Fresh

\* A claim that is good stays good while its holder does not use it up.
LEMMA ClaimKept ==
    ASSUME Typed, TokensDistinct, RowEffect, faults' = 0,
           NEW w \in Workers, NEW d \in Docs, NEW t \in Tokens,
           NEW k \in {"extraction_complete", "confirmed_complete"},
           task[w].pc \in AtTask, task[w].doc = d, task[w].token = t,
           Admits(k, IdOf[w], d, t),
           ~Request(w)
    PROVE  Admits(k, IdOf[w], d, t)'
<1> USE DEF Admits, Holds
<1>0. RowsTypeOK /\ status[d] \in Leased
  BY DEF Typed, TypeOK, From, Leased
<1> USE DEF RowsTypeOK
<1>1. CASE UNCHANGED rowVars
  BY <1>1 DEF rowVars
<1>2. ASSUME NEW x \in Docs, Upload(x) PROVE Admits(k, IdOf[w], d, t)'
  BY <1>0, <1>2 DEF Upload, Leased
<1>3. ASSUME NEW v \in WorkerIds, NEW x \in Docs, NEW q \in {"queued", "confirmed"},
             NEW s \in Tokens, ClaimNext(v, x, q, s)
      PROVE  Admits(k, IdOf[w], d, t)'
  <2>1. x # d
    BY <1>0, <1>3 DEF ClaimNext, Claimable, Leased
  <2>2. QED BY <1>0, <1>3, <2>1 DEF ClaimNext
<1>4. ASSUME NEW v \in WorkerIds, NEW x \in Docs, NEW s \in Tokens, RenewLease(v, x, s)
      PROVE  Admits(k, IdOf[w], d, t)'
  BY <1>0, <1>4, UploadedDocumentsAssumption DEF RenewLease
<1>5. ASSUME NEW v \in Workers, v # w, task[v].pc \in Requests, Apply(v)
      PROVE  Admits(k, IdOf[w], d, t)'
  <2>1. task[v].doc \in Docs /\ token[task[v].doc] = task[v].token /\ task[v].token \in Tokens
    BY <1>5, RequestShape DEF Apply, Transition
  <2>2. task[v].doc # d
    BY <1>5, <2>1, UploadedDocumentsAssumption DEF TokensDistinct
  <2>3. QED BY <1>0, <1>5, <2>1, <2>2 DEF Apply, Transition
<1>6. ASSUME NEW c \in Clients, intent[c] # NoIntent, PromoteIntended(c)
      PROVE  Admits(k, IdOf[w], d, t)'
  <2>1. intent[c].doc \in Docs /\ intent[c].doc # d
    BY <1>0, <1>6, IntentShape DEF PromoteIntended, Promote, Promotable, Leased
  <2>2. QED BY <1>0, <1>6, <2>1 DEF PromoteIntended, Promote
<1>7. ASSUME AgeLeases, HeartbeatDue => faults' = faults + 1
      PROVE  Admits(k, IdOf[w], d, t)'
  <2>1. ~HeartbeatDue
    BY <1>7 DEF Typed, TypeOK
  <2>2. lease[d] # 1 /\ lease[d] > 0 /\ lease[d] \in Nat
    BY <1>0, <2>1 DEF HeartbeatDue, Renewable, NoLease
  <2>3. lease'[d] > 0
    BY <1>7, <2>2 DEF AgeLeases, Aged
  <2>4. QED BY <1>7, <2>3 DEF AgeLeases
<1>8. ASSUME NEW v \in Workers PROVE ~AnswerLost(v)
  BY DEF AnswerLost, Fault, Typed, TypeOK
<1>9. QED BY <1>1, <1>2, <1>3, <1>4, <1>5, <1>6, <1>7, <1>8 DEF RowEffect

\* What a worker may be about to do after a step without a fault.
Extracting == {"extract", "save", "fail"}
Ingesting == {"ingest", "complete", "failInner"}

LEMMA FaultlessTask ==
    ASSUME OnceInv, Next, faults = 0, faults' = 0, NEW w \in Workers
    PROVE  \/ Claim(w)
           \/ task'[w].pc \notin Extracting \cup Ingesting
           \/ /\ ~Request(w)
              /\ task[w].pc \in Extracting \cup Ingesting
              /\ task'[w].pc \in Extracting <=> task[w].pc \in Extracting
              /\ task'[w].doc = task[w].doc /\ task'[w].token = task[w].token
<1> DEFINE Goal ==
           \/ Claim(w)
           \/ task'[w].pc \notin Extracting \cup Ingesting
           \/ /\ ~Request(w)
              /\ task[w].pc \in Extracting \cup Ingesting
              /\ task'[w].pc \in Extracting <=> task[w].pc \in Extracting
              /\ task'[w].doc = task[w].doc /\ task'[w].token = task[w].token
<1> SUFFICES Goal
  OBVIOUS
<1>0. task \in [Workers -> Task] /\ Shaped(task[w]) /\ task[w] \in Task
  BY DEF OnceInv, Typed, TypeOK, TaskShape
<1>a. ASSUME NEW j, Go(w, j) PROVE task'[w] = j
  BY <1>0, <1>a DEF Go
<1>1. CASE Request(w)
  <2>1. task[w].pc \in {"save", "complete", "failInner"} /\ task[w].pc # "failInner" => Admitted(w)
    BY DEF OnceInv, ClaimsHoldUntilFault, Admitted, Call
  <2>2. PICK yes \in BOOLEAN :
           task[w].pc \in Requests /\ Go(w, Answered(task[w], yes)) /\ (yes \/ ~Admitted(w))
    BY <1>1 DEF Request
  <2>3. Answered(task[w], yes).pc \notin {"fail", "failInner"}
    BY <1>0, <2>1, <2>2, AnsweredType
  <2>4. task'[w].pc \in {"poll", "reread"}
    BY <1>0, <1>a, <2>2, <2>3, AnsweredType
  <2>5. QED BY <2>4 DEF Extracting, Ingesting
<1>2. CASE task'[w] = task[w] /\ ~Request(w)
  BY <1>2
<1>3. ASSUME NEW v \in Workers, v # w, NEW j, Go(v, j)
      PROVE  task'[w] = task[w]
  BY <1>0, <1>3 DEF Go
<1>4. CASE WorkerStep(w) /\ ~Request(w)
  <2>1. CASE FindNothing(w) \/ CallScanHandler(w)
    <3>1. task[w].pc = "poll" /\ (Go(w, NothingFound(task[w])) \/ Go(w, Handled(task[w])))
      BY <2>1 DEF FindNothing, CallScanHandler, Polls
    <3>2. task'[w].pc = "poll"
      BY <1>0, <1>a, <3>1, NothingFoundType, HandledType
    <3>3. QED BY <3>2 DEF Extracting, Ingesting
  <2>2. CASE Extract(w)
    <3>1. PICK p \in Previews : task'[w] = [task[w] EXCEPT !.pc = "save", !.preview = p]
      BY <1>a, <2>2 DEF Extract
    <3>2. QED BY <1>0, <1>4, <2>2, <3>1 DEF Extract, Extracting, Task
  <2>3. CASE ExtractFails(w)
    <3>1. task'[w] = [task[w] EXCEPT !.pc = "fail"]
      BY <1>a, <2>3 DEF ExtractFails, Step
    <3>2. QED BY <1>0, <1>4, <2>3, <3>1 DEF ExtractFails, Extracting, Task
  <2>4. CASE Ingest(w) \/ IngestFails(w)
    <3>1. PICK pc \in {"complete", "failInner"} : task'[w] = [task[w] EXCEPT !.pc = pc]
      BY <1>a, <2>4 DEF Ingest, IngestFails, Step
    <3>2. QED BY <1>0, <1>4, <2>4, <3>1 DEF Ingest, IngestFails, Extracting, Ingesting, Task
  <2>5. CASE Reread(w)
    <3>1. task'[w] = [task[w] EXCEPT !.pc = "failOuter"] \/ task'[w] = Handled(task[w])
      BY <1>a, <2>5 DEF Reread, Step
    <3>2. task'[w].pc \in {"failOuter", "poll"}
      BY <1>0, <3>1, HandledType DEF Task
    <3>3. QED BY <3>2 DEF Extracting, Ingesting
  <2>6. QED BY <1>4, <2>1, <2>2, <2>3, <2>4, <2>5 DEF WorkerStep
<1>5. ASSUME NEW v \in Workers, v # w, WorkerStep(v)
      PROVE  task'[w] = task[w]
  BY <1>3, <1>5 DEF WorkerStep, Claim, FindNothing, CallScanHandler, Extract, ExtractFails,
     Ingest, IngestFails, Request, Reread, Step
<1>6. ASSUME NEW v \in Workers PROVE ~Faulty(v)
  BY DEF Faulty, RequestLost, AnswerLost, ClaimAnswerLost, Crash, Fault
<1>7. UNCHANGED task => task'[w] = task[w]
  OBVIOUS
<1>8. QED BY <1>1, <1>2, <1>4, <1>5, <1>6, <1>7 DEF Next, Heartbeat, NewUpload, Tick, Stall,
         Stabilise, Confirming, ConfirmLost, ReadForConfirm, ReadConfirmed, SendConfirm

LEMMA ClaimsHoldNext ==
    ASSUME OnceInv, Next, faults = 0, faults' = 0
    PROVE  ClaimsHoldUntilFault'
<1> DEFINE Good(w) ==
        /\ task[w].pc \in Extracting =>
              Admits("extraction_complete", IdOf[w], task[w].doc, task[w].token)
        /\ task[w].pc \in Ingesting =>
              Admits("confirmed_complete", IdOf[w], task[w].doc, task[w].token)
<1>0. Typed /\ TokensDistinct /\ RowsTypeOK /\ RowEffect
  BY RowEffectOfNext DEF OnceInv, Typed, TypeOK
<1>1. ASSUME NEW w \in Workers PROVE Good(w)'
  <2>1. CASE Claim(w)
    <3>1. PICK d \in Docs, t \in Tokens :
             ClaimNext(IdOf[w], d, Target(task[w]), t) /\ Go(w, Started(task[w], d, t))
      BY <1>0, <2>1, ClaimTakesToken
    <3>2. task'[w] = Started(task[w], d, t) /\ task[w] \in Task
      BY <1>0, <3>1 DEF Go, Typed, TypeOK
    <3>3. /\ task'[w].doc = d /\ task'[w].token = t
          /\ task'[w].pc = IF Target(task[w]) = "queued" THEN "extract" ELSE "ingest"
      BY <3>2 DEF Started, Task
    <3>4. /\ status'[d] = ClaimedAs(Target(task[w]))
          /\ worker'[d] = IdOf[w] /\ token'[d] = t /\ lease'[d] > 0
      BY <1>0, <3>1, UploadedDocumentsAssumption DEF ClaimNext, RowsTypeOK
    <3>5. QED BY <3>3, <3>4 DEF Admits, Holds, From, Extraction, ClaimedAs, Extracting, Ingesting
  <2>2. CASE task'[w].pc \notin Extracting \cup Ingesting
    BY <2>2
  <2>3. CASE /\ ~Request(w)
             /\ task[w].pc \in Extracting \cup Ingesting
             /\ task'[w].pc \in Extracting <=> task[w].pc \in Extracting
             /\ task'[w].doc = task[w].doc /\ task'[w].token = task[w].token
    <3>1. PICK d, t : d = task[w].doc /\ t = task[w].token
      OBVIOUS
    <3>2. d \in Docs /\ t \in Tokens /\ task[w].pc \in AtTask
      BY <1>0, <2>3, <3>1 DEF Typed, TaskShape, Shaped, AtTask, Extracting, Ingesting
    <3>3. CASE task[w].pc \in Extracting
      <4>1. Admits("extraction_complete", IdOf[w], d, t)
        BY <3>1, <3>3 DEF OnceInv, ClaimsHoldUntilFault, Extracting
      <4>2. Admits("extraction_complete", IdOf[w], d, t)'
        BY <1>0, <2>3, <3>1, <3>2, <4>1, ClaimKept
      <4>3. task'[w].pc \notin Ingesting
        BY <2>3, <3>3 DEF Extracting, Ingesting
      <4>4. QED BY <2>3, <3>1, <4>2, <4>3 DEF Admits, Holds
    <3>4. CASE task[w].pc \in Ingesting
      <4>1. Admits("confirmed_complete", IdOf[w], d, t)
        BY <3>1, <3>4 DEF OnceInv, ClaimsHoldUntilFault, Ingesting
      <4>2. Admits("confirmed_complete", IdOf[w], d, t)'
        BY <1>0, <2>3, <3>1, <3>2, <4>1, ClaimKept
      <4>3. task'[w].pc \notin Extracting
        BY <2>3, <3>4 DEF Extracting, Ingesting
      <4>4. QED BY <2>3, <3>1, <4>2, <4>3 DEF Admits, Holds
    <3>5. QED BY <2>3, <3>3, <3>4
  <2>4. QED BY <2>1, <2>2, <2>3, FaultlessTask
<1>2. QED BY <1>1 DEF ClaimsHoldUntilFault, Extracting, Ingesting, Admits, Holds

LEMMA ReadyStays ==
    ASSUME Typed, RowEffect, NEW d \in Docs, status[d] = "ready"
    PROVE  status'[d] = "ready"
<1>0. RowsTypeOK
  BY DEF Typed, TypeOK
<1>1. ASSUME NEW w \in Workers, task[w].pc \in Requests, Apply(w)
      PROVE  status'[d] = "ready"
  BY <1>0, <1>1, RequestShape DEF Apply, Transition, Admits, From, RowsTypeOK
<1>2. ASSUME NEW c \in Clients, intent[c] # NoIntent, PromoteIntended(c)
      PROVE  status'[d] = "ready"
  BY <1>0, <1>2, IntentShape DEF PromoteIntended, Promote, Promotable, RowsTypeOK
<1>3. QED BY <1>0, <1>1, <1>2 DEF RowEffect, rowVars, Upload, ClaimNext, Claimable, ClaimedAs,
         RenewLease, AgeLeases, RowsTypeOK

\* A worker that has ingested a document keeps at it or completes it.
LEMMA CompleteSettles ==
    ASSUME OnceInv, Next, faults = 0, faults' = 0, NEW w \in Workers, task[w].pc = "complete"
    PROVE  task'[w] = task[w] \/ status'[task[w].doc] = "ready"
<1>0. task \in [Workers -> Task] /\ RowsTypeOK /\ Typed
  BY DEF OnceInv, Typed, TypeOK
<1>1. CASE Request(w)
  <2>1. Admitted(w)
    BY DEF OnceInv, ClaimsHoldUntilFault, Admitted, Call
  <2>2. task[w].doc \in Docs /\ Apply(w)
    BY <1>0, <1>1, <2>1, RequestShape DEF Request
  <2>3. QED BY <1>0, <2>2 DEF Apply, Transition, Call, To, Extraction, RowsTypeOK
<1>2. ASSUME NEW v \in Workers, v # w, NEW j, Go(v, j)
      PROVE  task'[w] = task[w]
  BY <1>0, <1>2 DEF Go
<1>3. ASSUME NEW v \in Workers, v # w, WorkerStep(v)
      PROVE  task'[w] = task[w]
  BY <1>2, <1>3 DEF WorkerStep, Claim, FindNothing, CallScanHandler, Extract, ExtractFails,
     Ingest, IngestFails, Request, Reread, Step
<1>4. CASE WorkerStep(w)
  BY <1>1, <1>4 DEF WorkerStep, Claim, FindNothing, CallScanHandler, Polls, Extract, ExtractFails,
     Ingest, IngestFails, Reread
<1>5. ASSUME NEW v \in Workers PROVE ~Faulty(v)
  BY DEF Faulty, RequestLost, AnswerLost, ClaimAnswerLost, Crash, Fault
<1>6. UNCHANGED task => task'[w] = task[w]
  OBVIOUS
<1>7. QED BY <1>3, <1>4, <1>5, <1>6 DEF Next, Heartbeat, NewUpload, Tick, Stall,
         Stabilise, Confirming, ConfirmLost, ReadForConfirm, ReadConfirmed, SendConfirm

LEMMA IngestsSettleNext ==
    ASSUME OnceInv, Next, faults = 0, faults' = 0
    PROVE  IngestsSettle'
<1> DEFINE Settled(d) ==
        \/ ingests[d] = 0
        \/ /\ ingests[d] = 1
           /\ \/ status[d] = "ready"
              \/ \E w \in Workers : task[w].pc = "complete" /\ task[w].doc = d
<1>0. Typed /\ TokensDistinct /\ RowEffect /\ SideEffects
  BY RowEffectOfNext, SideEffectsOfNext DEF OnceInv
<1>t. task \in [Workers -> Task] /\ ingests \in [Docs -> Nat]
  BY <1>0 DEF Typed, TypeOK
<1>a. ASSUME NEW d \in Docs PROVE Settled(d)
  BY DEF OnceInv, IngestsSettle
<1>b. ASSUME NEW w \in Workers, task[w].pc \in Ingesting
      PROVE  /\ status[task[w].doc] = "ingesting_memory" /\ token[task[w].doc] = task[w].token
             /\ task[w].token # NoToken
  BY <1>0, <1>b, UploadedDocumentsAssumption
     DEF OnceInv, ClaimsHoldUntilFault, Admits, Holds, From, Extraction, Ingesting,
         Typed, TaskShape, Shaped, AtTask
<1>1. ASSUME NEW d \in Docs PROVE Settled(d)'
  <2>1. ASSUME ingests'[d] = ingests[d] PROVE Settled(d)'
    <3>1. CASE ingests[d] = 0
      BY <2>1, <3>1
    <3>2. CASE ingests[d] = 1 /\ status[d] = "ready"
      BY <1>0, <2>1, <3>2, ReadyStays
    <3>3. CASE ingests[d] = 1 /\ \E w \in Workers : task[w].pc = "complete" /\ task[w].doc = d
      <4>1. PICK w \in Workers : task[w].pc = "complete" /\ task[w].doc = d
        BY <3>3
      <4>2. task'[w] = task[w] \/ status'[d] = "ready"
        BY <4>1, CompleteSettles
      <4>3. QED BY <2>1, <3>3, <4>1, <4>2
    <3>4. QED BY <1>a, <3>1, <3>2, <3>3
  <2>2. ASSUME NEW w \in Workers, Ingest(w), task[w].doc = d PROVE Settled(d)'
    <3>1. task[w].pc = "ingest" /\ ingests' = [ingests EXCEPT ![d] = ingests[d] + 1]
          /\ task'[w] = [task[w] EXCEPT !.pc = "complete"]
      BY <1>t, <2>2 DEF Ingest, Step, Go
    <3>2. status[d] # "ready"
      BY <1>b, <2>2, <3>1 DEF Ingesting
    <3>3. ~ \E v \in Workers : task[v].pc = "complete" /\ task[v].doc = d
      BY <1>0, <1>b, <2>2, <3>1 DEF Ingesting, TokensDistinct
    <3>4. ingests[d] = 0
      BY <1>a, <3>2, <3>3
    <3>5. task'[w].pc = "complete" /\ task'[w].doc = d /\ ingests'[d] = 1
      BY <1>t, <2>2, <3>1, <3>4 DEF Task
    <3>6. QED BY <3>5
  <2>3. ASSUME NEW w \in Workers, Ingest(w), task[w].doc # d PROVE ingests'[d] = ingests[d]
    BY <1>t, <2>3 DEF Ingest
  <2>4. QED BY <1>0, <2>1, <2>2, <2>3 DEF SideEffects, outcomeVars, ExtractFails, RequestLost
<1>2. QED BY <1>1 DEF IngestsSettle

LEMMA OnceInvNext == OnceInv /\ [Next]_vars => OnceInv'
<1> SUFFICES ASSUME OnceInv, [Next]_vars PROVE OnceInv'
  OBVIOUS
<1>0. Typed' /\ TokensDistinct'
  BY TypedNext, TokensDistinctNext DEF OnceInv
<1>1. CASE UNCHANGED vars
  BY <1>0, <1>1 DEF vars, OnceInv, ClaimsHoldUntilFault, IngestsSettle, Admits, Holds
<1>2. CASE Next /\ faults' = 0
  <2>1. faults = 0
    BY <1>2, SideEffectsOfNext DEF SideEffects, OnceInv, Typed, TypeOK
  <2>2. QED BY <1>0, <1>2, <2>1, ClaimsHoldNext, IngestsSettleNext DEF OnceInv
<1>3. CASE faults' # 0
  BY <1>0, <1>3 DEF OnceInv, ClaimsHoldUntilFault, IngestsSettle
<1>4. QED BY <1>1, <1>2, <1>3

\* However long an ingest takes, it is done once as long as nothing is lost and
\* nobody crashes or stalls: no live lease runs out.
THEOREM IngestedOnce == Spec => []IngestedOnceUntilFault
<1>1. OnceInv => IngestedOnceUntilFault
  BY DEF OnceInv, IngestsSettle, IngestedOnceUntilFault
<1>2. QED BY <1>1, OnceInvInit, OnceInvNext, PTL DEF Spec

=============================================================================
