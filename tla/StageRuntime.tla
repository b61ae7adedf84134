----------------------------- MODULE StageRuntime -----------------------------
(***************************************************************************)
(* The stage runtime of a claimed candidate: run and runProviderAttempt    *)
(* over the durable checkpoints, with the framework lenses that call the   *)
(* provider concurrently.  An execution is one claim of the candidate; a   *)
(* later one starts from the checkpoints an earlier one left, and the      *)
(* earlier one may still be running.                                       *)
(*                                                                         *)
(* An execution sends whole checkpoints, computed from the copy it keeps   *)
(* in memory.  It has two places to send from: run itself, and the ledger  *)
(* mutations of the lenses, which a mutex serialises.  The two are not     *)
(* serialised with each other, and the copy is replaced when the answer    *)
(* arrives.  A provider call costs one unit; tokens are what its ledger    *)
(* entry enforces: the reservation until the usage is known.               *)
(***************************************************************************)
EXTENDS Naturals, Sequences, FiniteSets, FiniteSetsExt

CONSTANTS
    Plan,           \* the stages of an execution, in order; the last is the lenses'
    MaxAttempts,    \* per stage: maxAttempts of its policy
    Declinable,     \* stages whose operation can find the candidate unavailable
    Executions,     \* 1..n, in the order of their claims
    Lenses,         \* the framework cards; in which order they are taken is left open
    Outputs,        \* per lens: how many outputs it may ask for
    Transports,     \* how often one request is sent
    Concurrency,    \* lens workers
    Reserve,        \* tokens reserved for a call
    Usages,         \* tokens a call may turn out to use
    MaxCost,        \* the candidate's budget
    MaxTokens,
    MaxFaults       \* bound on lost requests, lost answers and crashes

ASSUME StageRuntimeAssumption ==
    /\ Plan \in Seq(STRING) /\ Len(Plan) > 0
    /\ \A i, j \in 1..Len(Plan) : Plan[i] = Plan[j] => i = j
    /\ Plan[Len(Plan)] # "framework_catalog"
    /\ MaxAttempts \in [{Plan[i] : i \in 1..Len(Plan)} -> Nat \ {0}]
    /\ MaxAttempts[Plan[Len(Plan)]] = 1
    /\ Executions \subseteq Nat \ {0}
    /\ Outputs \in [Lenses -> Nat \ {0}]
    /\ {Transports, Concurrency} \subseteq Nat \ {0}
    /\ Usages \subseteq Nat
    /\ {Reserve, MaxCost, MaxTokens, MaxFaults} \subseteq Nat

Stages == {Plan[i] : i \in 1..Len(Plan)}
LensStage == Plan[Len(Plan)]

\* A provider attempt fingerprint: the lens, the output and the transport attempt.
Calls == {c \in Lenses \X (1..Max({Outputs[l] : l \in Lenses})) \X (1..Transports) :
             c[2] <= Outputs[c[1]]}

Entry == [status : {"reserved", "completed", "failed", "aborted"}, tokens : Usages \cup {Reserve}]

Ledgers == UNION {[C -> Entry] : C \in SUBSET Calls}

Row == [status : {"absent", "running", "completed", "failed"},
        attempts : Nat,
        ledger : Ledgers]

NoRow == [status |-> "absent", attempts |-> 0, ledger |-> <<>>]

Known(r) == DOMAIN r.ledger
CostOf(r) == Cardinality(Known(r))
Total(f) == MapThenSumSet(LAMBDA c : f[c], DOMAIN f)
TokensOf(r) == Total([c \in Known(r) |-> r.ledger[c].tokens])

Recorded(r, call, entry) ==
    [r EXCEPT !.ledger = [c \in Known(r) \cup {call} |-> IF c = call THEN entry ELSE r.ledger[c]]]

VARIABLES
    row,        \* per stage: the durable checkpoint
    holder,     \* the execution with the newest lease token, 0 for none
    live,       \* that lease has not run out
    settled,    \* the candidate is no longer running
    ex,         \* per execution: its memory
    called,     \* history: how often each provider call was made
    faults

vars == <<row, holder, live, settled, ex, called, faults>>

Errors == {"none", "budget", "timeout", "declined", "broken"}

Lens == [pc : {"idle", "ask", "reserving", "calling", "settle", "settling", "done", "threw"},
         output : Nat, transport : Nat,
         end : {"none", "valid", "invalid", "truncated", "retryable", "fatal", "aborted"},
         tokens : Nat,      \* what the settlement will enforce
         error : Errors]

\* A checkpoint on its way: what was sent, and what became of it.
Saving == [phase : {"none", "sent", "stored", "refused", "lost"}, stage : Stages, row : Row]

Execution ==
    [pc : {"off", "enter", "starting", "operating", "catching", "completing", "ended", "crashed"},
     at : 1..Len(Plan), ceiling : Nat,
     memory : [Stages -> Row], cost : Nat, tokens : Nat,
     aborted : BOOLEAN,
     outcome : {"none", "completed", "unavailable", "failed"},
     lens : [Lenses -> Lens],
     save : [{"run", "ledger"} -> Saving]]

TypeOK ==
    /\ row \in [Stages -> Row]
    /\ holder \in Executions \cup {0}
    /\ {live, settled} \subseteq BOOLEAN
    /\ ex \in [Executions -> Execution]
    /\ called \in [Calls -> Nat]
    /\ faults \in 0..MaxFaults

NoSave == [phase |-> "none", stage |-> LensStage, row |-> NoRow]
IdleLens == [pc |-> "idle", output |-> 1, transport |-> 1, end |-> "none", tokens |-> 0,
             error |-> "none"]

Off == [pc |-> "off", at |-> 1, ceiling |-> 0, memory |-> [s \in Stages |-> NoRow],
        cost |-> 0, tokens |-> 0, aborted |-> FALSE, outcome |-> "none",
        lens |-> [l \in Lenses |-> IdleLens],
        save |-> [p \in {"run", "ledger"} |-> NoSave]]

Init ==
    /\ row = [s \in Stages |-> NoRow]
    /\ holder = 0 /\ live = FALSE /\ settled = FALSE
    /\ ex = [e \in Executions |-> Off]
    /\ called = [c \in Calls |-> 0]
    /\ faults = 0

-----------------------------------------------------------------------------
(* Pieces of the actions. *)

\* The lease check of save_underwriting_checkpoint.
Holds(e) == holder = e /\ live /\ ~settled

\* A completed checkpoint is immutable.
Storable(s, r) == row[s].status = "completed" => r = row[s]

Send(x, place, s, r) == [x EXCEPT !.save[place] = [phase |-> "sent", stage |-> s, row |-> r]]

Closed(x, place) == [x EXCEPT !.save[place] = NoSave]

\* The answer arrived: the execution's copy is what it sent.
Accepted(x, place) ==
    Closed([x EXCEPT !.memory[x.save[place].stage] = x.save[place].row], place)

Does(e, x) ==
    /\ ex' = [ex EXCEPT ![e] = x]
    /\ UNCHANGED <<row, holder, live, settled, called, faults>>

OverLate(x, cost, tokens) == x.cost > MaxCost \/ x.tokens > MaxTokens

Over(x, cost, tokens) == x.cost + cost > MaxCost \/ x.tokens + tokens > MaxTokens

Failed(r) == [r EXCEPT !.status = "failed"]

LedgerFree(x) == x.save["ledger"].phase = "none"

Stage(x) == Plan[x.at]

\* A worker takes the next card.  One whose card threw takes no other.
MayTake(x, l) ==
    /\ x.pc = "operating" \/ \E k \in Lenses : x.lens[k].pc # "idle"
    /\ x.pc # "crashed" /\ Stage(x) = LensStage
    /\ x.lens[l].pc = "idle"
    /\ Cardinality({k \in Lenses : x.lens[k].pc \notin {"idle", "done"}}) < Concurrency

OneDone(x) == \E l \in Lenses : x.lens[l].pc = "done"

AllDone(x) == \A l \in Lenses : x.lens[l].pc = "done"
SomeThrew(x) == \E l \in Lenses : x.lens[l].pc = "threw"

\* What the process does before it looks at the next answer, timer or event:
\* its microtasks.  They leave the order among themselves open.  They read and write
\* the memory of their process alone, so nothing else needs to happen among them.
Busy(x) ==
    /\ x.pc # "crashed"
    /\ \/ x.pc = "enter"
       \/ x.pc = "operating" /\ Stage(x) = LensStage /\ (AllDone(x) \/ SomeThrew(x))
       \/ LedgerFree(x) /\ \E l \in Lenses : x.lens[l].pc \in {"ask", "settle"}
       \/ \E l \in Lenses : MayTake(x, l)

-----------------------------------------------------------------------------
(* Claims. *)

\* claim_underwriting_candidate, then createCandidateStageRuntime, which reads the
\* checkpoints and counts what they have spent.
Claim(e) ==
    /\ ex[e].pc = "off" /\ ~settled /\ ~live
    /\ \A o \in Executions : o < e => ex[o].pc # "off"
    /\ holder' = e /\ live' = TRUE
    /\ ex' = [ex EXCEPT ![e] = [Off EXCEPT
                  !.pc = "enter",
                  !.memory = row,
                  !.cost = CostOf(row[LensStage]),
                  !.tokens = TokensOf(row[LensStage])]]
    /\ UNCHANGED <<row, settled, called, faults>>

-----------------------------------------------------------------------------
(* run *)

Ends(x, outcome) == [x EXCEPT !.pc = "ended", !.outcome = outcome, !.ceiling = 0]

\* How the executor ends when run throws.
OutcomeOf(s, error) ==
    IF error = "declined" \/ (error = "budget" /\ s # "framework_catalog")
       \/ (error = "timeout" /\ s \in {"framework_catalog", "framework_lenses"})
    THEN "unavailable" ELSE "failed"

Advance(x) ==
    IF x.at = Len(Plan) THEN Ends(x, "completed") ELSE [x EXCEPT !.pc = "enter", !.at = @ + 1]

CatchQuietly(x, error) ==
    Send([x EXCEPT !.pc = "catching", !.outcome = OutcomeOf(Stage(x), error)], "run", Stage(x),
         x.memory[Stage(x)])

Catch(x, error) ==
    Send([x EXCEPT !.pc = "catching", !.outcome = OutcomeOf(Stage(x), error)], "run", Stage(x),
         Failed(x.memory[Stage(x)]))

\* The head of run's loop.
Attempt(x) ==
    LET c == x.memory[Stage(x)] IN
    IF c.attempts < x.ceiling
    THEN IF Over(x, 0, 0) THEN Catch(x, "budget")
         ELSE Send([x EXCEPT !.pc = "starting"], "run", Stage(x),
                   [c EXCEPT !.status = "running", !.attempts = @ + 1])
    ELSE IF c.status = "failed" THEN Ends(x, "failed")
    ELSE Catch(x, "broken")

EnterAnew(e) ==
    LET x == ex[e]
        c == x.memory[Stage(x)]
    IN /\ x.pc = "enter"
       /\ IF c.status = "completed" THEN Does(e, Advance(x))
          ELSE Does(e, Attempt([x EXCEPT !.ceiling = MaxAttempts[Stage(x)] + c.attempts]))

\* A completed checkpoint is replayed.  Loading the catalog costs nothing: every
\* execution may try it anew.
Enter(e) ==
    LET x == ex[e]
        c == x.memory[Stage(x)]
    IN /\ x.pc = "enter"
       /\ IF c.status = "completed" THEN Does(e, Advance(x))
          ELSE Does(e, Attempt([x EXCEPT !.ceiling =
                   MaxAttempts[Stage(x)] + IF Stage(x) = "framework_catalog" THEN c.attempts ELSE 0]))

Completes(x) ==
    Send([x EXCEPT !.pc = "completing"], "run", Stage(x),
         [x.memory[Stage(x)] EXCEPT !.status = "completed"])

\* The operation of a stage without provider calls ends.
Operate(e) ==
    LET x == ex[e] IN
    /\ x.pc = "operating" /\ Stage(x) # LensStage
    /\ \/ Does(e, Completes(x))
       \/ Does(e, Catch(x, "broken"))
       \/ Stage(x) \in Declinable /\ Does(e, Catch(x, "declined"))
       \/ Does(e, Catch(x, "timeout"))
       \* a retryable transport error
       \/ Does(e, IF x.memory[Stage(x)].attempts < x.ceiling THEN Attempt(x)
                  ELSE Catch(x, "broken"))

\* runAll ends when all lenses are done, or with the first that throws; the
\* others go on, and nothing tells them to stop.
RunAllEnds(e) ==
    LET x == ex[e] IN
    /\ x.pc = "operating" /\ Stage(x) = LensStage
    /\ \/ AllDone(x) /\ Does(e, Completes(x))
       \/ \E l \in Lenses : x.lens[l].pc = "threw" /\ Does(e, Catch(x, x.lens[l].error))

\* The stage's timer aborts the signal that the lenses watch.
TimeOut(e) ==
    LET x == ex[e] IN
    /\ x.pc = "operating" /\ Stage(x) = LensStage
    /\ Does(e, Catch([x EXCEPT !.aborted = TRUE], "timeout"))

\* run goes on after one of its saves.
RunSaved(e) ==
    LET x == ex[e]
        ok == x.save["run"].phase = "stored"
        y == IF ok THEN Accepted(x, "run") ELSE Closed(x, "run")
    IN /\ x.pc \in {"starting", "catching", "completing"}
       /\ x.save["run"].phase \in {"stored", "refused", "lost"}
       /\ Does(e, IF ~ok THEN Ends(y, "failed")
                  ELSE IF x.pc = "starting" THEN [y EXCEPT !.pc = "operating"]
                  ELSE IF x.pc = "completing" THEN Advance(y)
                  ELSE Ends(y, y.outcome))

\* processCandidate settles the candidate as run ended; its lease ends with it.
Settle(e) ==
    /\ ex[e].pc = "ended" /\ ~settled
    /\ settled' = TRUE /\ holder' = 0 /\ live' = FALSE
    /\ UNCHANGED <<row, ex, called, faults>>

-----------------------------------------------------------------------------
(* The lenses and runProviderAttempt. *)

With(x, l, y) == [x EXCEPT !.lens[l] = y]

Throws(x, l, error) ==
    With(x, l, [IdleLens EXCEPT !.pc = "threw",
                                !.error = IF x.pc = "operating" THEN error ELSE "none"])

Finishes(x, l) == With(x, l, [IdleLens EXCEPT !.pc = "done"])

Call(x, l) == <<l, x.lens[l].output, x.lens[l].transport>>

TakeCard(e, l) ==
    /\ MayTake(ex[e], l)
    /\ Does(e, IF ex[e].aborted THEN Throws(ex[e], l, "timeout")
               ELSE With(ex[e], l, [ex[e].lens[l] EXCEPT !.pc = "ask"]))

\* The reservation, before the call; the mutex is taken.
ReserveCall(e, l) ==
    LET x == ex[e]
        c == x.memory[LensStage]
        y == With(x, l, [x.lens[l] EXCEPT !.pc = "reserving"])
    IN /\ x.pc # "crashed" /\ x.lens[l].pc = "ask" /\ LedgerFree(x)
       /\ Does(e,
            IF c.status # "running" \/ Call(x, l) \in Known(c) THEN Throws(x, l, "broken")
            ELSE IF Over(x, 1, Reserve)
            THEN Send([y EXCEPT !.lens[l].error = "budget"], "ledger", LensStage, Failed(c))
            ELSE Send(y, "ledger", LensStage,
                      Recorded(c, Call(x, l), [status |-> "reserved", tokens |-> Reserve])))

\* A retryable transport error, of the provider or of the database.
SendAgain(x, l) ==
    LET n == x.lens[l] IN
    IF x.aborted THEN Throws(x, l, "timeout")
    ELSE IF n.transport < Transports
    THEN With(x, l, [IdleLens EXCEPT !.pc = "ask", !.output = n.output,
                                     !.transport = n.transport + 1])
    ELSE Throws(x, l, "broken")

\* A mutation of the ledger failed.
LedgerFailed(e, l) ==
    LET x == ex[e]
        phase == x.save["ledger"].phase
        y == Closed(x, "ledger")
    IN /\ phase \in {"refused", "lost"}
       /\ Does(e, IF phase = "lost" THEN SendAgain(y, l) ELSE Throws(y, l, "broken"))

\* Its save is answered: only now the provider is called.
Reserved(e, l) ==
    LET x == ex[e]
        y == Accepted(x, "ledger")
    IN /\ x.pc # "crashed" /\ x.lens[l].pc = "reserving"
       /\ \/ LedgerFailed(e, l)
          \/ /\ x.save["ledger"].phase = "stored"
             /\ x.lens[l].error = "budget"
             /\ Does(e, Throws(y, l, "budget"))
          \/ /\ x.save["ledger"].phase = "stored"
             /\ x.lens[l].error = "none"
             /\ called' = [called EXCEPT ![Call(x, l)] = @ + 1]
             /\ ex' = [ex EXCEPT ![e] = [y EXCEPT !.cost = @ + 1, !.tokens = @ + Reserve,
                                                 !.lens[l].pc = "calling"]]
             /\ UNCHANGED <<row, holder, live, settled, faults>>

\* The call ends; its usage is known if it was answered.
CallEnds(e, l, end, tokens) ==
    LET x == ex[e] IN
    /\ x.lens[l].pc = "calling"
    /\ IF end \in {"valid", "invalid", "truncated"} THEN tokens \in Usages ELSE tokens = Reserve
    /\ x.pc # "crashed"
    /\ Does(e, With(x, l, [x.lens[l] EXCEPT !.pc = "settle", !.end = end, !.tokens = tokens]))

Answered(e, l) == \E end \in {"valid", "invalid", "truncated", "retryable", "fatal"},
                     tokens \in Usages \cup {Reserve} : CallEnds(e, l, end, tokens)

Aborted(e, l) == ex[e].aborted /\ CallEnds(e, l, "aborted", Reserve)

EntryFor(n) ==
    [status |-> IF n.end \in {"valid", "invalid"} THEN "completed"
                ELSE IF n.end = "aborted" THEN "aborted" ELSE "failed",
     tokens |-> n.tokens]

\* The settlement; the mutex is taken.
SettleCall(e, l) ==
    LET x == ex[e]
        c == x.memory[LensStage]
        n == x.lens[l]
        r == Recorded(c, Call(x, l), EntryFor(n))
    IN /\ x.pc # "crashed" /\ n.pc = "settle" /\ LedgerFree(x)
       /\ Does(e, IF Call(x, l) \notin Known(c) THEN Throws(x, l, "broken")
                  ELSE Send(With(x, l, [n EXCEPT !.pc = "settling"]), "ledger", LensStage,
                            IF n.end = "aborted" THEN Failed(r) ELSE r))

\* Ask for another output: a repair, or an abstention when none is left.
NextOutput(x, l) ==
    LET n == x.lens[l] IN
    IF x.aborted THEN Throws(x, l, "timeout")
    ELSE IF n.output < Outputs[l]
    THEN With(x, l, [IdleLens EXCEPT !.pc = "ask", !.output = n.output + 1])
    ELSE Finishes(x, l)

AfterCall(x, l) ==
    LET n == x.lens[l] IN
    IF n.end = "valid" THEN Finishes(x, l)
    ELSE IF n.end \in {"invalid", "truncated"} THEN NextOutput(x, l)
    ELSE IF n.end = "retryable" THEN SendAgain(x, l)
    ELSE Throws(x, l, IF x.aborted THEN "timeout" ELSE "broken")

CallSettled(e, l) ==
    LET x == ex[e]
        y == Accepted(x, "ledger")
    IN /\ x.pc # "crashed" /\ x.lens[l].pc = "settling"
       /\ \/ LedgerFailed(e, l)
          \/ /\ x.save["ledger"].phase = "stored"
             /\ Does(e, AfterCall([y EXCEPT !.tokens = (@ + x.lens[l].tokens) - Reserve], l))

-----------------------------------------------------------------------------
(* The database, faults and time. *)

\* save_underwriting_checkpoint runs: requests of one execution may overtake
\* each other.
Store(e, place) ==
    LET v == ex[e].save[place]
        ok == Holds(e) /\ Storable(v.stage, v.row)
    IN /\ v.phase = "sent"
       /\ row' = IF ok THEN [row EXCEPT ![v.stage] = v.row] ELSE row
       /\ \/ /\ ex' = [ex EXCEPT ![e].save[place].phase = IF ok THEN "stored" ELSE "refused"]
             /\ UNCHANGED faults
          \* the answer is lost
          \/ /\ ok /\ faults < MaxFaults
             /\ faults' = faults + 1
             /\ ex' = [ex EXCEPT ![e].save[place].phase = "lost"]
       /\ UNCHANGED <<holder, live, settled, called>>

RequestLost(e, place) ==
    /\ ex[e].save[place].phase = "sent"
    /\ faults < MaxFaults
    /\ faults' = faults + 1
    /\ ex' = [ex EXCEPT ![e].save[place].phase = "lost"]
    /\ UNCHANGED <<row, holder, live, settled, called>>

\* The process dies; what it has sent may still be stored.
Crash(e) ==
    /\ ex[e].pc \notin {"off", "ended", "crashed"}
    /\ faults < MaxFaults
    /\ faults' = faults + 1
    /\ ex' = [ex EXCEPT ![e] = [Off EXCEPT !.pc = "crashed", !.save = ex[e].save]]
    /\ UNCHANGED <<row, holder, live, settled, called>>

Expire ==
    /\ live /\ live' = FALSE
    /\ UNCHANGED <<row, holder, settled, ex, called, faults>>

Microtask(e) ==
    \/ Enter(e) \/ RunAllEnds(e)
    \/ \E l \in Lenses : TakeCard(e, l) \/ ReserveCall(e, l) \/ SettleCall(e, l)

\* An answer, a timer or an event that the process looks at.
Event(e) ==
    \/ Operate(e) \/ TimeOut(e) \/ RunSaved(e)
    \/ \E l \in Lenses : Reserved(e, l) \/ Answered(e, l) \/ Aborted(e, l) \/ CallSettled(e, l)

Outside(e) ==
    \/ Claim(e) \/ Settle(e) \/ Crash(e)
    \/ \E place \in {"run", "ledger"} : Store(e, place) \/ RequestLost(e, place)

Next ==
    \/ \E e \in Executions : Microtask(e)
    \/ /\ \A e \in Executions : ~Busy(ex[e])
       /\ Expire \/ \E e \in Executions : Event(e) \/ Outside(e)

Spec == Init /\ [][Next]_vars
-----------------------------------------------------------------------------
(* Properties. *)

\* A provider call is never repeated, although an execution that reclaims the
\* candidate starts over, its predecessor may still be running and saves are lost.
CalledOnce == \A c \in Calls : called[c] <= 1

\* What all executions together called and reserved never exceeds the candidate's
\* budget, even if the durable ledger lost a reservation; only what calls used
\* beyond their reservations may.
BudgetHolds ==
    LET overrun == [c \in Known(row[LensStage]) |->
                        Max({row[LensStage].ledger[c].tokens, Reserve}) - Reserve]
    IN /\ Cardinality({c \in Calls : called[c] > 0}) <= MaxCost
       /\ TokensOf(row[LensStage]) <= MaxTokens + Total(overrun)

\* The usage an execution counts is what its copy of the ledger enforces until one
\* of its lenses throws or run ends: neither a replay nor overlapping settlements
\* reset or double it.
UsageAgrees == \A e \in Executions :
    LET x == ex[e] IN
    /\ x.pc \in {"enter", "starting", "operating", "completing"}
    /\ \A l \in Lenses : x.lens[l].pc # "threw"
    => x.cost = CostOf(x.memory[LensStage]) /\ x.tokens = TokensOf(x.memory[LensStage])

\* When the lens stage is completed, every call made for it is in its ledger, and
\* settled there unless an answer of the database was lost: no lens is still at
\* work, and what is replayed later is final.
CompletedIsSettled ==
    row[LensStage].status = "completed" =>
        \A c \in Calls : called[c] > 0 =>
            /\ c \in Known(row[LensStage])
            /\ row[LensStage].ledger[c].status \in
                   {"completed", "failed"} \cup IF faults = 0 THEN {} ELSE {"reserved"}

\* While the checkpoint says running, its ledger has every call made so far,
\* although the save of a failure is not serialised with reservations.
RunningLedgerComplete ==
    row[LensStage].status = "running" =>
        \A c \in Calls : called[c] > 0 => c \in Known(row[LensStage])

=============================================================================
