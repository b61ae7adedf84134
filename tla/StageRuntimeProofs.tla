--------------------------- MODULE StageRuntimeProofs ---------------------------
(***************************************************************************)
(* StageRuntime keeps CalledOnce, RunningLedgerComplete,                   *)
(* CompletedIsSettled, BudgetHolds and UsageAgrees, whatever the plan, the *)
(* cards, the number of executions and the bounds are.                     *)
(*                                                                         *)
(* The argument: at most one execution ever works on the lens stage, the   *)
(* one whose starting checkpoint was stored over a row without attempts    *)
(* (OneWorks, FreshRow); and the execution that holds the lease computes   *)
(* what it sends from a copy that has every call made or about to be made  *)
(* (Held).  Sound says what one execution has in hand: how its run, the    *)
(* ledger mutation under way and its memory fit together.                  *)
(*                                                                         *)
(* What is spent needs two more facts: a ledger that says running counts   *)
(* in the execution that works no less than it enforces (Paid), but for    *)
(* the mutation under way; and a lens only asks for a call that comes      *)
(* after those recorded for it (Follows), so a reservation is never        *)
(* recorded over a settled entry.                                          *)
(***************************************************************************)
EXTENDS StageRuntime, Integers, FiniteSetTheorems, WellFoundedInduction, NaturalsInduction, TLAPS

(***************************************************************************)
(* One execution.                                                          *)
(***************************************************************************)
AtLens(x) == Stage(x) = LensStage
Started(x) == \E l \in Lenses : x.lens[l].pc # "idle"
LRow(x) == x.memory[LensStage]

IsRow(r) ==
    /\ r = [status |-> r.status, attempts |-> r.attempts, ledger |-> r.ledger]
    /\ r.attempts \in Nat

IsLens(n) == n = [pc |-> n.pc, output |-> n.output, transport |-> n.transport, end |-> n.end,
                  tokens |-> n.tokens, error |-> n.error]

IsSaving(v) ==
    /\ v = [phase |-> v.phase, stage |-> v.stage, row |-> v.row]
    /\ v.stage \in Stages /\ IsRow(v.row)

IsExec(x) ==
    /\ x = [pc |-> x.pc, at |-> x.at, ceiling |-> x.ceiling, memory |-> x.memory,
            cost |-> x.cost, tokens |-> x.tokens, aborted |-> x.aborted,
            outcome |-> x.outcome, lens |-> x.lens, save |-> x.save]
    /\ x.at \in 1..Len(Plan)
    /\ x.memory = [s \in Stages |-> x.memory[s]]
    /\ x.lens = [l \in Lenses |-> x.lens[l]]
    /\ x.save = [p \in {"run", "ledger"} |-> x.save[p]]
    /\ \A s \in Stages : IsRow(x.memory[s])
    /\ \A l \in Lenses : IsLens(x.lens[l])
    /\ \A p \in {"run", "ledger"} : IsSaving(x.save[p])

\* The lens stage runs.
Working(x) ==
    \/ Started(x)
    \/ x.pc \in {"operating", "completing"} /\ AtLens(x)
    \/ x.pc = "starting" /\ AtLens(x) /\ x.save["run"].phase = "stored"

Reserving(x, l) == x.lens[l].pc = "reserving" /\ x.lens[l].error = "none"

\* A reservation was stored, and its call comes next.
PendingAt(x, l, c) ==
    /\ Reserving(x, l)
    /\ x.save["ledger"].phase = "stored" /\ Call(x, l) = c
Pending(x, c) == \E l \in Lenses : PendingAt(x, l, c)

Final(x) == AllDone(x) /\ x.pc \in {"completing", "ended"}

InFlight(x, c) == \E l \in Lenses :
    x.lens[l].pc \in {"calling", "settle", "settling"} /\ Call(x, l) = c

Accounted(r, c) == r.ledger[c].status \in {"completed", "failed"} \cup IF faults = 0 THEN {} ELSE {"reserved"}

\* What run has in its hands.
RunSound(x) ==
    /\ x.save["run"].phase # "none" => x.pc \in {"starting", "catching", "completing", "crashed"}
    /\ x.pc \in {"starting", "catching", "completing"} =>
           x.save["run"].phase # "none" /\ x.save["run"].stage = Stage(x)
    /\ x.pc = "starting" /\ AtLens(x) =>
           /\ x.save["run"].row = [LRow(x) EXCEPT !.status = "running", !.attempts = @ + 1]
           /\ LRow(x).attempts = 0
    /\ x.pc = "completing" /\ AtLens(x) =>
           /\ AllDone(x)
           /\ x.save["run"].row = [LRow(x) EXCEPT !.status = "completed"]
    /\ x.pc = "catching" /\ AtLens(x) =>
           /\ x.save["run"].row.status = "failed"
           /\ Started(x) => x.save["run"].row.attempts > 0
    /\ x.save["run"].phase # "none" /\ x.save["run"].stage = LensStage =>
           LET r == x.save["run"].row IN
           /\ r.status \in {"running", "completed", "failed"}
           /\ r.status = "running" => r.attempts = 1 /\ Known(r) = {}
           /\ r.status = "completed" => r.attempts > 0
           /\ r.attempts = 0 => Known(r) = {}

Mutating(x, l) == x.lens[l].pc \in {"reserving", "settling"}

\* What the lenses have in theirs.
LedgerSound(x) ==
    /\ x.save["ledger"].phase # "none" =>
           /\ x.save["ledger"].stage = LensStage
           /\ x.save["ledger"].row.attempts > 0
           /\ x.save["ledger"].row.status \in {"running", "failed"}
    /\ x.pc # "crashed" =>
           (x.save["ledger"].phase # "none" <=> \E l \in Lenses : Mutating(x, l))
    /\ \A k, l \in Lenses : Mutating(x, k) /\ Mutating(x, l) => k = l
    /\ \A l \in Lenses : Reserving(x, l) =>
           /\ x.save["ledger"].row.status = "running"
           /\ Call(x, l) \in Known(x.save["ledger"].row)

\* As long as the lens stage operates and nothing threw, memory and saves agree.
Undisturbed(x) == x.pc = "operating" /\ AtLens(x) /\ ~SomeThrew(x)
UndisturbedSound(x) ==
    Undisturbed(x) =>
        /\ LRow(x).status = "running"
        /\ \A c \in Known(LRow(x)) :
               \/ Accounted(LRow(x), c)
               \/ LRow(x).ledger[c].status = "reserved" /\ InFlight(x, c)
        /\ \A l \in Lenses : Reserving(x, l) =>
               x.save["ledger"].row =
                   Recorded(LRow(x), Call(x, l), [status |-> "reserved", tokens |-> Reserve])
        /\ \A l \in Lenses : x.lens[l].pc = "settling" =>
               x.save["ledger"].row = Recorded(LRow(x), Call(x, l), EntryFor(x.lens[l]))

StageSound(x) ==
    /\ Started(x) => AtLens(x) /\ x.pc \in {"operating", "completing", "catching", "ended"}
    /\ Started(x) \/ (AtLens(x) /\ x.pc \in {"operating", "completing"}) => LRow(x).attempts > 0
    /\ Started(x) \/ (AtLens(x) /\ x.pc = "operating") =>
           AllDone(x) \/ LRow(x).status \in {"running", "failed"}
    /\ LRow(x).attempts = 0 => Known(LRow(x)) = {}
    /\ x.pc \notin {"catching", "ended"} => ~x.aborted
    /\ \A l \in Lenses : x.lens[l].pc \in {"settle", "settling"} /\ x.lens[l].end = "aborted" => x.aborted
    /\ \A l \in Lenses : x.lens[l].pc \in {"idle", "ask"} => x.lens[l].error = "none"
    /\ \A p \in {"run", "ledger"} : x.save[p].phase = "lost" => faults > 0

Sound(x) == IsExec(x) /\ RunSound(x) /\ LedgerSound(x) /\ UndisturbedSound(x) /\ StageSound(x)

Committed(c) == called[c] > 0 \/ \E e \in Executions : Pending(ex[e], c)
Uncalled == \A c \in Calls : called[c] = 0
CommittedIn(r) == \A c \in Calls : Committed(c) => c \in Known(r)

FreshRow == row[LensStage].attempts = 0 =>
    /\ Known(row[LensStage]) = {}
    /\ Uncalled
    /\ \A e \in Executions : ~Working(ex[e])

StartsFresh == \A e \in Executions :
    ex[e].pc = "starting" /\ Working(ex[e]) => Uncalled

OneWorks == \A d, e \in Executions : Working(ex[d]) /\ Working(ex[e]) => d = e

Once == \A c \in Calls :
    /\ called[c] <= 1
    /\ \A e \in Executions : Pending(ex[e], c) => called[c] = 0

RunningRow == row[LensStage].status = "running" => CommittedIn(row[LensStage])

AllFinal == \A e \in Executions : Working(ex[e]) => Final(ex[e])
AllAccounted(r) == \A c \in Calls : called[c] > 0 => c \in Known(r) /\ Accounted(r, c)

CompletedRow == row[LensStage].status = "completed" =>
    /\ row[LensStage].attempts > 0
    /\ AllFinal
    /\ AllAccounted(row[LensStage])

\* The execution with the newest lease.
Held(x) ==
    /\ x.pc \notin {"off", "crashed"} /\ LRow(x).status = "running" /\ x.save["ledger"].phase # "stored"
         => CommittedIn(LRow(x))
    /\ x.save["ledger"].phase \in {"sent", "stored"} /\ x.save["ledger"].row.status = "running"
         => CommittedIn(x.save["ledger"].row)
    /\ \A l \in Lenses, c \in Calls : Reserving(x, l) /\ x.save["ledger"].phase = "sent" /\ Call(x, l) = c
         => ~Committed(c)
    /\ x.save["run"].phase = "sent" /\ x.save["run"].stage = LensStage
         /\ (x.save["run"].row.attempts = 0 \/ x.save["run"].row.status = "running")
         => row[LensStage].attempts = 0 /\ x.save["ledger"].phase = "none"
    /\ x.save["run"].phase = "sent" /\ x.save["run"].stage = LensStage
         /\ x.save["run"].row.status = "completed"
         => /\ Working(x) => Final(x)
            /\ \A d \in Executions \ {holder} : ~Working(ex[d])
            /\ AllAccounted(x.save["run"].row)
    /\ x.pc \notin {"off", "crashed", "ended"} /\ (~AtLens(x) \/ x.pc = "enter")
         => row[LensStage] = LRow(x)

Rows == row = [s \in Stages |-> row[s]] /\ \A s \in Stages : IsRow(row[s])

Shape ==
    /\ Rows
    /\ ex = [e \in Executions |-> ex[e]]
    /\ called = [c \in Calls |-> called[c]] /\ \A c \in Calls : called[c] \in Nat
    /\ faults \in Nat

AllSound == \A e \in Executions : Sound(ex[e])

Shared == FreshRow /\ StartsFresh /\ OneWorks /\ Once /\ RunningRow /\ CompletedRow

HolderSound == holder \in Executions /\ ~settled => Held(ex[holder])

(***************************************************************************)
(* What calls spend.                                                       *)
(***************************************************************************)

\* A call counts its tokens up to the reservation.
Capped(t) == IF t <= Reserve THEN t ELSE Reserve
Spent(r) == Total([c \in Known(r) |-> Capped(r.ledger[c].tokens)])

WithinBudget(r) ==
    /\ IsFiniteSet(Known(r))
    /\ \A c \in Known(r) : r.ledger[c].tokens \in Nat
    /\ Spent(r) <= MaxTokens

\* What a running ledger spends is in the execution's count, but for the mutation under way.
Paid(x, r, more) == r.status = "running" => Spent(r) <= x.tokens + more

More(n) == IF n.pc = "settling" THEN n.tokens - Reserve
           ELSE IF n.error = "none" THEN Reserve ELSE 0

AtWork == {"enter", "starting", "operating", "completing"}

Agrees(x) == x.pc \in AtWork /\ ~SomeThrew(x) =>
    x.cost = CostOf(LRow(x)) /\ x.tokens = TokensOf(LRow(x))

\* A lens asks for its calls one after the other.
Behind(c, l, n) == \E o, t \in Nat :
    c = <<l, o, t>> /\ (o < n.output \/ (o = n.output /\ t < n.transport))

InCalls == {"calling", "settle", "settling"}

\* Ledger r has no calls of lens l but those the lens has behind it and, depending on where
\* it is, the one it is at, still as it was reserved.
Follows(r, l, n, held, free) == \A c \in Known(r) : c[1] = l =>
    /\ n.pc # "idle"
    /\ n.pc \in {"ask", "reserving"} \cup InCalls =>
           \/ Behind(c, l, n)
           \/ /\ c = <<l, n.output, n.transport>>
              /\ \/ n.pc \in free
                 \/ n.pc \in held /\ r.ledger[c].tokens = Reserve

InMemory(r, l, n) == Follows(r, l, n, InCalls, {})
OnItsWay(r, l, n) == Follows(r, l, n, {"reserving", "calling", "settle"}, {"settling"})

CopiesFollow(x, l) ==
    /\ InMemory(LRow(x), l, x.lens[l])
    /\ x.save["run"].phase # "none" /\ x.save["run"].stage = LensStage =>
           InMemory(x.save["run"].row, l, x.lens[l])
    /\ x.save["ledger"].phase # "none" => OnItsWay(x.save["ledger"].row, l, x.lens[l])

LensCounts(n) == n.output \in Nat /\ n.transport \in Nat /\ n.tokens \in Nat

CopiesWithin(x) ==
    /\ WithinBudget(LRow(x)) /\ Paid(x, LRow(x), 0)
    /\ x.save["run"].phase # "none" /\ x.save["run"].stage = LensStage =>
           WithinBudget(x.save["run"].row)
    /\ x.save["ledger"].phase # "none" =>
           /\ WithinBudget(x.save["ledger"].row)
           /\ \A l \in Lenses : Mutating(x, l) =>
                  Paid(x, x.save["ledger"].row, More(x.lens[l]))
    /\ \A l \in Lenses : Reserving(x, l) => x.cost + 1 <= MaxCost

UsageSound(x) ==
    /\ x.cost \in Nat /\ x.tokens \in Int
    /\ \A l \in Lenses : LensCounts(x.lens[l])
    /\ Agrees(x)
    /\ CopiesWithin(x)
    /\ Working(x) => \A l \in Lenses : CopiesFollow(x, l)
    /\ Undisturbed(x) => \A l \in Lenses : x.lens[l].pc \in InCalls => Call(x, l) \in Known(LRow(x))

CalledSet == {c \in Calls : called[c] > 0}

Counted ==
    /\ IsFiniteSet(CalledSet) /\ Cardinality(CalledSet) <= MaxCost
    /\ \A e \in Executions : Working(ex[e]) => Cardinality(CalledSet) <= ex[e].cost

Usage == WithinBudget(row[LensStage]) /\ Counted /\ \A e \in Executions : UsageSound(ex[e])

RuntimeInv == Shape /\ AllSound /\ Shared /\ HolderSound /\ Usage
-----------------------------------------------------------------------------
(* The pieces of the actions. *)

Places == {"run", "ledger"}

\* A row with a changed status is a row.
LEMMA StatusIs ==
    ASSUME NEW r, IsRow(r), NEW status
    PROVE  LET q == [r EXCEPT !.status = status] IN
           IsRow(q) /\ q.status = status /\ q.attempts = r.attempts /\ q.ledger = r.ledger
<1> USE DEF IsRow
<1> DEFINE q == [r EXCEPT !.status = status]
<1>1. q = [status |-> status, attempts |-> r.attempts, ledger |-> r.ledger]
  OBVIOUS
<1>2. q.status = status /\ q.attempts = r.attempts /\ q.ledger = r.ledger
  BY <1>1
<1>3. QED
  BY <1>1, <1>2

\* What the start of an attempt sends.
LEMMA StartedRowIs ==
    ASSUME NEW r, IsRow(r)
    PROVE  LET q == [r EXCEPT !.status = "running", !.attempts = @ + 1] IN
           IsRow(q) /\ q.status = "running" /\ q.attempts = r.attempts + 1 /\ q.ledger = r.ledger
<1> DEFINE p == [r EXCEPT !.status = "running"]
           q == [p EXCEPT !.attempts = r.attempts + 1]
<1>1. IsRow(p) /\ p.status = "running" /\ p.attempts = r.attempts /\ p.ledger = r.ledger
  BY StatusIs
<1> HIDE DEF p
<1>2. q = [status |-> "running", attempts |-> r.attempts + 1, ledger |-> r.ledger]
  BY <1>1 DEF IsRow
<1> HIDE DEF q
<1>3. q.status = "running" /\ q.attempts = r.attempts + 1 /\ q.ledger = r.ledger
  BY <1>2
<1>4. IsRow(q)
  BY <1>2, <1>3, r.attempts \in Nat DEF IsRow
<1>5. q = [r EXCEPT !.status = "running", !.attempts = @ + 1]
  BY DEF p, q
<1>6. QED
  BY <1>3, <1>4, <1>5

\* A recorded entry: the ledger has one call more, or another entry for it.
LEMMA RecordedIs ==
    ASSUME NEW r, IsRow(r), NEW call, NEW entry
    PROVE  LET q == Recorded(r, call, entry) IN
           /\ IsRow(q)
           /\ q.status = r.status /\ q.attempts = r.attempts
           /\ Known(q) = Known(r) \cup {call}
           /\ q.ledger[call] = entry
           /\ \A c \in Known(r) : c # call => q.ledger[c] = r.ledger[c]
<1> USE DEF IsRow
<1> DEFINE g == [c \in Known(r) \cup {call} |-> IF c = call THEN entry ELSE r.ledger[c]]
           q == Recorded(r, call, entry)
<1>0. DOMAIN g = Known(r) \cup {call} /\ g[call] = entry
      /\ \A c \in Known(r) : c # call => g[c] = r.ledger[c]
  OBVIOUS
<1>1. q = [r EXCEPT !.ledger = g]
  BY DEF Recorded
<1> HIDE DEF g, q
<1>2. q = [status |-> r.status, attempts |-> r.attempts, ledger |-> g]
  BY <1>1
<1>3. q.status = r.status /\ q.attempts = r.attempts /\ q.ledger = g
  BY <1>2
<1>4. IsRow(q)
  BY <1>2, <1>3
<1>5. QED
  BY <1>0, <1>3, <1>4 DEF Known, q

LEMMA NoRowIs == IsRow(NoRow) /\ NoRow.attempts = 0 /\ NoRow.status = "absent" /\ Known(NoRow) = {}
  BY DEF NoRow, IsRow, Known

LEMMA PlanIs ==
    /\ Len(Plan) \in Nat \ {0} /\ Len(Plan) \in 1..Len(Plan) /\ LensStage \in Stages
    /\ \A i \in 1..Len(Plan) : Plan[i] \in Stages /\ (Plan[i] = LensStage => i = Len(Plan))
    /\ MaxAttempts[LensStage] = 1
    /\ LensStage # "framework_catalog"
<1>1. Len(Plan) \in Nat \ {0}
  BY StageRuntimeAssumption
<1>2. Len(Plan) \in 1..Len(Plan)
  BY <1>1
<1>3. QED
  BY StageRuntimeAssumption, <1>1, <1>2 DEF LensStage, Stages

\* A checkpoint is sent.
LEMMA SendIs ==
    ASSUME NEW x, IsExec(x), NEW place \in Places, NEW s \in Stages, NEW r, IsRow(r)
    PROVE  LET y == Send(x, place, s, r) IN
           /\ IsExec(y)
           /\ y.pc = x.pc /\ y.at = x.at /\ y.aborted = x.aborted /\ y.memory = x.memory
           /\ y.lens = x.lens /\ y.cost = x.cost /\ y.tokens = x.tokens
           /\ y.save[place].phase = "sent" /\ y.save[place].stage = s /\ y.save[place].row = r
           /\ \A p \in Places : p # place => y.save[p] = x.save[p]
<1> DEFINE v == [phase |-> "sent", stage |-> s, row |-> r]
           f == [x.save EXCEPT ![place] = v]
           y == Send(x, place, s, r)
<1>1. v.phase = "sent" /\ v.stage = s /\ v.row = r /\ IsSaving(v)
  BY DEF IsSaving
<1>2. y = [x EXCEPT !.save = f]
  BY DEF Send
<1> HIDE DEF v, y
<1>3. f[place] = v /\ f = [p \in Places |-> f[p]]
      /\ \A p \in Places : p # place => f[p] = x.save[p]
  BY DEF IsExec, Places
<1> HIDE DEF f
<1>4. y = [pc |-> x.pc, at |-> x.at, ceiling |-> x.ceiling, memory |-> x.memory,
           cost |-> x.cost, tokens |-> x.tokens, aborted |-> x.aborted,
           outcome |-> x.outcome, lens |-> x.lens, save |-> f]
  BY <1>2 DEF IsExec
<1>5. /\ y.pc = x.pc /\ y.at = x.at /\ y.ceiling = x.ceiling /\ y.memory = x.memory
      /\ y.cost = x.cost /\ y.tokens = x.tokens /\ y.aborted = x.aborted
      /\ y.outcome = x.outcome /\ y.lens = x.lens /\ y.save = f
  BY <1>4
<1>6. \A p \in Places : IsSaving(f[p])
  BY <1>1, <1>3 DEF IsExec, Places
<1>7. IsExec(y)
  BY <1>3, <1>4, <1>5, <1>6 DEF IsExec, Places
<1>8. QED
  BY <1>1, <1>3, <1>5, <1>7 DEF y

(* One field is set. *)

LEMMA PcIs ==
    ASSUME NEW x, IsExec(x), NEW v
    PROVE  LET y == [x EXCEPT !.pc = v] IN
           /\ IsExec(y) /\ y.pc = v /\ y.at = x.at /\ y.ceiling = x.ceiling /\ y.memory = x.memory /\ y.cost = x.cost
           /\ y.tokens = x.tokens /\ y.aborted = x.aborted /\ y.outcome = x.outcome /\ y.lens = x.lens /\ y.save = x.save
<1> DEFINE y == [x EXCEPT !.pc = v]
<1>1. y = [pc |-> v, at |-> x.at, ceiling |-> x.ceiling, memory |-> x.memory, cost |-> x.cost,
           tokens |-> x.tokens, aborted |-> x.aborted, outcome |-> x.outcome, lens |-> x.lens, save |-> x.save]
  BY DEF IsExec
<1> HIDE DEF y
<1>2. /\ y.pc = v /\ y.at = x.at /\ y.ceiling = x.ceiling /\ y.memory = x.memory /\ y.cost = x.cost
      /\ y.tokens = x.tokens /\ y.aborted = x.aborted /\ y.outcome = x.outcome /\ y.lens = x.lens /\ y.save = x.save
  BY <1>1
<1>3. IsExec(y)
  BY <1>1, <1>2 DEF IsExec
<1>4. QED
  BY <1>2, <1>3 DEF y

LEMMA AtIs ==
    ASSUME NEW x, IsExec(x), NEW v \in 1..Len(Plan)
    PROVE  LET y == [x EXCEPT !.at = v] IN
           /\ IsExec(y) /\ y.pc = x.pc /\ y.at = v /\ y.ceiling = x.ceiling /\ y.memory = x.memory /\ y.cost = x.cost
           /\ y.tokens = x.tokens /\ y.aborted = x.aborted /\ y.outcome = x.outcome /\ y.lens = x.lens /\ y.save = x.save
<1> DEFINE y == [x EXCEPT !.at = v]
<1>1. y = [pc |-> x.pc, at |-> v, ceiling |-> x.ceiling, memory |-> x.memory, cost |-> x.cost,
           tokens |-> x.tokens, aborted |-> x.aborted, outcome |-> x.outcome, lens |-> x.lens, save |-> x.save]
  BY DEF IsExec
<1> HIDE DEF y
<1>2. /\ y.pc = x.pc /\ y.at = v /\ y.ceiling = x.ceiling /\ y.memory = x.memory /\ y.cost = x.cost
      /\ y.tokens = x.tokens /\ y.aborted = x.aborted /\ y.outcome = x.outcome /\ y.lens = x.lens /\ y.save = x.save
  BY <1>1
<1>3. IsExec(y)
  BY <1>1, <1>2 DEF IsExec
<1>4. QED
  BY <1>2, <1>3 DEF y

LEMMA CeilingIs ==
    ASSUME NEW x, IsExec(x), NEW v
    PROVE  LET y == [x EXCEPT !.ceiling = v] IN
           /\ IsExec(y) /\ y.pc = x.pc /\ y.at = x.at /\ y.ceiling = v /\ y.memory = x.memory /\ y.cost = x.cost
           /\ y.tokens = x.tokens /\ y.aborted = x.aborted /\ y.outcome = x.outcome /\ y.lens = x.lens /\ y.save = x.save
<1> DEFINE y == [x EXCEPT !.ceiling = v]
<1>1. y = [pc |-> x.pc, at |-> x.at, ceiling |-> v, memory |-> x.memory, cost |-> x.cost,
           tokens |-> x.tokens, aborted |-> x.aborted, outcome |-> x.outcome, lens |-> x.lens, save |-> x.save]
  BY DEF IsExec
<1> HIDE DEF y
<1>2. /\ y.pc = x.pc /\ y.at = x.at /\ y.ceiling = v /\ y.memory = x.memory /\ y.cost = x.cost
      /\ y.tokens = x.tokens /\ y.aborted = x.aborted /\ y.outcome = x.outcome /\ y.lens = x.lens /\ y.save = x.save
  BY <1>1
<1>3. IsExec(y)
  BY <1>1, <1>2 DEF IsExec
<1>4. QED
  BY <1>2, <1>3 DEF y

LEMMA CostIs ==
    ASSUME NEW x, IsExec(x), NEW v
    PROVE  LET y == [x EXCEPT !.cost = v] IN
           /\ IsExec(y) /\ y.pc = x.pc /\ y.at = x.at /\ y.ceiling = x.ceiling /\ y.memory = x.memory /\ y.cost = v
           /\ y.tokens = x.tokens /\ y.aborted = x.aborted /\ y.outcome = x.outcome /\ y.lens = x.lens /\ y.save = x.save
<1> DEFINE y == [x EXCEPT !.cost = v]
<1>1. y = [pc |-> x.pc, at |-> x.at, ceiling |-> x.ceiling, memory |-> x.memory, cost |-> v,
           tokens |-> x.tokens, aborted |-> x.aborted, outcome |-> x.outcome, lens |-> x.lens, save |-> x.save]
  BY DEF IsExec
<1> HIDE DEF y
<1>2. /\ y.pc = x.pc /\ y.at = x.at /\ y.ceiling = x.ceiling /\ y.memory = x.memory /\ y.cost = v
      /\ y.tokens = x.tokens /\ y.aborted = x.aborted /\ y.outcome = x.outcome /\ y.lens = x.lens /\ y.save = x.save
  BY <1>1
<1>3. IsExec(y)
  BY <1>1, <1>2 DEF IsExec
<1>4. QED
  BY <1>2, <1>3 DEF y

LEMMA TokensIs ==
    ASSUME NEW x, IsExec(x), NEW v
    PROVE  LET y == [x EXCEPT !.tokens = v] IN
           /\ IsExec(y) /\ y.pc = x.pc /\ y.at = x.at /\ y.ceiling = x.ceiling /\ y.memory = x.memory /\ y.cost = x.cost
           /\ y.tokens = v /\ y.aborted = x.aborted /\ y.outcome = x.outcome /\ y.lens = x.lens /\ y.save = x.save
<1> DEFINE y == [x EXCEPT !.tokens = v]
<1>1. y = [pc |-> x.pc, at |-> x.at, ceiling |-> x.ceiling, memory |-> x.memory, cost |-> x.cost,
           tokens |-> v, aborted |-> x.aborted, outcome |-> x.outcome, lens |-> x.lens, save |-> x.save]
  BY DEF IsExec
<1> HIDE DEF y
<1>2. /\ y.pc = x.pc /\ y.at = x.at /\ y.ceiling = x.ceiling /\ y.memory = x.memory /\ y.cost = x.cost
      /\ y.tokens = v /\ y.aborted = x.aborted /\ y.outcome = x.outcome /\ y.lens = x.lens /\ y.save = x.save
  BY <1>1
<1>3. IsExec(y)
  BY <1>1, <1>2 DEF IsExec
<1>4. QED
  BY <1>2, <1>3 DEF y

LEMMA AbortedIs ==
    ASSUME NEW x, IsExec(x), NEW v
    PROVE  LET y == [x EXCEPT !.aborted = v] IN
           /\ IsExec(y) /\ y.pc = x.pc /\ y.at = x.at /\ y.ceiling = x.ceiling /\ y.memory = x.memory /\ y.cost = x.cost
           /\ y.tokens = x.tokens /\ y.aborted = v /\ y.outcome = x.outcome /\ y.lens = x.lens /\ y.save = x.save
<1> DEFINE y == [x EXCEPT !.aborted = v]
<1>1. y = [pc |-> x.pc, at |-> x.at, ceiling |-> x.ceiling, memory |-> x.memory, cost |-> x.cost,
           tokens |-> x.tokens, aborted |-> v, outcome |-> x.outcome, lens |-> x.lens, save |-> x.save]
  BY DEF IsExec
<1> HIDE DEF y
<1>2. /\ y.pc = x.pc /\ y.at = x.at /\ y.ceiling = x.ceiling /\ y.memory = x.memory /\ y.cost = x.cost
      /\ y.tokens = x.tokens /\ y.aborted = v /\ y.outcome = x.outcome /\ y.lens = x.lens /\ y.save = x.save
  BY <1>1
<1>3. IsExec(y)
  BY <1>1, <1>2 DEF IsExec
<1>4. QED
  BY <1>2, <1>3 DEF y

LEMMA OutcomeIs ==
    ASSUME NEW x, IsExec(x), NEW v
    PROVE  LET y == [x EXCEPT !.outcome = v] IN
           /\ IsExec(y) /\ y.pc = x.pc /\ y.at = x.at /\ y.ceiling = x.ceiling /\ y.memory = x.memory /\ y.cost = x.cost
           /\ y.tokens = x.tokens /\ y.aborted = x.aborted /\ y.outcome = v /\ y.lens = x.lens /\ y.save = x.save
<1> DEFINE y == [x EXCEPT !.outcome = v]
<1>1. y = [pc |-> x.pc, at |-> x.at, ceiling |-> x.ceiling, memory |-> x.memory, cost |-> x.cost,
           tokens |-> x.tokens, aborted |-> x.aborted, outcome |-> v, lens |-> x.lens, save |-> x.save]
  BY DEF IsExec
<1> HIDE DEF y
<1>2. /\ y.pc = x.pc /\ y.at = x.at /\ y.ceiling = x.ceiling /\ y.memory = x.memory /\ y.cost = x.cost
      /\ y.tokens = x.tokens /\ y.aborted = x.aborted /\ y.outcome = v /\ y.lens = x.lens /\ y.save = x.save
  BY <1>1
<1>3. IsExec(y)
  BY <1>1, <1>2 DEF IsExec
<1>4. QED
  BY <1>2, <1>3 DEF y

LEMMA SaveIs ==
    ASSUME NEW x, IsExec(x), NEW v,
           v = [p \in Places |-> v[p]], \A p \in Places : IsSaving(v[p])
    PROVE  LET y == [x EXCEPT !.save = v] IN
           /\ IsExec(y) /\ y.pc = x.pc /\ y.at = x.at /\ y.ceiling = x.ceiling /\ y.memory = x.memory /\ y.cost = x.cost
           /\ y.tokens = x.tokens /\ y.aborted = x.aborted /\ y.outcome = x.outcome /\ y.lens = x.lens /\ y.save = v
<1> DEFINE y == [x EXCEPT !.save = v]
<1>1. y = [pc |-> x.pc, at |-> x.at, ceiling |-> x.ceiling, memory |-> x.memory, cost |-> x.cost,
           tokens |-> x.tokens, aborted |-> x.aborted, outcome |-> x.outcome, lens |-> x.lens, save |-> v]
  BY DEF IsExec
<1> HIDE DEF y
<1>2. /\ y.pc = x.pc /\ y.at = x.at /\ y.ceiling = x.ceiling /\ y.memory = x.memory /\ y.cost = x.cost
      /\ y.tokens = x.tokens /\ y.aborted = x.aborted /\ y.outcome = x.outcome /\ y.lens = x.lens /\ y.save = v
  BY <1>1
<1>3. IsExec(y)
  BY <1>1, <1>2 DEF IsExec, Places
<1>4. QED
  BY <1>2, <1>3 DEF y

LEMMA MemoryIs ==
    ASSUME NEW x, IsExec(x), NEW v,
           v = [s \in Stages |-> v[s]], \A s \in Stages : IsRow(v[s])
    PROVE  LET y == [x EXCEPT !.memory = v] IN
           /\ IsExec(y) /\ y.pc = x.pc /\ y.at = x.at /\ y.ceiling = x.ceiling /\ y.memory = v /\ y.cost = x.cost
           /\ y.tokens = x.tokens /\ y.aborted = x.aborted /\ y.outcome = x.outcome /\ y.lens = x.lens /\ y.save = x.save
<1> DEFINE y == [x EXCEPT !.memory = v]
<1>1. y = [pc |-> x.pc, at |-> x.at, ceiling |-> x.ceiling, memory |-> v, cost |-> x.cost,
           tokens |-> x.tokens, aborted |-> x.aborted, outcome |-> x.outcome, lens |-> x.lens, save |-> x.save]
  BY DEF IsExec
<1> HIDE DEF y
<1>2. /\ y.pc = x.pc /\ y.at = x.at /\ y.ceiling = x.ceiling /\ y.memory = v /\ y.cost = x.cost
      /\ y.tokens = x.tokens /\ y.aborted = x.aborted /\ y.outcome = x.outcome /\ y.lens = x.lens /\ y.save = x.save
  BY <1>1
<1>3. IsExec(y)
  BY <1>1, <1>2 DEF IsExec
<1>4. QED
  BY <1>2, <1>3 DEF y

LEMMA LensIs ==
    ASSUME NEW x, IsExec(x), NEW v,
           v = [l \in Lenses |-> v[l]], \A l \in Lenses : IsLens(v[l])
    PROVE  LET y == [x EXCEPT !.lens = v] IN
           /\ IsExec(y) /\ y.pc = x.pc /\ y.at = x.at /\ y.ceiling = x.ceiling /\ y.memory = x.memory /\ y.cost = x.cost
           /\ y.tokens = x.tokens /\ y.aborted = x.aborted /\ y.outcome = x.outcome /\ y.lens = v /\ y.save = x.save
<1> DEFINE y == [x EXCEPT !.lens = v]
<1>1. y = [pc |-> x.pc, at |-> x.at, ceiling |-> x.ceiling, memory |-> x.memory, cost |-> x.cost,
           tokens |-> x.tokens, aborted |-> x.aborted, outcome |-> x.outcome, lens |-> v, save |-> x.save]
  BY DEF IsExec
<1> HIDE DEF y
<1>2. /\ y.pc = x.pc /\ y.at = x.at /\ y.ceiling = x.ceiling /\ y.memory = x.memory /\ y.cost = x.cost
      /\ y.tokens = x.tokens /\ y.aborted = x.aborted /\ y.outcome = x.outcome /\ y.lens = v /\ y.save = x.save
  BY <1>1
<1>3. IsExec(y)
  BY <1>1, <1>2 DEF IsExec
<1>4. QED
  BY <1>2, <1>3 DEF y

\* A save is taken off.
LEMMA ClosedIs ==
    ASSUME NEW x, IsExec(x), NEW place \in Places
    PROVE  LET y == Closed(x, place) IN
           /\ IsExec(y)
           /\ y.pc = x.pc /\ y.at = x.at /\ y.aborted = x.aborted /\ y.memory = x.memory
           /\ y.lens = x.lens /\ y.cost = x.cost /\ y.tokens = x.tokens
           /\ y.save[place].phase = "none"
           /\ \A p \in Places : p # place => y.save[p] = x.save[p]
<1> DEFINE f == [x.save EXCEPT ![place] = NoSave]
<1>1. NoSave.phase = "none" /\ IsSaving(NoSave)
  BY NoRowIs, PlanIs DEF NoSave, IsSaving
<1>2. /\ f[place] = NoSave /\ f = [p \in Places |-> f[p]]
      /\ \A p \in Places : p # place => f[p] = x.save[p]
  BY DEF IsExec, Places
<1>3. \A p \in Places : IsSaving(x.save[p])
  BY DEF IsExec, Places
<1> HIDE DEF f
<1>4. \A p \in Places : IsSaving(f[p])
  BY <1>1, <1>2, <1>3
<1>5. QED
  BY <1>1, <1>2, <1>4, SaveIs DEF Closed, f

\* An answer is taken over into the execution's copy.
LEMMA AcceptedIs ==
    ASSUME NEW x, IsExec(x), NEW place \in Places
    PROVE  LET y == Accepted(x, place) IN
           /\ IsExec(y)
           /\ y.pc = x.pc /\ y.at = x.at /\ y.aborted = x.aborted /\ y.lens = x.lens
           /\ y.cost = x.cost /\ y.tokens = x.tokens
           /\ y.memory[x.save[place].stage] = x.save[place].row
           /\ \A s \in Stages : s # x.save[place].stage => y.memory[s] = x.memory[s]
           /\ y.save[place].phase = "none"
           /\ \A p \in Places : p # place => y.save[p] = x.save[p]
<1> DEFINE f == [x.memory EXCEPT ![x.save[place].stage] = x.save[place].row]
           z == [x EXCEPT !.memory = f]
<1>1. x.save[place].stage \in Stages /\ IsRow(x.save[place].row)
  BY DEF IsExec, IsSaving, Places
<1>2. /\ f[x.save[place].stage] = x.save[place].row /\ f = [s \in Stages |-> f[s]]
      /\ \A s \in Stages : s # x.save[place].stage => f[s] = x.memory[s]
  BY <1>1 DEF IsExec
<1>3. \A s \in Stages : IsRow(x.memory[s])
  BY DEF IsExec
<1> HIDE DEF f
<1>4. \A s \in Stages : IsRow(f[s])
  BY <1>1, <1>2, <1>3
<1>5. /\ IsExec(z) /\ z.pc = x.pc /\ z.at = x.at /\ z.aborted = x.aborted /\ z.lens = x.lens
      /\ z.cost = x.cost /\ z.tokens = x.tokens /\ z.memory = f /\ z.save = x.save
  BY <1>2, <1>4, MemoryIs
<1>6. Accepted(x, place) = [z EXCEPT !.save[place] = NoSave]
  BY DEF Accepted, Closed, f
<1>7. Accepted(x, place) = Closed(z, place)
  BY <1>6 DEF Closed
<1> HIDE DEF z
<1>8. LET y == Closed(z, place) IN
           /\ IsExec(y)
           /\ y.pc = z.pc /\ y.at = z.at /\ y.aborted = z.aborted /\ y.memory = z.memory
           /\ y.lens = z.lens /\ y.cost = z.cost /\ y.tokens = z.tokens
           /\ y.save[place].phase = "none"
           /\ \A p \in Places : p # place => y.save[p] = z.save[p]
  BY <1>5, ClosedIs
<1>9. QED
  BY <1>2, <1>5, <1>7, <1>8

\* A lens is set.
LEMMA WithIs ==
    ASSUME NEW x, IsExec(x), NEW l \in Lenses, NEW n, IsLens(n)
    PROVE  LET y == With(x, l, n) IN
           /\ IsExec(y)
           /\ y.pc = x.pc /\ y.at = x.at /\ y.aborted = x.aborted /\ y.memory = x.memory
           /\ y.save = x.save /\ y.cost = x.cost /\ y.tokens = x.tokens
           /\ y.lens[l] = n
           /\ \A k \in Lenses : k # l => y.lens[k] = x.lens[k]
<1> DEFINE f == [x.lens EXCEPT ![l] = n]
<1>1. /\ f[l] = n /\ f = [k \in Lenses |-> f[k]]
      /\ \A k \in Lenses : k # l => f[k] = x.lens[k]
  BY DEF IsExec
<1>2. \A k \in Lenses : IsLens(x.lens[k])
  BY DEF IsExec
<1> HIDE DEF f
<1>3. \A k \in Lenses : IsLens(f[k])
  BY <1>1, <1>2
<1>4. QED
  BY <1>1, <1>3, LensIs DEF With, f

-----------------------------------------------------------------------------
(* Sums over finite functions: by the smallest set that is an exception. *)

LEMMA LeastExists ==
    ASSUME NEW T \in SUBSET Nat, T # {}
    PROVE  \E k \in T : \A l \in T : k <= l
<1> DEFINE R == OpToRel(<, Nat)
<1>1. IsWellFoundedOn(R, Nat)
  BY NatLessThanWellFounded
<1>2. \A x, y \in Nat : <<x, y>> \in R <=> x < y
  BY DEF OpToRel
<1> HIDE DEF R
<1>3. PICK x \in T : \A y \in T : <<y, x>> \notin R
  BY <1>1, WFMin
<1>4. ASSUME NEW y \in T PROVE x <= y
  <2>1. x \in Nat /\ y \in Nat
    OBVIOUS
  <2>2. ~(y < x)
    BY <1>2, <1>3, <2>1
  <2>3. QED BY <2>1, <2>2
<1>5. QED BY <1>4

LEMMA SmallestExists ==
    ASSUME NEW S, IsFiniteSet(S), NEW Bad \in SUBSET (SUBSET S), Bad # {}
    PROVE  \E T \in Bad : \A U \in SUBSET T : U # T => U \notin Bad
<1> DEFINE sizes == {Cardinality(T) : T \in Bad}
<1>1. \A T \in SUBSET S : IsFiniteSet(T) /\ Cardinality(T) \in Nat
  BY FS_Subset, FS_CardinalityType
<1>2. sizes \in SUBSET Nat /\ sizes # {}
  BY <1>1
<1> HIDE DEF sizes
<1>3. PICK n \in sizes : \A m \in sizes : n <= m
  BY <1>2, LeastExists
<1>4. PICK T \in Bad : n = Cardinality(T)
  BY <1>3 DEF sizes
<1>5. ASSUME NEW U \in SUBSET T, U # T, U \in Bad PROVE FALSE
  <2>1. IsFiniteSet(T) /\ IsFiniteSet(U) /\ Cardinality(T) \in Nat /\ Cardinality(U) \in Nat
    BY <1>1
  <2>2. Cardinality(U) <= Cardinality(T) /\ Cardinality(T) # Cardinality(U)
    BY <1>5, <2>1, FS_Subset
  <2>3. Cardinality(U) \in sizes
    BY <1>5 DEF sizes
  <2>4. QED BY <1>3, <1>4, <2>1, <2>2, <2>3
<1>6. QED BY <1>5

IsTotal(g, f, S) ==
    /\ g \in [SUBSET S -> Int] /\ g[{}] = 0
    /\ \A T \in SUBSET S : \A x \in T : g[T] = f[x] + g[T \ {x}]

LEMMA TotalExists ==
    ASSUME NEW S, IsFiniteSet(S), NEW f, \A x \in S : f[x] \in Int
    PROVE  \E g : IsTotal(g, f, S)
<1> DEFINE Bad == {T \in SUBSET S : ~\E g : IsTotal(g, f, T)}
<1>1. SUFFICES ASSUME S \in Bad PROVE FALSE
  OBVIOUS
<1>2. PICK T \in Bad : \A U \in SUBSET T : U # T => U \notin Bad
  <2>1. Bad \in SUBSET (SUBSET S) /\ Bad # {}
    BY <1>1
  <2> HIDE DEF Bad
  <2>2. QED BY <2>1, SmallestExists
<1>3. T # {}
  <2> DEFINE g == [U \in SUBSET {} |-> 0]
  <2>1. IsTotal(g, f, {})
    BY DEF IsTotal
  <2>2. QED BY <2>1
<1>4. PICK y \in T : TRUE
  BY <1>3
<1> DEFINE R == T \ {y}
<1>5. PICK g : IsTotal(g, f, R)
  <2>1. R \in SUBSET T /\ R # T /\ R \in SUBSET S
    BY <1>4
  <2>2. QED BY <1>2, <2>1
<1> DEFINE h == [U \in SUBSET T |-> IF y \in U THEN f[y] + g[U \ {y}] ELSE g[U]]
<1>6. f[y] \in Int /\ T \subseteq S
  BY <1>4
<1>7. \A U \in SUBSET T : U \ {y} \in SUBSET R /\ (y \notin U => U \in SUBSET R)
  OBVIOUS
<1>8. g \in [SUBSET R -> Int] /\ g[{}] = 0 /\ \A U \in SUBSET R : \A x \in U : g[U] = f[x] + g[U \ {x}]
  BY <1>5 DEF IsTotal
<1> HIDE DEF R, Bad
<1>9. h \in [SUBSET T -> Int]
  <2>1. ASSUME NEW U \in SUBSET T PROVE (IF y \in U THEN f[y] + g[U \ {y}] ELSE g[U]) \in Int
    BY <1>6, <1>7, <1>8
  <2>2. QED BY <2>1
<1>10. h[{}] = 0
  BY <1>8
<1>11. ASSUME NEW U \in SUBSET T, NEW x \in U PROVE h[U] = f[x] + h[U \ {x}]
  <2>1. U \ {x} \in SUBSET T /\ f[x] \in Int
    BY <1>6
  <2>2. CASE x = y
    <3>1. h[U] = f[y] + g[U \ {y}] /\ h[U \ {x}] = g[U \ {y}]
      BY <2>1, <2>2
    <3>2. QED BY <2>2, <3>1
  <2>3. CASE x # y /\ y \in U
    <3>1. h[U] = f[y] + g[U \ {y}] /\ h[U \ {x}] = f[y] + g[(U \ {x}) \ {y}]
      BY <2>1, <2>3
    <3>2. x \in U \ {y} /\ (U \ {x}) \ {y} = (U \ {y}) \ {x}
      BY <2>3
    <3>3. g[U \ {y}] = f[x] + g[(U \ {y}) \ {x}] /\ g[(U \ {x}) \ {y}] \in Int
      BY <1>7, <1>8, <2>1, <3>2
    <3> DEFINE c == g[(U \ {x}) \ {y}]
    <3>4. c \in Int /\ h[U] = f[y] + (f[x] + c) /\ h[U \ {x}] = f[y] + c
      BY <3>1, <3>2, <3>3
    <3> HIDE DEF c, h
    <3>5. QED BY <1>6, <2>1, <3>4
  <2>4. CASE y \notin U
    BY <1>7, <1>8, <2>1, <2>4
  <2>5. QED BY <2>2, <2>3, <2>4
<1>12. IsTotal(h, f, T)
  BY <1>9, <1>10, <1>11 DEF IsTotal
<1>13. QED BY <1>2, <1>12 DEF Bad

LEMMA TotalIs ==
    ASSUME NEW f, NEW g, IsFiniteSet(DOMAIN f), IsTotal(g, f, DOMAIN f)
    PROVE  Total(f) = g[DOMAIN f]
<1> DEFINE S == DOMAIN f
           iter[s \in SUBSET S] == IF s = {} THEN 0 ELSE LET x == CHOOSE x \in s : TRUE IN f[x] + iter[s \ {x}]
<1>1. Total(f) = iter[S]
  BY DEF Total, MapThenSumSet, MapThenFoldSet
<1> DEFINE pick(s) == CHOOSE x \in s : TRUE
<1>2. \A s \in SUBSET S : s # {} => pick(s) \in s
  OBVIOUS
<1>3. g \in [SUBSET S -> Int] /\ g[{}] = 0 /\ \A T \in SUBSET S : \A x \in T : g[T] = f[x] + g[T \ {x}]
  BY DEF IsTotal
<1>4. g = [s \in SUBSET S |-> IF s = {} THEN 0 ELSE f[pick(s)] + g[s \ {pick(s)}]]
  <2>1. \A s \in SUBSET S : g[s] = IF s = {} THEN 0 ELSE f[pick(s)] + g[s \ {pick(s)}]
    <3> HIDE DEF S, pick
    <3>1. QED BY <1>2, <1>3
  <2> HIDE DEF S, pick
  <2>2. QED BY <1>3, <2>1
<1>5. iter = [s \in SUBSET S |-> IF s = {} THEN 0 ELSE f[pick(s)] + iter[s \ {pick(s)}]]
  <2>1. \E h : h = [s \in SUBSET S |-> IF s = {} THEN 0 ELSE f[pick(s)] + h[s \ {pick(s)}]]
    BY <1>4
  <2>2. QED BY <2>1
<1> HIDE DEF iter, pick
<1> DEFINE Bad == {T \in SUBSET S : iter[T] # g[T]}
<1>6. Bad = {}
  <2>1. SUFFICES ASSUME Bad # {} PROVE FALSE
    OBVIOUS
  <2>2. PICK T \in Bad : \A U \in SUBSET T : U # T => U \notin Bad
    <3>1. IsFiniteSet(S) /\ Bad \in SUBSET (SUBSET S) /\ Bad # {}
      BY <2>1
    <3> HIDE DEF Bad, S
    <3>2. QED BY <3>1, SmallestExists
  <2>3. T # {}
    BY <1>3, <1>5
  <2>4. pick(T) \in T /\ T \in SUBSET S
    BY <1>2, <2>3
  <2>5. iter[T \ {pick(T)}] = g[T \ {pick(T)}]
    BY <2>2, <2>4
  <2>6. iter[T] = f[pick(T)] + iter[T \ {pick(T)}]
    BY <1>5, <2>3, <2>4
  <2>7. g[T] = f[pick(T)] + g[T \ {pick(T)}]
    BY <1>3, <2>4
  <2>8. QED BY <2>5, <2>6, <2>7
<1>7. QED BY <1>1, <1>6
LEMMA TotalIsInt ==
    ASSUME NEW f, IsFiniteSet(DOMAIN f), \A x \in DOMAIN f : f[x] \in Int
    PROVE  Total(f) \in Int /\ (DOMAIN f = {} => Total(f) = 0)
<1>1. PICK g : IsTotal(g, f, DOMAIN f)
  BY TotalExists
<1>2. Total(f) = g[DOMAIN f]
  BY <1>1, TotalIs
<1>3. g \in [SUBSET (DOMAIN f) -> Int] /\ g[{}] = 0
  BY <1>1 DEF IsTotal
<1>4. QED BY <1>2, <1>3

LEMMA TotalAgrees ==
    ASSUME NEW f, NEW h, IsFiniteSet(DOMAIN f), \A x \in DOMAIN f : f[x] \in Int /\ h[x] = f[x], DOMAIN h = DOMAIN f
    PROVE  Total(h) = Total(f)
<1>1. PICK g : IsTotal(g, f, DOMAIN f)
  BY TotalExists
<1>2. IsTotal(g, h, DOMAIN h)
  BY <1>1 DEF IsTotal
<1>3. QED BY <1>1, <1>2, TotalIs

LEMMA TotalExtends ==
    ASSUME NEW f, NEW h, NEW x, IsFiniteSet(DOMAIN f), \A c \in DOMAIN f : f[c] \in Int /\ h[c] = f[c],
           x \notin DOMAIN f, DOMAIN h = DOMAIN f \cup {x}, h[x] \in Int
    PROVE  Total(h) = Total(f) + h[x]
<1> DEFINE S == DOMAIN f
           R == DOMAIN h
<1>1. IsFiniteSet(R)
  BY FS_AddElement
<1>2. \A c \in R : h[c] \in Int
  OBVIOUS
<1>3. PICK g : IsTotal(g, h, R)
  BY <1>1, <1>2, TotalExists
<1> DEFINE k == [T \in SUBSET S |-> g[T]]
<1>4. IsTotal(k, f, S)
  <2>1. g \in [SUBSET R -> Int] /\ g[{}] = 0 /\ \A T \in SUBSET R : \A c \in T : g[T] = h[c] + g[T \ {c}]
    BY <1>3 DEF IsTotal
  <2>2. SUBSET S \subseteq SUBSET R
    OBVIOUS
  <2>3. k \in [SUBSET S -> Int] /\ k[{}] = 0
    BY <2>1, <2>2
  <2>4. ASSUME NEW T \in SUBSET S, NEW c \in T PROVE k[T] = f[c] + k[T \ {c}]
    BY <2>1, <2>2, <2>4
  <2>5. QED BY <2>3, <2>4 DEF IsTotal
<1>5. Total(f) = k[S] /\ Total(h) = g[R]
  BY <1>1, <1>3, <1>4, TotalIs
<1>6. k[S] = g[S] /\ R \ {x} = S /\ x \in R
  OBVIOUS
<1>7. g[R] = h[x] + g[S] /\ g[S] \in Int
  <2>1. g[R] = h[x] + g[R \ {x}] /\ g[R \ {x}] \in Int
    BY <1>3, <1>6 DEF IsTotal
  <2>2. QED BY <1>6, <2>1
<1> HIDE DEF k, S, R
<1>8. QED BY <1>5, <1>6, <1>7

LEMMA TotalChanges ==
    ASSUME NEW f, NEW h, NEW x \in DOMAIN f, IsFiniteSet(DOMAIN f), DOMAIN h = DOMAIN f,
           \A c \in DOMAIN f : f[c] \in Int /\ h[c] \in Int /\ (c # x => h[c] = f[c])
    PROVE  Total(h) = (Total(f) - f[x]) + h[x]
<1> DEFINE k == [c \in DOMAIN f \ {x} |-> f[c]]
<1>1. /\ DOMAIN k = DOMAIN f \ {x} /\ IsFiniteSet(DOMAIN k) /\ x \notin DOMAIN k
      /\ DOMAIN f = DOMAIN k \cup {x} /\ DOMAIN h = DOMAIN k \cup {x}
      /\ \A c \in DOMAIN k : k[c] \in Int /\ f[c] = k[c] /\ h[c] = k[c]
  BY FS_RemoveElement
<1> HIDE DEF k
<1>2. f[x] \in Int /\ h[x] \in Int
  OBVIOUS
<1>3. Total(f) = Total(k) + f[x]
  <2>1. \A c \in DOMAIN k : k[c] \in Int /\ f[c] = k[c]
    BY <1>1
  <2>2. IsFiniteSet(DOMAIN k) /\ x \notin DOMAIN k /\ DOMAIN f = DOMAIN k \cup {x} /\ f[x] \in Int
    BY <1>1, <1>2
  <2>3. QED BY ONLY <2>1, <2>2, TotalExtends
<1>4. Total(h) = Total(k) + h[x]
  <2>1. \A c \in DOMAIN k : k[c] \in Int /\ h[c] = k[c]
    BY <1>1
  <2>2. IsFiniteSet(DOMAIN k) /\ x \notin DOMAIN k /\ DOMAIN h = DOMAIN k \cup {x} /\ h[x] \in Int
    BY <1>1, <1>2
  <2>3. QED BY ONLY <2>1, <2>2, TotalExtends
<1>5. Total(k) \in Int
  BY <1>1, TotalIsInt
<1>6. QED BY <1>2, <1>3, <1>4, <1>5

LEMMA TotalAdds ==
    ASSUME NEW f, NEW a, NEW b, IsFiniteSet(DOMAIN f), DOMAIN a = DOMAIN f, DOMAIN b = DOMAIN f,
           \A c \in DOMAIN f : a[c] \in Int /\ b[c] \in Int /\ f[c] = a[c] + b[c]
    PROVE  Total(f) = Total(a) + Total(b)
<1> DEFINE S == DOMAIN f
<1>1. PICK g : IsTotal(g, a, S)
  BY TotalExists
<1>2. PICK h : IsTotal(h, b, S)
  BY TotalExists
<1> DEFINE k == [T \in SUBSET S |-> g[T] + h[T]]
<1>3. /\ g \in [SUBSET S -> Int] /\ g[{}] = 0 /\ \A T \in SUBSET S : \A c \in T : g[T] = a[c] + g[T \ {c}]
      /\ h \in [SUBSET S -> Int] /\ h[{}] = 0 /\ \A T \in SUBSET S : \A c \in T : h[T] = b[c] + h[T \ {c}]
  BY <1>1, <1>2 DEF IsTotal
<1>4. k \in [SUBSET S -> Int] /\ k[{}] = 0
  BY <1>3
<1>5. ASSUME NEW T \in SUBSET S, NEW c \in T PROVE k[T] = f[c] + k[T \ {c}]
  <2>1. T \ {c} \in SUBSET S /\ c \in S
    OBVIOUS
  <2>2. k[T] = g[T] + h[T] /\ k[T \ {c}] = g[T \ {c}] + h[T \ {c}]
    BY <2>1
  <2>3. /\ a[c] \in Int /\ b[c] \in Int /\ f[c] = a[c] + b[c]
        /\ g[T \ {c}] \in Int /\ h[T \ {c}] \in Int
    BY <1>3, <2>1
  <2>4. g[T] = a[c] + g[T \ {c}] /\ h[T] = b[c] + h[T \ {c}]
    BY <1>3
  <2> HIDE DEF k
  <2>5. QED BY <2>2, <2>3, <2>4
<1>6. IsTotal(k, f, S)
  BY <1>4, <1>5 DEF IsTotal
<1>7. Total(f) = k[S] /\ Total(a) = g[S] /\ Total(b) = h[S]
  BY <1>1, <1>2, <1>6, TotalIs
<1>8. QED BY <1>7

LEMMA TotalPositive ==
    ASSUME NEW f, IsFiniteSet(DOMAIN f), \A x \in DOMAIN f : f[x] \in Int /\ f[x] >= 0
    PROVE  Total(f) \in Int /\ Total(f) >= 0
<1> DEFINE S == DOMAIN f
<1>1. PICK g : IsTotal(g, f, S)
  BY TotalExists
<1>2. g \in [SUBSET S -> Int] /\ g[{}] = 0 /\ \A T \in SUBSET S : \A c \in T : g[T] = f[c] + g[T \ {c}]
  BY <1>1 DEF IsTotal
<1> DEFINE Bad == {T \in SUBSET S : ~(g[T] >= 0)}
<1>3. Bad = {}
  <2>1. SUFFICES ASSUME Bad # {} PROVE FALSE
    OBVIOUS
  <2>2. PICK T \in Bad : \A U \in SUBSET T : U # T => U \notin Bad
    <3>1. IsFiniteSet(S) /\ Bad \in SUBSET (SUBSET S) /\ Bad # {}
      BY <2>1
    <3> HIDE DEF Bad, S
    <3>2. QED BY <3>1, SmallestExists
  <2>3. T # {} /\ T \in SUBSET S
    <3>1. T \in SUBSET S /\ ~(g[T] >= 0)
      OBVIOUS
    <3>2. 0 >= 0
      OBVIOUS
    <3>3. T # {}
      BY <1>2, <3>1, <3>2
    <3>4. QED BY <3>1, <3>3
  <2>4. PICK c \in T : TRUE
    BY <2>3
  <2>5. g[T \ {c}] >= 0 /\ g[T \ {c}] \in Int /\ f[c] \in Int /\ f[c] >= 0
    BY <1>2, <2>2, <2>3, <2>4
  <2>6. g[T] = f[c] + g[T \ {c}]
    BY <1>2, <2>3, <2>4
  <2>7. g[T] >= 0
    <3> HIDE DEF Bad, S
    <3>1. QED BY <2>5, <2>6
  <2>8. QED BY <2>7
<1>4. g[S] \in Int /\ g[S] >= 0
  BY <1>2, <1>3
<1>5. QED BY <1>1, <1>4, TotalIs

-----------------------------------------------------------------------------
(* The arithmetic of ledgers. *)

LEMMA NumbersAre == Reserve \in Nat /\ MaxCost \in Nat /\ MaxTokens \in Nat
  BY StageRuntimeAssumption

LEMMA CappedIs == ASSUME NEW t \in Nat PROVE Capped(t) \in Nat /\ Capped(t) <= t /\ Capped(t) <= Reserve
  BY NumbersAre DEF Capped

\* Only the ledger counts.
LEMMA SameLedger ==
    ASSUME NEW r, NEW q, r.ledger = q.ledger
    PROVE  /\ Known(r) = Known(q) /\ CostOf(r) = CostOf(q) /\ TokensOf(r) = TokensOf(q)
           /\ Spent(r) = Spent(q) /\ (WithinBudget(r) <=> WithinBudget(q))
           /\ \A l, n, held, free : Follows(r, l, n, held, free) <=> Follows(q, l, n, held, free)
<1>1. Known(r) = Known(q)
  BY DEF Known
<1>2. CostOf(r) = CostOf(q) /\ TokensOf(r) = TokensOf(q) /\ Spent(r) = Spent(q)
  BY <1>1 DEF CostOf, TokensOf, Spent
<1>3. QED
  BY <1>1, <1>2 DEF WithinBudget, Follows

LEMMA SpentIs ==
    ASSUME NEW r, IsFiniteSet(Known(r)), \A c \in Known(r) : r.ledger[c].tokens \in Nat
    PROVE  /\ Spent(r) \in Nat /\ TokensOf(r) \in Nat /\ CostOf(r) \in Nat /\ Spent(r) <= TokensOf(r)
           /\ Known(r) = {} => Spent(r) = 0 /\ TokensOf(r) = 0 /\ CostOf(r) = 0
<1> DEFINE K == Known(r)
           f == [c \in K |-> r.ledger[c].tokens]
           a == [c \in K |-> Capped(r.ledger[c].tokens)]
           b == [c \in K |-> r.ledger[c].tokens - Capped(r.ledger[c].tokens)]
<1>1. \A c \in K : /\ r.ledger[c].tokens \in Nat /\ Capped(r.ledger[c].tokens) \in Nat
                   /\ Capped(r.ledger[c].tokens) <= r.ledger[c].tokens
  BY CappedIs
<1>2. /\ DOMAIN f = K /\ DOMAIN a = K /\ DOMAIN b = K
      /\ \A c \in K : /\ f[c] \in Int /\ f[c] >= 0 /\ a[c] \in Int /\ a[c] >= 0 /\ b[c] \in Int /\ b[c] >= 0
                      /\ f[c] = a[c] + b[c]
  BY <1>1
<1>3. Spent(r) = Total(a) /\ TokensOf(r) = Total(f) /\ CostOf(r) = Cardinality(K) /\ IsFiniteSet(K)
  BY DEF Spent, TokensOf, CostOf
<1> HIDE DEF f, a, b, K
<1>4. Total(f) = Total(a) + Total(b)
  BY <1>2, <1>3, TotalAdds
<1>5. /\ Total(f) \in Int /\ Total(f) >= 0 /\ Total(a) \in Int /\ Total(a) >= 0
      /\ Total(b) \in Int /\ Total(b) >= 0
  BY <1>2, <1>3, TotalPositive
<1>6. Cardinality(K) \in Nat /\ (K = {} => Cardinality(K) = 0)
  BY <1>3, FS_CardinalityType, FS_EmptySet
<1>7. K = {} => Total(f) = 0 /\ Total(a) = 0
  BY <1>2, <1>3, TotalIsInt
<1>8. QED
  BY <1>3, <1>4, <1>5, <1>6, <1>7 DEF K

\* A call is recorded that the ledger did not have.
LEMMA SpentMore ==
    ASSUME NEW r, IsRow(r), IsFiniteSet(Known(r)), \A c \in Known(r) : r.ledger[c].tokens \in Nat,
           NEW call, call \notin Known(r), NEW entry, entry.tokens \in Nat,
           NEW q, q = Recorded(r, call, entry)
    PROVE  /\ IsFiniteSet(Known(q)) /\ \A c \in Known(q) : q.ledger[c].tokens \in Nat
           /\ Spent(q) = Spent(r) + Capped(entry.tokens)
           /\ TokensOf(q) = TokensOf(r) + entry.tokens
           /\ CostOf(q) = CostOf(r) + 1
<1>1. /\ Known(q) = Known(r) \cup {call} /\ q.ledger[call] = entry
      /\ \A c \in Known(r) : c # call => q.ledger[c] = r.ledger[c]
  BY RecordedIs
<1>2. IsFiniteSet(Known(q)) /\ CostOf(q) = CostOf(r) + 1
  BY <1>1, FS_AddElement DEF CostOf
<1>3. \A c \in Known(q) : q.ledger[c].tokens \in Nat /\ Capped(q.ledger[c].tokens) \in Nat
  BY <1>1, CappedIs
<1> DEFINE f == [c \in Known(r) |-> r.ledger[c].tokens]
           h == [c \in Known(q) |-> q.ledger[c].tokens]
           a == [c \in Known(r) |-> Capped(r.ledger[c].tokens)]
           b == [c \in Known(q) |-> Capped(q.ledger[c].tokens)]
<1>4. /\ DOMAIN f = Known(r) /\ DOMAIN h = Known(r) \cup {call}
      /\ DOMAIN a = Known(r) /\ DOMAIN b = Known(r) \cup {call}
      /\ h[call] = entry.tokens /\ b[call] = Capped(entry.tokens)
      /\ h[call] \in Int /\ b[call] \in Int
      /\ \A c \in Known(r) : f[c] \in Int /\ h[c] = f[c] /\ a[c] \in Int /\ b[c] = a[c]
  <2>1. \A c \in Known(r) : r.ledger[c].tokens \in Int /\ Capped(r.ledger[c].tokens) \in Int
    BY CappedIs
  <2>2. \A c \in Known(r) : q.ledger[c] = r.ledger[c] /\ c \in Known(q)
    BY <1>1
  <2>3. call \in Known(q) /\ q.ledger[call].tokens \in Int /\ Capped(q.ledger[call].tokens) \in Int
    BY <1>1, <1>3
  <2>4. QED
    BY <1>1, <2>1, <2>2, <2>3
<1>5. /\ TokensOf(r) = Total(f) /\ TokensOf(q) = Total(h) /\ Spent(r) = Total(a) /\ Spent(q) = Total(b)
  BY DEF TokensOf, Spent
<1> HIDE DEF f, h, a, b
<1>6. Total(h) = Total(f) + h[call] /\ Total(b) = Total(a) + b[call]
  BY <1>4, TotalExtends
<1>7. QED
  BY <1>2, <1>3, <1>4, <1>5, <1>6

\* A call is recorded anew.
LEMMA SpentAnew ==
    ASSUME NEW r, IsRow(r), IsFiniteSet(Known(r)), \A c \in Known(r) : r.ledger[c].tokens \in Nat,
           NEW call \in Known(r), NEW entry, entry.tokens \in Nat,
           NEW q, q = Recorded(r, call, entry)
    PROVE  /\ IsFiniteSet(Known(q)) /\ \A c \in Known(q) : q.ledger[c].tokens \in Nat
           /\ Spent(q) = (Spent(r) - Capped(r.ledger[call].tokens)) + Capped(entry.tokens)
           /\ TokensOf(q) = (TokensOf(r) - r.ledger[call].tokens) + entry.tokens
           /\ CostOf(q) = CostOf(r)
<1>0. /\ Known(q) = Known(r) \cup {call} /\ q.ledger[call] = entry
      /\ \A c \in Known(r) : c # call => q.ledger[c] = r.ledger[c]
  BY RecordedIs
<1>1. /\ Known(q) = Known(r) /\ q.ledger[call] = entry
      /\ \A c \in Known(r) : c # call => q.ledger[c] = r.ledger[c]
  BY <1>0
<1>2. IsFiniteSet(Known(q)) /\ CostOf(q) = CostOf(r)
  BY <1>1 DEF CostOf
<1>3. \A c \in Known(q) : q.ledger[c].tokens \in Nat /\ Capped(q.ledger[c].tokens) \in Nat
  BY <1>1, CappedIs
<1> DEFINE f == [c \in Known(r) |-> r.ledger[c].tokens]
           h == [c \in Known(q) |-> q.ledger[c].tokens]
           a == [c \in Known(r) |-> Capped(r.ledger[c].tokens)]
           b == [c \in Known(q) |-> Capped(q.ledger[c].tokens)]
<1>4. /\ DOMAIN f = Known(r) /\ DOMAIN h = Known(r) /\ DOMAIN a = Known(r) /\ DOMAIN b = Known(r)
      /\ h[call] = entry.tokens /\ b[call] = Capped(entry.tokens)
      /\ f[call] = r.ledger[call].tokens /\ a[call] = Capped(r.ledger[call].tokens)
      /\ \A c \in Known(r) : f[c] \in Int /\ h[c] \in Int /\ a[c] \in Int /\ b[c] \in Int
      /\ \A c \in Known(r) : c # call => h[c] = f[c] /\ b[c] = a[c]
  <2>1. \A c \in Known(r) : r.ledger[c].tokens \in Int /\ Capped(r.ledger[c].tokens) \in Int
    BY CappedIs
  <2>2. \A c \in Known(r) : q.ledger[c].tokens \in Int /\ Capped(q.ledger[c].tokens) \in Int
    BY <1>1, <1>3
  <2>3. QED
    BY <1>1, <2>1, <2>2
<1>5. /\ TokensOf(r) = Total(f) /\ TokensOf(q) = Total(h) /\ Spent(r) = Total(a) /\ Spent(q) = Total(b)
  BY DEF TokensOf, Spent
<1> HIDE DEF f, h, a, b
<1>6. Total(h) = (Total(f) - f[call]) + h[call] /\ Total(b) = (Total(a) - a[call]) + b[call]
  BY <1>4, TotalChanges
<1>7. QED
  BY <1>2, <1>3, <1>4, <1>5, <1>6

-----------------------------------------------------------------------------
(* How calls follow each other. *)

\* The lens moves on with its call.
LEMMA FollowsStep ==
    ASSUME NEW r, NEW l, NEW n, NEW m, NEW h, NEW f, NEW k, NEW g, Follows(r, l, n, h, f),
           m.output = n.output, m.transport = n.transport,
           n.pc \in {"ask", "reserving"} \cup InCalls, m.pc # "idle",
           n.pc \in f => m.pc \in g,
           n.pc \in h => m.pc \in k \cup g
    PROVE  Follows(r, l, m, k, g)
BY DEF Follows, Behind

\* Nothing is said of a lens that is done or threw.
LEMMA FollowsRests ==
    ASSUME NEW r, NEW l, NEW m, m.pc \in {"done", "threw"}, NEW k, NEW g
    PROVE  Follows(r, l, m, k, g)
BY DEF Follows, InCalls

\* A lens that was idle has no calls.
LEMMA FollowsTaken ==
    ASSUME NEW r, NEW l, NEW n, NEW m, NEW h, NEW f, Follows(r, l, n, h, f), n.pc = "idle", NEW k, NEW g
    PROVE  Follows(r, l, m, k, g)
BY DEF Follows

\* The call is over.
After(m, n) ==
    /\ m.output \in Nat /\ m.transport \in Nat
    /\ n.output < m.output \/ (n.output = m.output /\ n.transport < m.transport)

LEMMA FollowsAfter ==
    ASSUME NEW r, NEW l, NEW n, NEW m, NEW h, NEW f, Follows(r, l, n, h, f),
           n.pc \in {"reserving"} \cup InCalls, LensCounts(n), m.pc = "ask", After(m, n), NEW k, NEW g
    PROVE  Follows(r, l, m, k, g)
<1> SUFFICES ASSUME NEW c \in Known(r), c[1] = l PROVE Behind(c, l, m)
  BY DEF Follows
<1>1. n.output \in Nat /\ n.transport \in Nat /\ m.output \in Nat /\ m.transport \in Nat
  BY DEF LensCounts, After
<1>2. CASE Behind(c, l, n)
  <2>1. PICK o, t \in Nat : c = <<l, o, t>> /\ (o < n.output \/ (o = n.output /\ t < n.transport))
    BY <1>2 DEF Behind
  <2>2. o < m.output \/ (o = m.output /\ t < m.transport)
    BY <1>1, <2>1 DEF After
  <2>3. QED
    BY <2>1, <2>2 DEF Behind
<1>3. CASE c = <<l, n.output, n.transport>>
  BY <1>1, <1>3 DEF Behind, After
<1>4. QED
  BY <1>2, <1>3 DEF Follows

\* A call of another lens is recorded.
LEMMA FollowsOther ==
    ASSUME NEW r, IsRow(r), NEW l, NEW n, NEW h, NEW f, Follows(r, l, n, h, f),
           NEW call, call[1] # l, NEW entry
    PROVE  Follows(Recorded(r, call, entry), l, n, h, f)
<1> DEFINE q == Recorded(r, call, entry)
<1>1. Known(q) = Known(r) \cup {call} /\ \A c \in Known(r) : c # call => q.ledger[c] = r.ledger[c]
  BY RecordedIs
<1> HIDE DEF q
<1>2. \A c \in Known(q) : c[1] = l => c \in Known(r) /\ q.ledger[c] = r.ledger[c]
  BY <1>1
<1>3. Follows(q, l, n, h, f)
  BY <1>2 DEF Follows
<1>4. QED
  BY <1>3 DEF q

\* The lens records its own call.
LEMMA FollowsOwn ==
    ASSUME NEW r, IsRow(r), NEW l, NEW n, NEW h, NEW f, Follows(r, l, n, h, f),
           NEW m, m.output = n.output, m.transport = n.transport,
           n.pc \in {"ask", "reserving"} \cup InCalls, m.pc # "idle",
           NEW entry, NEW k, NEW g, m.pc \in g \/ (m.pc \in k /\ entry.tokens = Reserve),
           n.pc \in h \/ n.pc \in f => m.pc \in g
    PROVE  Follows(Recorded(r, <<l, n.output, n.transport>>, entry), l, m, k, g)
<1> DEFINE call == <<l, n.output, n.transport>>
           q == Recorded(r, call, entry)
<1>1. /\ Known(q) = Known(r) \cup {call} /\ q.ledger[call] = entry
      /\ \A c \in Known(r) : c # call => q.ledger[c] = r.ledger[c]
  BY RecordedIs
<1> HIDE DEF q
<1> SUFFICES ASSUME NEW c \in Known(q), c[1] = l
             PROVE  \/ Behind(c, l, m)
                    \/ c = call /\ (m.pc \in g \/ (m.pc \in k /\ q.ledger[c].tokens = Reserve))
  BY DEF Follows, q
<1>2. CASE c = call
  BY <1>1, <1>2
<1>3. CASE c # call
  BY <1>1, <1>3 DEF Follows, Behind
<1>4. QED
  BY <1>2, <1>3

\* A lens at work knows its call by the reservation.
LEMMA FollowsHeld ==
    ASSUME NEW r, NEW l, NEW n, LensCounts(n), InMemory(r, l, n), n.pc \in {"ask", "reserving"} \cup InCalls,
           <<l, n.output, n.transport>> \in Known(r)
    PROVE  n.pc \in InCalls /\ r.ledger[<<l, n.output, n.transport>>].tokens = Reserve
<1> DEFINE call == <<l, n.output, n.transport>>
<1>1. call[1] = l /\ n.output \in Nat /\ n.transport \in Nat
  BY DEF LensCounts
<1>2. ~Behind(call, l, n)
  <2> SUFFICES ASSUME Behind(call, l, n) PROVE FALSE
    OBVIOUS
  <2>1. PICK o, t \in Nat : call = <<l, o, t>> /\ (o < n.output \/ (o = n.output /\ t < n.transport))
    BY DEF Behind
  <2>2. o = n.output /\ t = n.transport
    BY <2>1
  <2>3. QED
    BY <1>1, <2>1, <2>2
<1>3. QED
  BY <1>1, <1>2 DEF InMemory, Follows

\* A mutation's ledger becomes the memory of the other lenses.
LEMMA FollowsAccepted ==
    ASSUME NEW r, NEW l, NEW n, OnItsWay(r, l, n), n.pc \notin {"reserving", "settling"}
    PROVE  InMemory(r, l, n)
BY DEF OnItsWay, InMemory, Follows, InCalls

-----------------------------------------------------------------------------
(* A step of an execution that changes its memory alone. *)

\* What the others need of it: it is no more at work on the lens stage than before.
Quiet(x, y) ==
    /\ Working(y) => Working(x)
    /\ y.pc = "starting" /\ Working(y) => x.pc = "starting"
    /\ \A c \in Calls : Pending(y, c) => Pending(x, c)
    /\ Working(y) /\ Final(x) => Final(y)

\* A step of one execution keeps its usage, and others need not care.
Pays(x, y) ==
    /\ UsageSound(x) => UsageSound(y)
    /\ Working(y) => y.cost = x.cost

Fine(x, y) == Sound(y) /\ Quiet(x, y) /\ Pays(x, y) /\ (Held(x) => Held(y))

\* Without a started lens no mutation of the ledger is under way.
LEMMA Unstarted ==
    ASSUME NEW x, Sound(x), ~Started(x), x.pc # "crashed"
    PROVE  x.save["ledger"].phase = "none" /\ \A l \in Lenses : x.lens[l].pc = "idle"
BY DEF Sound, LedgerSound, Started, Mutating

\* The lenses and their mutation are left alone.
RunStep(x, y) ==
    /\ y.cost = x.cost /\ y.tokens = x.tokens /\ y.lens = x.lens
    /\ y.save["ledger"] = x.save["ledger"]
    /\ \/ LRow(y) = LRow(x)
       \/ /\ x.save["run"].phase # "none" /\ x.save["run"].stage = LensStage
          /\ LRow(y) = x.save["run"].row
    /\ y.save["run"].phase # "none" /\ y.save["run"].stage = LensStage =>
           y.save["run"].row.ledger = LRow(x).ledger
    /\ LRow(y).status = "running" =>
           \/ LRow(y) = LRow(x)
           \/ x.pc \in AtWork /\ ~SomeThrew(x) /\ LRow(y).ledger = LRow(x).ledger
    /\ y.pc \in AtWork /\ ~SomeThrew(x) => x.pc \in AtWork /\ LRow(y).ledger = LRow(x).ledger
    /\ y.pc = "operating" => ~Started(x)
    /\ Working(y) => Working(x)

LEMMA RunPays ==
    ASSUME NEW x, NEW y, RunStep(x, y)
    PROVE  Pays(x, y)
<1> SUFFICES ASSUME UsageSound(x) PROVE UsageSound(y)
  BY DEF Pays, RunStep
<1>1. /\ SomeThrew(y) <=> SomeThrew(x)
      /\ \A l \in Lenses : Mutating(y, l) <=> Mutating(x, l)
      /\ \A l \in Lenses : Reserving(y, l) <=> Reserving(x, l)
  BY DEF RunStep, SomeThrew, Mutating, Reserving
<1>2. /\ x.tokens \in Int /\ WithinBudget(LRow(x)) /\ Paid(x, LRow(x), 0) /\ Agrees(x)
      /\ x.save["run"].phase # "none" /\ x.save["run"].stage = LensStage =>
             WithinBudget(x.save["run"].row)
  BY DEF UsageSound, CopiesWithin
<1>3. /\ Spent(LRow(x)) \in Nat /\ TokensOf(LRow(x)) \in Nat /\ Spent(LRow(x)) <= TokensOf(LRow(x))
  BY <1>2, SpentIs DEF WithinBudget
<1>4. Agrees(y)
  <2> SUFFICES ASSUME y.pc \in AtWork, ~SomeThrew(y)
               PROVE  y.cost = CostOf(LRow(y)) /\ y.tokens = TokensOf(LRow(y))
    BY DEF Agrees
  <2>1. x.pc \in AtWork /\ ~SomeThrew(x) /\ LRow(y).ledger = LRow(x).ledger
    BY <1>1 DEF RunStep
  <2>2. CostOf(LRow(y)) = CostOf(LRow(x)) /\ TokensOf(LRow(y)) = TokensOf(LRow(x))
    BY <2>1, SameLedger
  <2>3. QED
    BY <1>2, <2>1, <2>2 DEF Agrees, RunStep
<1>5. Paid(y, LRow(y), 0)
  <2> SUFFICES ASSUME LRow(y).status = "running" PROVE Spent(LRow(y)) <= x.tokens + 0
    BY DEF Paid, RunStep
  <2>1. CASE LRow(y) = LRow(x)
    BY <1>2, <2>1 DEF Paid
  <2>2. CASE LRow(y) # LRow(x)
    <3>1. x.pc \in AtWork /\ ~SomeThrew(x) /\ LRow(y).ledger = LRow(x).ledger
      BY <2>2 DEF RunStep
    <3>2. Spent(LRow(y)) = Spent(LRow(x)) /\ x.tokens = TokensOf(LRow(x))
      BY <1>2, <3>1, SameLedger DEF Agrees
    <3>3. QED
      BY <1>3, <3>2
  <2>3. QED
    BY <2>1, <2>2
<1>6. WithinBudget(LRow(y))
  BY <1>2 DEF RunStep
<1>7. y.save["run"].phase # "none" /\ y.save["run"].stage = LensStage => WithinBudget(y.save["run"].row)
  BY <1>2, SameLedger DEF RunStep
<1>8. CopiesWithin(y)
  <2>1. x.save["ledger"].phase # "none" =>
            /\ WithinBudget(x.save["ledger"].row)
            /\ \A l \in Lenses : Mutating(x, l) => Paid(x, x.save["ledger"].row, More(x.lens[l]))
    BY DEF UsageSound, CopiesWithin
  <2>2. \A r, more : Paid(y, r, more) <=> Paid(x, r, more)
    BY DEF Paid, RunStep
  <2>3. \A l \in Lenses : Reserving(x, l) => x.cost + 1 <= MaxCost
    BY DEF UsageSound, CopiesWithin
  <2>4. QED
    BY <1>1, <1>5, <1>6, <1>7, <2>1, <2>2, <2>3 DEF CopiesWithin, RunStep
<1>9. ASSUME Working(y), NEW l \in Lenses PROVE CopiesFollow(y, l)
  <2>1. CopiesFollow(x, l)
    BY <1>9 DEF UsageSound, RunStep
  <2>2. InMemory(LRow(y), l, x.lens[l])
    BY <2>1 DEF CopiesFollow, RunStep
  <2>3. y.save["run"].phase # "none" /\ y.save["run"].stage = LensStage =>
            InMemory(y.save["run"].row, l, x.lens[l])
    BY <2>1, SameLedger DEF CopiesFollow, RunStep, InMemory
  <2>4. QED
    BY <2>1, <2>2, <2>3 DEF CopiesFollow, RunStep
<1>10. Undisturbed(y) => \A l \in Lenses : y.lens[l].pc \notin InCalls
  BY DEF Undisturbed, RunStep, Started, InCalls
<1>11. QED
  BY <1>4, <1>8, <1>9, <1>10 DEF UsageSound, RunStep

\* run gives up the stage.
LEMMA CatchKeeps ==
    ASSUME NEW x, Sound(x), x.pc \in {"enter", "operating"},
           NEW y, IsExec(y), y.pc = "catching", y.at = x.at, x.aborted => y.aborted,
           y.memory = x.memory, y.lens = x.lens, y.cost = x.cost, y.tokens = x.tokens,
           y.save["ledger"] = x.save["ledger"],
           y.save["run"].phase = "sent", y.save["run"].stage = Stage(x),
           y.save["run"].row = Failed(x.memory[Stage(x)])
    PROVE  Fine(x, y)
<1> DEFINE r == y.save["run"].row
<1>0. /\ Stage(y) = Stage(x) /\ (AtLens(y) <=> AtLens(x)) /\ LRow(y) = LRow(x)
      /\ (Started(y) <=> Started(x)) /\ (AllDone(y) <=> AllDone(x))
      /\ (SomeThrew(y) <=> SomeThrew(x)) /\ Stage(x) \in Stages
      /\ \A l \in Lenses : Call(y, l) = Call(x, l)
  BY PlanIs DEF Stage, AtLens, LRow, Started, AllDone, SomeThrew, Call, Sound, IsExec
<1>1. IsRow(x.memory[Stage(x)])
  BY <1>0 DEF Sound, IsExec
<1>2. /\ r.status = "failed" /\ r.attempts = x.memory[Stage(x)].attempts /\ r.attempts \in Nat
      /\ r.ledger = x.memory[Stage(x)].ledger /\ Known(r) = Known(x.memory[Stage(x)])
  BY <1>1, StatusIs DEF Failed, Known, IsRow
<1>3. AtLens(x) => r.attempts = LRow(x).attempts /\ r.ledger = LRow(x).ledger /\ Known(r) = Known(LRow(x))
  BY <1>2 DEF AtLens, LRow
<1>4. RunSound(y)
  BY <1>0, <1>2, <1>3 DEF RunSound, Sound, StageSound, AtLens
<1>5. LedgerSound(y)
  BY <1>0 DEF LedgerSound, Sound, Mutating, Reserving
<1>6. UndisturbedSound(y)
  BY DEF UndisturbedSound, Undisturbed
<1>7. StageSound(y)
  BY <1>0 DEF StageSound, Sound
<1>8. Quiet(x, y)
  BY <1>0 DEF Quiet, Working, Pending, PendingAt, Reserving, Final, Sound, StageSound
<1>9. ASSUME Held(x) PROVE Held(y)
  <2>1. ASSUME Stage(x) = LensStage, r.attempts = 0
        PROVE  row[LensStage].attempts = 0 /\ y.save["ledger"].phase = "none"
    <3>1. x.pc = "enter" /\ ~Started(x)
      BY <1>3, <2>1 DEF AtLens, Sound, StageSound
    <3>2. x.save["ledger"].phase = "none"
      BY <3>1, Unstarted
    <3>3. QED
      BY <1>3, <1>9, <2>1, <3>1, <3>2 DEF AtLens, Held
  <2>2. y.pc \notin {"off", "crashed", "ended"} /\ (~AtLens(y) \/ y.pc = "enter")
            => row[LensStage] = LRow(y)
    BY <1>0, <1>9 DEF Held
  <2>3. QED
    BY <1>0, <1>2, <1>9, <2>1, <2>2 DEF Held, Reserving
<1>a. Pays(x, y)
  <2>1. RunStep(x, y)
    BY <1>0, <1>3, <1>8 DEF RunStep, Quiet, AtLens, AtWork
  <2>2. QED
    BY <2>1, RunPays
<1>10. QED
  BY <1>4, <1>5, <1>6, <1>7, <1>8, <1>9, <1>a DEF Fine, Sound

\* An attempt begins.
LEMMA StartKeeps ==
    ASSUME NEW x, Sound(x), x.pc = "enter" \/ (x.pc = "operating" /\ ~AtLens(x)),
           AtLens(x) => LRow(x).attempts = 0,
           NEW y, IsExec(y), y.pc = "starting", y.at = x.at, y.aborted = x.aborted,
           y.memory = x.memory, y.lens = x.lens, y.cost = x.cost, y.tokens = x.tokens,
           y.save["ledger"] = x.save["ledger"],
           y.save["run"].phase = "sent", y.save["run"].stage = Stage(x),
           y.save["run"].row =
               [x.memory[Stage(x)] EXCEPT !.status = "running", !.attempts = @ + 1]
    PROVE  Fine(x, y)
<1> DEFINE r == y.save["run"].row
<1>0. /\ Stage(y) = Stage(x) /\ (AtLens(y) <=> AtLens(x)) /\ LRow(y) = LRow(x)
      /\ (Started(y) <=> Started(x)) /\ (AllDone(y) <=> AllDone(x))
      /\ (SomeThrew(y) <=> SomeThrew(x)) /\ Stage(x) \in Stages
      /\ \A l \in Lenses : Call(y, l) = Call(x, l)
  BY PlanIs DEF Stage, AtLens, LRow, Started, AllDone, SomeThrew, Call, Sound, IsExec
<1>1. IsRow(x.memory[Stage(x)])
  BY <1>0 DEF Sound, IsExec
<1> DEFINE c == x.memory[Stage(x)]
<1>2. /\ r.status = "running" /\ r.attempts = c.attempts + 1
      /\ r.ledger = c.ledger /\ Known(r) = Known(c)
  <2>1. r = [c EXCEPT !.status = "running", !.attempts = @ + 1]
    OBVIOUS
  <2> HIDE DEF c, r
  <2>2. r.status = "running" /\ r.attempts = c.attempts + 1 /\ r.ledger = c.ledger
    BY <1>1, <2>1, StartedRowIs DEF c
  <2>3. QED
    BY <2>2 DEF Known
<1>3. AtLens(x) => r.attempts = 1 /\ Known(r) = {}
  BY <1>2 DEF AtLens, LRow, Sound, StageSound
<1>4. ~Started(x) /\ x.save["ledger"].phase = "none"
  BY Unstarted DEF Sound, StageSound
<1>5. RunSound(y)
  <2>1. AtLens(y) => r = [LRow(y) EXCEPT !.status = "running", !.attempts = @ + 1]
    BY <1>0 DEF AtLens, LRow
  <2>2. QED
    BY <1>0, <1>2, <1>3, <2>1 DEF RunSound, AtLens
<1>6. LedgerSound(y)
  BY <1>0 DEF LedgerSound, Sound, Mutating, Reserving
<1>7. UndisturbedSound(y)
  BY DEF UndisturbedSound, Undisturbed
<1>8. StageSound(y)
  BY <1>0, <1>4 DEF StageSound, Sound
<1>9. Quiet(x, y)
  BY <1>0, <1>4 DEF Quiet, Working, Pending, PendingAt, Reserving
<1>10. ASSUME Held(x) PROVE Held(y)
  <2>1. row[LensStage] = LRow(x)
    BY <1>10 DEF Held
  <2>2. ASSUME Stage(x) = LensStage PROVE row[LensStage].attempts = 0
    BY <2>1, <2>2 DEF AtLens
  <2>3. QED
    BY <1>0, <1>2, <1>4, <1>10, <2>1, <2>2 DEF Held, Reserving
<1>a. Pays(x, y)
  <2>1. AtLens(x) => r.ledger = LRow(x).ledger
    BY <1>2 DEF AtLens, LRow
  <2>2. RunStep(x, y)
    BY <1>0, <1>4, <1>9, <2>1 DEF RunStep, Quiet, AtLens, AtWork
  <2>3. QED
    BY <2>2, RunPays
<1>11. QED
  BY <1>5, <1>6, <1>7, <1>8, <1>9, <1>10, <1>a DEF Fine, Sound

\* run ends with nothing more to save.
LEMMA EndKeeps ==
    ASSUME NEW x, Sound(x), x.pc \in {"enter", "starting", "catching", "completing"},
           NEW y, IsExec(y), y.pc = "ended", y.at = x.at, y.aborted = x.aborted,
           y.lens = x.lens, y.cost = x.cost, y.tokens = x.tokens,
           y.save["ledger"] = x.save["ledger"], y.save["run"].phase = "none",
           LRow(y) = LRow(x) \/ (x.pc # "starting" /\ x.save["run"].phase # "none"
                                 /\ AtLens(x) /\ LRow(y) = x.save["run"].row)
    PROVE  Fine(x, y)
<1>0. /\ Stage(y) = Stage(x) /\ (AtLens(y) <=> AtLens(x))
      /\ (Started(y) <=> Started(x)) /\ (AllDone(y) <=> AllDone(x))
      /\ (SomeThrew(y) <=> SomeThrew(x)) /\ Stage(x) \in Stages
      /\ \A l \in Lenses : Call(y, l) = Call(x, l)
  BY PlanIs DEF Stage, AtLens, LRow, Started, AllDone, SomeThrew, Call, Sound, IsExec
<1>1. RunSound(y)
  BY <1>0 DEF RunSound
<1>2. LedgerSound(y)
  BY <1>0 DEF LedgerSound, Sound, Mutating, Reserving
<1>3. UndisturbedSound(y)
  BY DEF UndisturbedSound, Undisturbed
<1>4. CASE LRow(y) = LRow(x)
  <2>1. StageSound(y)
    BY <1>0, <1>4 DEF StageSound, Sound, Places
  <2>2. Quiet(x, y)
    BY <1>0, <1>4 DEF Quiet, Working, Pending, PendingAt, Reserving, Final, Sound, StageSound
  <2>3. Held(x) => Held(y)
    BY <1>0, <1>4 DEF Held, Reserving
  <2>4. Pays(x, y)
    <3>1. RunStep(x, y)
      BY <1>4, <2>2 DEF RunStep, Quiet, AtWork
    <3>2. QED
      BY <3>1, RunPays
  <2>5. QED
    BY <1>1, <1>2, <1>3, <2>1, <2>2, <2>3, <2>4 DEF Fine, Sound
<1>5. CASE x.pc # "starting" /\ x.save["run"].phase # "none" /\ AtLens(x) /\ LRow(y) = x.save["run"].row
  <2>0. x.pc \in {"catching", "completing"} /\ x.save["run"].stage = LensStage
    BY <1>5 DEF Sound, RunSound, AtLens
  <2>1. /\ LRow(y).status \in {"failed", "completed"}
        /\ AllDone(x) \/ LRow(y).status = "failed"
        /\ Started(x) => LRow(y).attempts > 0
        /\ LRow(y).attempts = 0 => Known(LRow(y)) = {}
    <3>1. CASE x.pc = "catching"
      BY <1>5, <2>0, <3>1 DEF Sound, RunSound
    <3>2. CASE x.pc = "completing"
      <4>1. IsRow(LRow(x)) /\ LRow(x).attempts > 0
        BY <1>5, <3>2, PlanIs DEF Sound, StageSound, IsExec, LRow
      <4>2. LRow(y) = [LRow(x) EXCEPT !.status = "completed"]
        BY <1>5, <3>2 DEF Sound, RunSound
      <4>3. LRow(y).status = "completed" /\ LRow(y).attempts = LRow(x).attempts
        BY <4>1, <4>2, StatusIs
      <4>4. QED
        BY <1>5, <2>0, <4>1, <4>3 DEF Sound, RunSound
    <3>3. QED
      BY <2>0, <3>1, <3>2
  <2>2. StageSound(y)
    BY <1>0, <1>5, <2>1 DEF StageSound, Sound, Places
  <2>3. Quiet(x, y)
    BY <1>0, <1>5 DEF Quiet, Working, Pending, PendingAt, Reserving, Final, Sound, StageSound
  <2>4. Held(x) => Held(y)
    BY <1>0, <1>5, <2>1 DEF Held, Reserving
  <2>5. Pays(x, y)
    <3>1. RunStep(x, y)
      BY <1>5, <2>0, <2>1, <2>3 DEF RunStep, Quiet, AtWork
    <3>2. QED
      BY <3>1, RunPays
  <2>6. QED
    BY <1>1, <1>2, <1>3, <2>2, <2>3, <2>4, <2>5 DEF Fine, Sound
<1>6. QED
  BY <1>4, <1>5

\* run goes on to the next stage.
LEMMA AdvanceKeeps ==
    ASSUME NEW x, Sound(x), x.pc \in {"enter", "completing"}, ~AtLens(x),
           NEW y, IsExec(y), y.pc = "enter", y.aborted = x.aborted,
           y.lens = x.lens, y.cost = x.cost, y.tokens = x.tokens,
           y.save["ledger"] = x.save["ledger"], y.save["run"].phase = "none",
           LRow(y) = LRow(x)
    PROVE  Fine(x, y)
<1>0. /\ (Started(y) <=> Started(x)) /\ ~Started(x)
      /\ \A l \in Lenses : Call(y, l) = Call(x, l)
  BY DEF Started, Call, Sound, StageSound
<1>1. RunSound(y)
  BY DEF RunSound
<1>2. LedgerSound(y)
  BY <1>0 DEF LedgerSound, Sound, Mutating, Reserving
<1>3. UndisturbedSound(y)
  BY DEF UndisturbedSound, Undisturbed
<1>4. StageSound(y)
  BY <1>0 DEF StageSound, Sound, Places
<1>5. Quiet(x, y)
  BY <1>0 DEF Quiet, Working, Pending, PendingAt, Reserving
<1>6. Held(x) => Held(y)
  BY <1>0 DEF Held, Reserving
<1>7. Pays(x, y)
  <2>1. RunStep(x, y)
    BY <1>0, <1>5 DEF RunStep, Quiet, AtWork
  <2>2. QED
    BY <2>1, RunPays
<1>8. QED
  BY <1>1, <1>2, <1>3, <1>4, <1>5, <1>6, <1>7 DEF Fine, Sound

\* An attempt succeeded.
LEMMA CompleteKeeps ==
    ASSUME NEW x, Sound(x), x.pc = "operating", AtLens(x) => AllDone(x),
           NEW y, IsExec(y), y.pc = "completing", y.at = x.at, y.aborted = x.aborted,
           y.memory = x.memory, y.lens = x.lens, y.cost = x.cost, y.tokens = x.tokens,
           y.save["ledger"] = x.save["ledger"],
           y.save["run"].phase = "sent", y.save["run"].stage = Stage(x),
           y.save["run"].row = [x.memory[Stage(x)] EXCEPT !.status = "completed"],
           \A c \in Calls : called[c] \in Nat
    PROVE  /\ Sound(y) /\ Quiet(x, y) /\ Pays(x, y)
           /\ Held(x) /\ (AtLens(x) => \A d \in Executions \ {holder} : ~Working(ex[d])) => Held(y)
<1> DEFINE r == y.save["run"].row
<1>0. /\ Stage(y) = Stage(x) /\ (AtLens(y) <=> AtLens(x)) /\ LRow(y) = LRow(x)
      /\ (Started(y) <=> Started(x)) /\ (AllDone(y) <=> AllDone(x))
      /\ (SomeThrew(y) <=> SomeThrew(x)) /\ Stage(x) \in Stages
      /\ \A l \in Lenses : Call(y, l) = Call(x, l)
  BY PlanIs DEF Stage, AtLens, LRow, Started, AllDone, SomeThrew, Call, Sound, IsExec
<1>1. IsRow(x.memory[Stage(x)])
  BY <1>0 DEF Sound, IsExec
<1>2. /\ r.status = "completed" /\ r.attempts = x.memory[Stage(x)].attempts /\ r.attempts \in Nat
      /\ r.ledger = x.memory[Stage(x)].ledger /\ Known(r) = Known(x.memory[Stage(x)])
  BY <1>1, StatusIs DEF Known, IsRow
<1>3. AtLens(x) => /\ r = [LRow(x) EXCEPT !.status = "completed"]
                   /\ r.attempts = LRow(x).attempts /\ r.attempts > 0
                   /\ r.ledger = LRow(x).ledger /\ Known(r) = Known(LRow(x))
  BY <1>2 DEF AtLens, LRow, Sound, StageSound
<1>4. RunSound(y)
  <2>1. y.save["run"].phase # "none" /\ y.save["run"].stage = LensStage => r.attempts > 0
    BY <1>3 DEF AtLens
  <2>2. QED
    BY <1>0, <1>2, <1>3, <2>1 DEF RunSound
<1>5. LedgerSound(y)
  BY <1>0 DEF LedgerSound, Sound, Mutating, Reserving
<1>6. UndisturbedSound(y)
  BY DEF UndisturbedSound, Undisturbed
<1>7. StageSound(y)
  BY <1>0 DEF StageSound, Sound
<1>8. Quiet(x, y)
  BY <1>0 DEF Quiet, Working, Pending, PendingAt, Reserving, Final, Sound, StageSound
<1>9. ASSUME Held(x), AtLens(x) => \A d \in Executions \ {holder} : ~Working(ex[d])
      PROVE  Held(y)
  <2>1. ASSUME Stage(x) = LensStage
        PROVE  /\ r.attempts > 0
               /\ Working(y) => Final(y)
               /\ \A d \in Executions \ {holder} : ~Working(ex[d])
               /\ AllAccounted(r)
    <3>1. AtLens(x) /\ AllDone(x)
      BY <2>1 DEF AtLens
    <3>2. Undisturbed(x) /\ LRow(x).status = "running"
      BY <3>1 DEF Undisturbed, SomeThrew, AllDone, Sound, UndisturbedSound
    <3>3. x.save["ledger"].phase = "none"
      BY <3>1 DEF AllDone, Sound, LedgerSound, Mutating
    <3>4. CommittedIn(LRow(x))
      BY <1>9, <3>2, <3>3 DEF Held
    <3>5. \A c \in Known(LRow(x)) : Accounted(LRow(x), c)
      BY <3>1, <3>2 DEF UndisturbedSound, Sound, InFlight, AllDone
    <3>6. AllAccounted(r)
      BY <1>3, <3>1, <3>4, <3>5 DEF AllAccounted, CommittedIn, Committed, Accounted
    <3>7. Final(y)
      BY <1>0, <3>1 DEF Final
    <3>8. QED
      BY <1>3, <1>9, <3>1, <3>6, <3>7
  <2>2. y.pc \notin {"off", "crashed", "ended"} /\ (~AtLens(y) \/ y.pc = "enter")
            => row[LensStage] = LRow(y)
    BY <1>0, <1>9 DEF Held
  <2>3. QED
    BY <1>0, <1>2, <1>9, <2>1, <2>2 DEF Held, Reserving
<1>a. Pays(x, y)
  <2>1. RunStep(x, y)
    BY <1>0, <1>3, <1>8 DEF RunStep, Quiet, AtLens, AtWork
  <2>2. QED
    BY <2>1, RunPays
<1>10. QED
  BY <1>4, <1>5, <1>6, <1>7, <1>8, <1>9, <1>a DEF Sound

\* The operation begins once its attempt is stored.
LEMMA OperateKeeps ==
    ASSUME NEW x, Sound(x), x.pc = "starting", x.save["run"].phase = "stored",
           NEW y, IsExec(y), y.pc = "operating", y.at = x.at, y.aborted = x.aborted,
           y.lens = x.lens, y.cost = x.cost, y.tokens = x.tokens,
           y.save["ledger"] = x.save["ledger"], y.save["run"].phase = "none",
           IF AtLens(x) THEN LRow(y) = x.save["run"].row ELSE LRow(y) = LRow(x),
           AtLens(x) => \A c \in Calls : ~Committed(c)
    PROVE  Fine(x, y)
<1>0. /\ Stage(y) = Stage(x) /\ (AtLens(y) <=> AtLens(x))
      /\ (Started(y) <=> Started(x)) /\ ~Started(x)
      /\ \A l \in Lenses : Call(y, l) = Call(x, l)
  BY DEF Stage, AtLens, Started, Call, Sound, StageSound
<1>1. RunSound(y)
  BY DEF RunSound
<1>2. LedgerSound(y)
  BY <1>0 DEF LedgerSound, Sound, Mutating, Reserving
<1>3. x.save["ledger"].phase = "none" /\ \A l \in Lenses : x.lens[l].pc = "idle"
  BY <1>0, Unstarted
<1>4. AtLens(x) => LRow(y).status = "running" /\ LRow(y).attempts > 0 /\ Known(LRow(y)) = {}
                      /\ LRow(y).ledger = LRow(x).ledger
  <2> SUFFICES ASSUME AtLens(x)
               PROVE  LRow(y).status = "running" /\ LRow(y).attempts > 0 /\ Known(LRow(y)) = {}
                      /\ LRow(y).ledger = LRow(x).ledger
    OBVIOUS
  <2>1. IsRow(LRow(x)) /\ LRow(x).attempts = 0
    BY PlanIs DEF Sound, IsExec, RunSound, LRow
  <2>2. LRow(y) = [LRow(x) EXCEPT !.status = "running", !.attempts = @ + 1]
    BY DEF Sound, RunSound
  <2> DEFINE c == LRow(x)
             q == LRow(y)
  <2>3. q.status = "running" /\ q.attempts = c.attempts + 1 /\ q.ledger = c.ledger
    <3>1. IsRow(c) /\ q = [c EXCEPT !.status = "running", !.attempts = @ + 1]
      BY <2>1, <2>2
    <3> HIDE DEF c, q
    <3>2. QED
      BY <3>1, StartedRowIs
  <2>4. QED
    BY <2>1, <2>3 DEF Known, Sound, StageSound
<1>5. UndisturbedSound(y)
  BY <1>0, <1>3, <1>4 DEF UndisturbedSound, Undisturbed, Reserving
<1>6. StageSound(y)
  BY <1>0, <1>3, <1>4 DEF StageSound, Sound, Places
<1>7. Quiet(x, y)
  BY <1>0, <1>3 DEF Quiet, Working, Pending, PendingAt, Reserving, Final
<1>8. Held(x) => Held(y)
  BY <1>0, <1>3, <1>4 DEF Held, Reserving, CommittedIn
<1>9. Pays(x, y)
  <2>1. ~SomeThrew(x)
    BY <1>3 DEF SomeThrew
  <2>2. RunStep(x, y)
    BY <1>0, <1>4, <1>7, <2>1 DEF RunStep, Quiet, AtWork, Sound, RunSound, AtLens
  <2>3. QED
    BY <2>2, RunPays
<1>10. QED
  BY <1>1, <1>2, <1>5, <1>6, <1>7, <1>8, <1>9 DEF Fine, Sound

-----------------------------------------------------------------------------
(* A step of one lens. *)

\* What a step of lens l leaves alone.
LensStep(x, y, l) ==
    /\ IsExec(y) /\ y.pc = x.pc /\ y.at = x.at /\ y.aborted = x.aborted
    /\ y.save["run"] = x.save["run"]
    /\ \A k \in Lenses : k # l => y.lens[k] = x.lens[k]

LEMMA LensStepIs ==
    ASSUME NEW x, NEW y, NEW l \in Lenses, LensStep(x, y, l), x.lens[l].pc # "done",
           x.lens[l].pc = "idle" => (x.pc = "operating" /\ AtLens(x)) \/ Started(x),
           y.lens[l].pc # "idle", Sound(x)
    PROVE  /\ Stage(y) = Stage(x) /\ AtLens(x) /\ AtLens(y)
           /\ Started(y) /\ Working(x) /\ ~AllDone(x) /\ ~Final(x)
           /\ x.pc \in {"operating", "catching", "completing", "ended"} /\ x.pc # "completing"
           /\ LRow(x).attempts > 0 /\ LRow(x).status \in {"running", "failed"}
           /\ x.lens[l].pc # "threw" /\ SomeThrew(x) => SomeThrew(y)
           /\ \A k \in Lenses : k # l => Call(y, k) = Call(x, k) /\ Call(x, k) # Call(x, l)
           /\ x.pc = "catching" /\ ~Started(x) => FALSE
           /\ y.pc = "catching" => x.save["run"].row.attempts > 0
<1>1. /\ Stage(y) = Stage(x) /\ Started(y) /\ ~AllDone(x) /\ ~Final(x)
      /\ \A k \in Lenses : k # l => Call(y, k) = Call(x, k) /\ Call(x, k) # Call(x, l)
  BY DEF LensStep, Stage, Started, AllDone, Final, Call
<1>2. (x.pc = "operating" /\ AtLens(x)) \/ Started(x)
  BY DEF Started
<1>3. /\ AtLens(x) /\ x.pc \in {"operating", "catching", "completing", "ended"}
      /\ LRow(x).attempts > 0 /\ LRow(x).status \in {"running", "failed"}
  BY <1>1, <1>2 DEF Sound, StageSound
<1>4. x.pc # "completing" /\ Working(x)
  BY <1>1, <1>2, <1>3 DEF Sound, RunSound, Working
<1>5. x.pc = "catching" => Started(x) /\ x.save["run"].row.attempts > 0
  BY <1>2, <1>3 DEF Sound, RunSound
<1>6. x.lens[l].pc # "threw" /\ SomeThrew(x) => SomeThrew(y)
  BY DEF LensStep, SomeThrew
<1>7. QED
  BY <1>1, <1>3, <1>4, <1>5, <1>6 DEF LensStep, AtLens

\* The run of such an execution is not disturbed.
LEMMA LensRunSound ==
    ASSUME NEW x, NEW y, NEW l \in Lenses, LensStep(x, y, l), x.lens[l].pc # "done",
           x.lens[l].pc = "idle" => (x.pc = "operating" /\ AtLens(x)) \/ Started(x),
           y.lens[l].pc # "idle", Sound(x)
    PROVE  RunSound(y)
<1>1. x.pc # "completing" /\ y.pc # "starting" /\ Stage(y) = Stage(x)
      /\ (AtLens(y) <=> AtLens(x)) /\ (y.pc = "catching" => x.save["run"].row.attempts > 0)
  BY LensStepIs DEF LensStep
<1>2. QED
  BY <1>1 DEF RunSound, Sound, LensStep

\* What every step of a lens keeps.
LEMMA LensPays ==
    ASSUME NEW x, NEW y, NEW l \in Lenses, LensStep(x, y, l), Sound(x), UsageSound(x),
           x.lens[l].pc # "done",
           x.lens[l].pc = "idle" => (x.pc = "operating" /\ AtLens(x)) \/ Started(x),
           y.lens[l].pc # "idle", LensCounts(y.lens[l]), y.cost \in Nat, y.tokens \in Int
    PROVE  /\ Working(x) /\ y.pc \in {"operating", "catching", "ended"}
           /\ Undisturbed(y) => Undisturbed(x) \/ x.lens[l].pc = "threw"
           /\ \A k \in Lenses : /\ LensCounts(x.lens[k]) /\ LensCounts(y.lens[k])
                                /\ k # l => y.lens[k] = x.lens[k] /\ Call(y, k) = Call(x, k)
           /\ \A k \in Lenses : CopiesFollow(x, k)
           /\ \A k \in Lenses : Mutating(x, l) /\ k # l => ~Mutating(x, k) /\ ~Mutating(y, k)
           /\ y.save["run"].phase # "none" /\ y.save["run"].stage = LensStage =>
                  WithinBudget(y.save["run"].row)
<1>1. /\ Working(x) /\ y.pc = x.pc /\ AtLens(x) /\ AtLens(y)
      /\ x.pc \in {"operating", "catching", "ended"}
      /\ \A k \in Lenses : k # l => Call(y, k) = Call(x, k)
      /\ x.lens[l].pc # "threw" /\ SomeThrew(x) => SomeThrew(y)
  BY LensStepIs DEF LensStep
<1>2. Undisturbed(y) => Undisturbed(x) \/ x.lens[l].pc = "threw"
  BY <1>1 DEF Undisturbed
<1>3. \A k \in Lenses : LensCounts(x.lens[k]) /\ CopiesFollow(x, k)
  BY <1>1 DEF UsageSound
<1>4. \A k \in Lenses : Mutating(x, l) /\ k # l => ~Mutating(x, k) /\ ~Mutating(y, k)
  BY DEF Sound, LedgerSound, LensStep, Mutating
<1>5. y.save["run"].phase # "none" /\ y.save["run"].stage = LensStage =>
          WithinBudget(y.save["run"].row)
  BY DEF UsageSound, CopiesWithin, LensStep
<1>6. \A k \in Lenses : k # l => y.lens[k] = x.lens[k]
  BY DEF LensStep
<1>7. QED
  BY <1>1, <1>2, <1>3, <1>4, <1>5, <1>6

LEMMA ResetPays ==
    ASSUME NEW x, NEW y, NEW l \in Lenses, LensStep(x, y, l), Sound(x), UsageSound(x),
           x.lens[l].pc \in {"idle", "ask", "settle"},
           x.lens[l].pc = "idle" => (x.pc = "operating" /\ AtLens(x)) \/ Started(x),
           x.lens[l].pc # "idle" => y.lens[l].pc = "threw",
           y.lens[l].pc \in {"ask", "threw"}, LensCounts(y.lens[l]),
           y.memory = x.memory, y.save["ledger"] = x.save["ledger"],
           y.cost = x.cost, y.tokens = x.tokens
    PROVE  UsageSound(y)
<1>1. /\ Undisturbed(y) => Undisturbed(x)
      /\ \A k \in Lenses : /\ LensCounts(x.lens[k]) /\ LensCounts(y.lens[k])
                           /\ k # l => y.lens[k] = x.lens[k] /\ Call(y, k) = Call(x, k)
      /\ \A k \in Lenses : CopiesFollow(x, k)
      /\ y.save["run"].phase # "none" /\ y.save["run"].stage = LensStage =>
             WithinBudget(y.save["run"].row)
      /\ y.cost \in Nat /\ y.tokens \in Int
  <2>1. y.cost \in Nat /\ y.tokens \in Int
    BY DEF UsageSound
  <2>2. QED
    BY <2>1, LensPays
<1>2. LRow(y) = LRow(x) /\ y.pc = x.pc /\ (SomeThrew(x) => SomeThrew(y))
  BY DEF LensStep, LRow, SomeThrew
<1>3. Agrees(y)
  BY <1>2 DEF UsageSound, Agrees
<1>4. \A k \in Lenses : Mutating(y, k) \/ Reserving(y, k) => k # l
  BY DEF Mutating, Reserving
<1>5. CopiesWithin(y)
  BY <1>1, <1>2, <1>4 DEF UsageSound, CopiesWithin, Mutating, Reserving, Paid, LensStep
<1>6. ASSUME NEW k \in Lenses PROVE CopiesFollow(y, k)
  <2>1. CopiesFollow(x, k)
    BY <1>1
  <2>2. CASE k = l
    <3>1. \A r, h, f, g, m : Follows(r, l, x.lens[l], h, f) => Follows(r, l, y.lens[l], g, m)
      BY FollowsRests, FollowsTaken
    <3>2. QED
      BY <1>2, <2>1, <2>2, <3>1 DEF CopiesFollow, LensStep, InMemory, OnItsWay
  <2>3. CASE k # l
    BY <1>1, <1>2, <2>1, <2>3 DEF CopiesFollow, LensStep
  <2>4. QED
    BY <2>2, <2>3
<1>7. Undisturbed(y) => \A k \in Lenses : y.lens[k].pc \in InCalls => Call(y, k) \in Known(LRow(y))
  BY <1>1, <1>2 DEF UsageSound, InCalls
<1>8. QED
  BY <1>1, <1>3, <1>5, <1>6, <1>7 DEF UsageSound

LEMMA FailedPays ==
    ASSUME NEW x, NEW y, NEW l \in Lenses, LensStep(x, y, l), Sound(x), UsageSound(x),
           Mutating(x, l),
           y.lens[l].pc \in {"ask", "threw"}, LensCounts(y.lens[l]),
           y.lens[l].pc = "ask" => After(y.lens[l], x.lens[l]),
           y.memory = x.memory, y.save["ledger"].phase = "none",
           y.cost = x.cost, y.tokens = x.tokens
    PROVE  UsageSound(y)
<1>0. x.lens[l].pc \in {"reserving", "settling"} /\ ~Mutating(y, l)
  BY DEF Mutating
<1>1. /\ Undisturbed(y) => Undisturbed(x)
      /\ \A k \in Lenses : /\ LensCounts(x.lens[k]) /\ LensCounts(y.lens[k])
                           /\ k # l => y.lens[k] = x.lens[k] /\ Call(y, k) = Call(x, k)
      /\ \A k \in Lenses : CopiesFollow(x, k)
      /\ \A k \in Lenses : ~Mutating(y, k)
      /\ y.save["run"].phase # "none" /\ y.save["run"].stage = LensStage =>
             WithinBudget(y.save["run"].row)
      /\ y.cost \in Nat /\ y.tokens \in Int
  <2>1. y.cost \in Nat /\ y.tokens \in Int
    BY DEF UsageSound
  <2>2. QED
    BY <1>0, <2>1, LensPays
<1>2. LRow(y) = LRow(x) /\ y.pc = x.pc /\ (SomeThrew(x) => SomeThrew(y))
  BY <1>0 DEF LensStep, LRow, SomeThrew
<1>3. Agrees(y)
  BY <1>2 DEF UsageSound, Agrees
<1>5. CopiesWithin(y)
  BY <1>1, <1>2 DEF UsageSound, CopiesWithin, Mutating, Reserving, Paid, LensStep
<1>6. ASSUME NEW k \in Lenses PROVE CopiesFollow(y, k)
  <2>1. CopiesFollow(x, k)
    BY <1>1
  <2>2. CASE k = l
    <3>1. \A r, h, f, g, m : Follows(r, l, x.lens[l], h, f) => Follows(r, l, y.lens[l], g, m)
      BY <1>0, <1>1, FollowsRests, FollowsAfter DEF InCalls
    <3>2. QED
      BY <1>2, <2>1, <2>2, <3>1 DEF CopiesFollow, LensStep, InMemory, OnItsWay
  <2>3. CASE k # l
    BY <1>1, <1>2, <2>1, <2>3 DEF CopiesFollow, LensStep
  <2>4. QED
    BY <2>2, <2>3
<1>7. Undisturbed(y) => \A k \in Lenses : y.lens[k].pc \in InCalls => Call(y, k) \in Known(LRow(y))
  BY <1>1, <1>2 DEF UsageSound, InCalls
<1>8. QED
  BY <1>1, <1>3, <1>5, <1>6, <1>7 DEF UsageSound

LEMMA CallEndPays ==
    ASSUME NEW x, NEW y, NEW l \in Lenses, LensStep(x, y, l), Sound(x), UsageSound(x),
           x.lens[l].pc = "calling", y.lens[l].pc = "settle", LensCounts(y.lens[l]),
           y.lens[l].output = x.lens[l].output, y.lens[l].transport = x.lens[l].transport,
           y.memory = x.memory, y.save = x.save, y.cost = x.cost, y.tokens = x.tokens
    PROVE  UsageSound(y)
<1>1. /\ Undisturbed(y) => Undisturbed(x)
      /\ \A k \in Lenses : /\ LensCounts(x.lens[k]) /\ LensCounts(y.lens[k])
                           /\ k # l => y.lens[k] = x.lens[k] /\ Call(y, k) = Call(x, k)
      /\ \A k \in Lenses : CopiesFollow(x, k)
      /\ y.save["run"].phase # "none" /\ y.save["run"].stage = LensStage =>
             WithinBudget(y.save["run"].row)
      /\ y.cost \in Nat /\ y.tokens \in Int
  <2>1. y.cost \in Nat /\ y.tokens \in Int
    BY DEF UsageSound
  <2>2. QED
    BY <2>1, LensPays
<1>2. LRow(y) = LRow(x) /\ y.pc = x.pc /\ (SomeThrew(x) => SomeThrew(y)) /\ Call(y, l) = Call(x, l)
  BY DEF LensStep, LRow, SomeThrew, Call
<1>3. Agrees(y)
  BY <1>2 DEF UsageSound, Agrees
<1>4. \A k \in Lenses : Mutating(y, k) \/ Reserving(y, k) => k # l
  BY DEF Mutating, Reserving
<1>5. CopiesWithin(y)
  BY <1>1, <1>2, <1>4 DEF UsageSound, CopiesWithin, Mutating, Reserving, Paid, LensStep
<1>6. ASSUME NEW k \in Lenses PROVE CopiesFollow(y, k)
  <2>1. CopiesFollow(x, k)
    BY <1>1
  <2>2. CASE k = l
    <3>1. \A r : InMemory(r, l, x.lens[l]) => InMemory(r, l, y.lens[l])
      BY FollowsStep DEF InMemory, InCalls
    <3>2. \A r : OnItsWay(r, l, x.lens[l]) => OnItsWay(r, l, y.lens[l])
      BY FollowsStep DEF OnItsWay, InCalls
    <3>3. QED
      BY <1>2, <2>1, <2>2, <3>1, <3>2 DEF CopiesFollow
  <2>3. CASE k # l
    BY <1>1, <1>2, <2>1, <2>3 DEF CopiesFollow, LensStep
  <2>4. QED
    BY <2>2, <2>3
<1>7. Undisturbed(y) => \A k \in Lenses : y.lens[k].pc \in InCalls => Call(y, k) \in Known(LRow(y))
  BY <1>1, <1>2 DEF UsageSound, InCalls
<1>8. QED
  BY <1>1, <1>3, <1>5, <1>6, <1>7 DEF UsageSound

\* More is what the answer of the mutation adds to the count.
LEMMA MoreIs == ASSUME NEW n, LensCounts(n) PROVE More(n) \in Int
  BY NumbersAre DEF More, LensCounts

\* The answer of a mutation arrives, and lens l goes on without its call.
LEMMA SettledPays ==
    ASSUME NEW x, NEW y, NEW l \in Lenses, LensStep(x, y, l), Sound(x), UsageSound(x),
           Mutating(x, l), x.save["ledger"].phase # "none",
           x.lens[l].pc = "reserving" => y.lens[l].pc = "threw",
           y.lens[l].pc \in {"ask", "done", "threw"}, LensCounts(y.lens[l]),
           y.lens[l].pc = "ask" => After(y.lens[l], x.lens[l]),
           LRow(y) = x.save["ledger"].row, y.save["ledger"].phase = "none",
           y.cost = x.cost, y.tokens = x.tokens + More(x.lens[l])
    PROVE  UsageSound(y)
<1>0. x.lens[l].pc \in {"reserving", "settling"} /\ ~Mutating(y, l)
  BY DEF Mutating
<1>1. /\ Working(x)
      /\ Undisturbed(y) => Undisturbed(x)
      /\ \A k \in Lenses : /\ LensCounts(x.lens[k]) /\ LensCounts(y.lens[k])
                           /\ k # l => y.lens[k] = x.lens[k] /\ Call(y, k) = Call(x, k)
      /\ \A k \in Lenses : CopiesFollow(x, k)
      /\ \A k \in Lenses : ~Mutating(y, k)
      /\ \A k \in Lenses : k # l => ~Mutating(x, k)
      /\ y.save["run"].phase # "none" /\ y.save["run"].stage = LensStage =>
             WithinBudget(y.save["run"].row)
      /\ y.cost \in Nat /\ y.tokens \in Int
  <2>1. x.cost \in Nat /\ x.tokens \in Int /\ LensCounts(x.lens[l])
    BY DEF UsageSound
  <2>2. More(x.lens[l]) \in Int
    BY <2>1, MoreIs
  <2>3. y.cost \in Nat /\ y.tokens \in Int
    BY <2>1, <2>2
  <2>4. QED
    BY <1>0, <2>3, LensPays
<1>2. y.pc = x.pc /\ y.pc \in {"operating", "catching", "ended"} /\ AtLens(y)
  BY <1>0, LensStepIs DEF LensStep
<1>3. ASSUME Undisturbed(y)
      PROVE  /\ x.lens[l].pc = "settling" /\ Undisturbed(x)
             /\ LRow(y) = Recorded(LRow(x), Call(x, l), EntryFor(x.lens[l]))
             /\ Call(x, l) \in Known(LRow(x))
             /\ \A c \in Known(LRow(x)) : c \in Known(LRow(y))
  <2>1. y.lens[l].pc # "threw"
    BY <1>3 DEF Undisturbed, SomeThrew
  <2>2. x.lens[l].pc = "settling" /\ Undisturbed(x)
    BY <1>0, <1>1, <1>3, <2>1
  <2>3. LRow(y) = Recorded(LRow(x), Call(x, l), EntryFor(x.lens[l]))
    BY <2>2 DEF Sound, UndisturbedSound
  <2>4. Call(x, l) \in Known(LRow(x))
    BY <2>2 DEF UsageSound, InCalls
  <2>5. IsRow(LRow(x))
    BY PlanIs DEF Sound, IsExec, LRow
  <2>6. \A c \in Known(LRow(x)) : c \in Known(LRow(y))
    BY <2>3, <2>5, RecordedIs
  <2>7. QED
    BY <2>2, <2>3, <2>4, <2>6
<1>4. Agrees(y)
  <2> SUFFICES ASSUME y.pc \in AtWork, ~SomeThrew(y)
               PROVE  y.cost = CostOf(LRow(y)) /\ y.tokens = TokensOf(LRow(y))
    BY DEF Agrees
  <2>1. Undisturbed(y)
    BY <1>2 DEF AtWork, Undisturbed
  <2> DEFINE r == LRow(x)
             call == Call(x, l)
             entry == EntryFor(x.lens[l])
             q == LRow(y)
  <2>2. x.cost = CostOf(r) /\ x.tokens = TokensOf(r)
    BY <1>3, <2>1 DEF UsageSound, Agrees, Undisturbed, AtWork
  <2>3. IsRow(r)
    BY PlanIs DEF Sound, IsExec, LRow
  <2>4. IsFiniteSet(Known(r)) /\ \A c \in Known(r) : r.ledger[c].tokens \in Nat
    BY DEF UsageSound, CopiesWithin, WithinBudget
  <2>5. entry.tokens = x.lens[l].tokens /\ entry.tokens \in Nat
    BY <1>1 DEF EntryFor, LensCounts
  <2>6. r.ledger[call].tokens = Reserve
    <3>1. InMemory(r, l, x.lens[l]) /\ LensCounts(x.lens[l])
      BY <1>1 DEF CopiesFollow
    <3>2. call = <<l, x.lens[l].output, x.lens[l].transport>> /\ call \in Known(r)
      BY <1>3, <2>1 DEF Call
    <3> HIDE DEF r, call
    <3>3. QED
      BY <1>0, <3>1, <3>2, FollowsHeld DEF InCalls
  <2>7. q = Recorded(r, call, entry) /\ call \in Known(r)
    BY <1>3, <2>1
  <2>8. y.tokens = x.tokens + (x.lens[l].tokens - Reserve)
    BY <1>3, <2>1 DEF More
  <2>9. Reserve \in Nat /\ TokensOf(r) \in Nat
    BY <2>4, SpentIs, NumbersAre
  <2> HIDE DEF r, call, entry, q
  <2>10. TokensOf(q) = (TokensOf(r) - r.ledger[call].tokens) + entry.tokens /\ CostOf(q) = CostOf(r)
    BY <2>3, <2>4, <2>5, <2>7, SpentAnew
  <2>11. y.tokens = TokensOf(q)
    BY <2>2, <2>5, <2>6, <2>8, <2>9, <2>10
  <2>12. QED
    BY <2>2, <2>10, <2>11 DEF q
<1>5. CopiesWithin(y)
  <2>1. WithinBudget(x.save["ledger"].row) /\ Paid(x, x.save["ledger"].row, More(x.lens[l]))
    BY DEF UsageSound, CopiesWithin
  <2>2. y.tokens + 0 = x.tokens + More(x.lens[l])
    BY <1>1
  <2>3. Paid(y, LRow(y), 0)
    BY <2>1, <2>2 DEF Paid
  <2>4. \A k \in Lenses : ~Reserving(y, k)
    BY <1>1 DEF Reserving, Mutating
  <2>5. QED
    BY <1>1, <2>1, <2>3, <2>4 DEF CopiesWithin
<1>6. ASSUME NEW k \in Lenses PROVE CopiesFollow(y, k)
  <2>1. CopiesFollow(x, k)
    BY <1>1
  <2>2. CASE k = l
    <3>1. \A r, h, f, g, m : Follows(r, l, x.lens[l], h, f) => Follows(r, l, y.lens[l], g, m)
      BY <1>0, <1>1, FollowsRests, FollowsAfter DEF InCalls
    <3>2. QED
      BY <2>1, <2>2, <3>1 DEF CopiesFollow, LensStep, InMemory, OnItsWay
  <2>3. CASE k # l
    <3>1. OnItsWay(LRow(y), k, x.lens[k]) /\ x.lens[k].pc \notin {"reserving", "settling"}
      BY <1>1, <2>1, <2>3 DEF CopiesFollow, Mutating
    <3>2. InMemory(LRow(y), k, x.lens[k])
      BY <3>1, FollowsAccepted
    <3>3. QED
      BY <1>1, <2>1, <2>3, <3>2 DEF CopiesFollow, LensStep
  <2>4. QED
    BY <2>2, <2>3
<1>7. Undisturbed(y) => \A k \in Lenses : y.lens[k].pc \in InCalls => Call(y, k) \in Known(LRow(y))
  <2> SUFFICES ASSUME Undisturbed(y), NEW k \in Lenses, y.lens[k].pc \in InCalls
               PROVE  Call(y, k) \in Known(LRow(y))
    OBVIOUS
  <2>1. k # l
    BY DEF InCalls
  <2>2. Call(x, k) \in Known(LRow(x))
    BY <1>1, <1>3, <2>1 DEF UsageSound
  <2>3. QED
    BY <1>1, <1>3, <2>1, <2>2
<1>8. QED
  BY <1>1, <1>4, <1>5, <1>6, <1>7 DEF UsageSound

\* The answer of a reservation arrives: the provider is called, and its cost is counted.
LEMMA CalledPays ==
    ASSUME NEW x, NEW y, NEW l \in Lenses, LensStep(x, y, l), Sound(x), UsageSound(x),
           Reserving(x, l), x.save["ledger"].phase # "none",
           y.lens[l].pc = "calling", LensCounts(y.lens[l]),
           y.lens[l].output = x.lens[l].output, y.lens[l].transport = x.lens[l].transport,
           LRow(y) = x.save["ledger"].row, y.save["ledger"].phase = "none",
           y.cost = x.cost + 1, y.tokens = x.tokens + Reserve
    PROVE  UsageSound(y)
<1>0. x.lens[l].pc = "reserving" /\ Mutating(x, l) /\ ~Mutating(y, l) /\ More(x.lens[l]) = Reserve
  BY DEF Mutating, Reserving, More
<1>1. /\ Working(x)
      /\ Undisturbed(y) => Undisturbed(x)
      /\ \A k \in Lenses : /\ LensCounts(x.lens[k]) /\ LensCounts(y.lens[k])
                           /\ k # l => y.lens[k] = x.lens[k] /\ Call(y, k) = Call(x, k)
      /\ \A k \in Lenses : CopiesFollow(x, k)
      /\ \A k \in Lenses : ~Mutating(y, k)
      /\ \A k \in Lenses : k # l => ~Mutating(x, k)
      /\ y.save["run"].phase # "none" /\ y.save["run"].stage = LensStage =>
             WithinBudget(y.save["run"].row)
      /\ y.cost \in Nat /\ y.tokens \in Int
  <2>1. x.cost \in Nat /\ x.tokens \in Int /\ Reserve \in Nat
    BY NumbersAre DEF UsageSound
  <2>2. y.cost \in Nat /\ y.tokens \in Int
    BY <2>1
  <2>3. QED
    BY <1>0, <2>2, LensPays
<1>2. y.pc = x.pc /\ y.pc \in {"operating", "catching", "ended"} /\ AtLens(y) /\ Call(y, l) = Call(x, l)
  BY <1>0, LensStepIs DEF LensStep, Call
<1> DEFINE r == LRow(x)
           call == Call(x, l)
           entry == [status |-> "reserved", tokens |-> Reserve]
           q == LRow(y)
<1>3. ASSUME Undisturbed(y)
      PROVE  /\ Undisturbed(x) /\ q = Recorded(r, call, entry)
             /\ Known(q) = Known(r) \cup {call}
  <2>1. Undisturbed(x) /\ q = Recorded(r, call, entry)
    BY <1>1, <1>3 DEF Sound, UndisturbedSound
  <2>2. IsRow(r)
    BY PlanIs DEF Sound, IsExec, LRow
  <2> HIDE DEF r, call, entry, q
  <2>3. QED
    BY <2>1, <2>2, RecordedIs
<1>4. Agrees(y)
  <2> SUFFICES ASSUME y.pc \in AtWork, ~SomeThrew(y)
               PROVE  y.cost = CostOf(q) /\ y.tokens = TokensOf(q)
    BY DEF Agrees
  <2>1. Undisturbed(y)
    BY <1>2 DEF AtWork, Undisturbed
  <2>2. x.cost = CostOf(r) /\ x.tokens = TokensOf(r)
    BY <1>3, <2>1 DEF UsageSound, Agrees, Undisturbed, AtWork
  <2>3. IsRow(r)
    BY PlanIs DEF Sound, IsExec, LRow
  <2>4. IsFiniteSet(Known(r)) /\ \A c \in Known(r) : r.ledger[c].tokens \in Nat
    BY DEF UsageSound, CopiesWithin, WithinBudget
  <2>5. entry.tokens = Reserve /\ entry.tokens \in Nat
    BY NumbersAre
  <2>6. call \notin Known(r)
    <3>1. InMemory(r, l, x.lens[l]) /\ LensCounts(x.lens[l])
      BY <1>1 DEF CopiesFollow
    <3>2. call = <<l, x.lens[l].output, x.lens[l].transport>>
      BY DEF Call
    <3> HIDE DEF r, call
    <3>3. QED
      BY <1>0, <3>1, <3>2, FollowsHeld DEF InCalls
  <2>7. q = Recorded(r, call, entry)
    BY <1>3, <2>1
  <2> HIDE DEF r, call, entry, q
  <2>8. TokensOf(q) = TokensOf(r) + entry.tokens /\ CostOf(q) = CostOf(r) + 1
    BY <2>3, <2>4, <2>5, <2>6, <2>7, SpentMore
  <2>9. QED
    BY <2>2, <2>5, <2>8
<1>5. CopiesWithin(y)
  <2>1. WithinBudget(x.save["ledger"].row) /\ Paid(x, x.save["ledger"].row, More(x.lens[l]))
    BY <1>0 DEF UsageSound, CopiesWithin
  <2>2. y.tokens + 0 = x.tokens + More(x.lens[l])
    BY <1>0, <1>1
  <2>3. Paid(y, LRow(y), 0)
    BY <2>1, <2>2 DEF Paid
  <2>4. \A k \in Lenses : ~Reserving(y, k)
    BY <1>1 DEF Reserving, Mutating
  <2>5. QED
    BY <1>1, <2>1, <2>3, <2>4 DEF CopiesWithin
<1>6. ASSUME NEW k \in Lenses PROVE CopiesFollow(y, k)
  <2>1. CopiesFollow(x, k)
    BY <1>1
  <2>2. CASE k = l
    <3>1. \A p : InMemory(p, l, x.lens[l]) => InMemory(p, l, y.lens[l])
      BY <1>0, FollowsStep DEF InMemory, InCalls
    <3>2. OnItsWay(LRow(y), l, x.lens[l])
      BY <2>1, <2>2 DEF CopiesFollow
    <3>3. InMemory(LRow(y), l, y.lens[l])
      BY <1>0, <3>2, FollowsStep DEF InMemory, OnItsWay, InCalls
    <3>4. QED
      BY <2>1, <2>2, <3>1, <3>3 DEF CopiesFollow, LensStep
  <2>3. CASE k # l
    <3>1. OnItsWay(LRow(y), k, x.lens[k]) /\ x.lens[k].pc \notin {"reserving", "settling"}
      BY <1>1, <2>1, <2>3 DEF CopiesFollow, Mutating
    <3>2. InMemory(LRow(y), k, x.lens[k])
      BY <3>1, FollowsAccepted
    <3>3. QED
      BY <1>1, <2>1, <2>3, <3>2 DEF CopiesFollow, LensStep
  <2>4. QED
    BY <2>2, <2>3
<1>7. Undisturbed(y) => \A k \in Lenses : y.lens[k].pc \in InCalls => Call(y, k) \in Known(LRow(y))
  <2> SUFFICES ASSUME Undisturbed(y), NEW k \in Lenses, y.lens[k].pc \in InCalls
               PROVE  Call(y, k) \in Known(q)
    OBVIOUS
  <2>1. CASE k = l
    BY <1>2, <1>3, <2>1
  <2>2. CASE k # l
    <3>1. Call(x, k) \in Known(r)
      BY <1>1, <1>3, <2>2 DEF UsageSound
    <3>2. QED
      BY <1>1, <1>3, <2>2, <3>1
  <2>3. QED
    BY <2>1, <2>2
<1>8. QED
  BY <1>1, <1>4, <1>5, <1>6, <1>7 DEF UsageSound

\* The memory of a lens that is not settling is on its way with a mutation.
LEMMA FollowsSent ==
    ASSUME NEW r, NEW l, NEW n, InMemory(r, l, n), n.pc # "settling"
    PROVE  OnItsWay(r, l, n)
BY DEF OnItsWay, InMemory, Follows, InCalls

\* A call is reserved within the budget.
LEMMA ReservedSpends ==
    ASSUME NEW x, x.tokens \in Int, NEW q, IsRow(q), WithinBudget(q), Paid(x, q, 0),
           q.status = "running", x.tokens + Reserve <= MaxTokens,
           NEW call, call \notin Known(q),
           NEW r, r = Recorded(q, call, [status |-> "reserved", tokens |-> Reserve])
    PROVE  WithinBudget(r) /\ Paid(x, r, Reserve)
<1> DEFINE entry == [status |-> "reserved", tokens |-> Reserve]
<1>1. Reserve \in Nat /\ MaxTokens \in Nat /\ entry.tokens = Reserve /\ entry.tokens \in Nat
  BY NumbersAre
<1>2. Capped(Reserve) = Reserve
  BY <1>1 DEF Capped
<1>3. IsFiniteSet(Known(q)) /\ (\A c \in Known(q) : q.ledger[c].tokens \in Nat) /\ Spent(q) \in Nat
  BY SpentIs DEF WithinBudget
<1>4. Spent(q) <= x.tokens + 0
  BY DEF Paid
<1>5. r = Recorded(q, call, entry)
  OBVIOUS
<1> HIDE DEF entry
<1>6. /\ IsFiniteSet(Known(r)) /\ \A c \in Known(r) : r.ledger[c].tokens \in Nat
      /\ Spent(r) = Spent(q) + Capped(entry.tokens)
  BY <1>1, <1>3, <1>5, SpentMore
<1>7. Spent(r) = Spent(q) + Reserve
  BY <1>1, <1>2, <1>6
<1>8. Spent(r) <= x.tokens + Reserve /\ Spent(r) <= MaxTokens
  BY <1>1, <1>3, <1>4, <1>7
<1>9. QED
  BY <1>6, <1>8 DEF WithinBudget, Paid

\* A settlement counts what the call used, at most what was reserved.
LEMMA SettledSpends ==
    ASSUME NEW x, x.tokens \in Int, NEW q, IsRow(q), WithinBudget(q), Paid(x, q, 0),
           NEW call \in Known(q), q.ledger[call].tokens = Reserve,
           NEW entry, entry.tokens \in Nat, NEW r, r = Recorded(q, call, entry)
    PROVE  WithinBudget(r) /\ Paid(x, r, entry.tokens - Reserve)
<1>1. Reserve \in Nat /\ MaxTokens \in Nat
  BY NumbersAre
<1>2. Capped(Reserve) = Reserve
  BY <1>1 DEF Capped
<1>3. IsFiniteSet(Known(q)) /\ (\A c \in Known(q) : q.ledger[c].tokens \in Nat) /\ Spent(q) \in Nat
      /\ Spent(q) <= MaxTokens
  BY SpentIs DEF WithinBudget
<1>4. /\ IsFiniteSet(Known(r)) /\ \A c \in Known(r) : r.ledger[c].tokens \in Nat
      /\ Spent(r) = (Spent(q) - Capped(q.ledger[call].tokens)) + Capped(entry.tokens)
  BY <1>3, SpentAnew
<1>5. Capped(entry.tokens) \in Nat /\ Capped(entry.tokens) <= entry.tokens /\ Capped(entry.tokens) <= Reserve
  BY CappedIs
<1>6. Spent(r) = (Spent(q) - Reserve) + Capped(entry.tokens)
  BY <1>2, <1>4
<1>7. Spent(r) <= MaxTokens
  BY <1>1, <1>3, <1>5, <1>6
<1>8. ASSUME r.status = "running" PROVE Spent(r) <= x.tokens + (entry.tokens - Reserve)
  <2>1. q.status = "running"
    BY <1>8, RecordedIs
  <2>2. Spent(q) <= x.tokens + 0
    BY <2>1 DEF Paid
  <2>3. QED
    BY <1>1, <1>3, <1>5, <1>6, <2>2
<1>9. QED
  BY <1>4, <1>7, <1>8 DEF WithinBudget, Paid

\* A mutation of the ledger is sent.
LEMMA MutatePays ==
    ASSUME NEW x, NEW y, NEW l \in Lenses, LensStep(x, y, l), Sound(x), UsageSound(x),
           y.memory = x.memory, Mutating(y, l), x.pc # "crashed",
           x.save["ledger"].phase = "none",
           y.cost = x.cost, y.tokens = x.tokens, LensCounts(y.lens[l]),
           y.lens[l].output = x.lens[l].output, y.lens[l].transport = x.lens[l].transport,
           LET n == y.lens[l]
               q == LRow(x)
               call == Call(x, l)
               r == y.save["ledger"].row
           IN \/ /\ x.lens[l].pc = "ask" /\ Reserving(y, l)
                 /\ q.status = "running" /\ call \notin Known(q)
                 /\ r = Recorded(q, call, [status |-> "reserved", tokens |-> Reserve])
                 /\ ~Over(x, 1, Reserve)
              \/ /\ x.lens[l].pc = "ask" /\ n.pc = "reserving" /\ n.error # "none"
                 /\ r = Failed(q)
              \/ /\ x.lens[l].pc = "settle" /\ n.pc = "settling" /\ n.end = x.lens[l].end
                 /\ EntryFor(n) = EntryFor(x.lens[l]) /\ call \in Known(q)
                 /\ IF n.end = "aborted" THEN r = Failed(Recorded(q, call, EntryFor(n)))
                                         ELSE r = Recorded(q, call, EntryFor(n))
    PROVE  UsageSound(y)
<1> DEFINE n == y.lens[l]
           m == x.lens[l]
           q == LRow(x)
           call == Call(x, l)
           r == y.save["ledger"].row
           entry == [status |-> "reserved", tokens |-> Reserve]
           s == Recorded(q, call, EntryFor(n))
<1>0. /\ m.pc \in {"ask", "settle"} /\ ~Mutating(x, l) /\ IsRow(q)
      /\ call = <<l, m.output, m.transport>> /\ call[1] = l
  BY PlanIs DEF Mutating, Sound, IsExec, LRow, Call, Reserving
<1>1. /\ Undisturbed(y) => Undisturbed(x)
      /\ \A k \in Lenses : /\ LensCounts(x.lens[k]) /\ LensCounts(y.lens[k])
                           /\ k # l => y.lens[k] = x.lens[k] /\ Call(y, k) = Call(x, k)
      /\ \A k \in Lenses : CopiesFollow(x, k)
      /\ y.save["run"].phase # "none" /\ y.save["run"].stage = LensStage =>
             WithinBudget(y.save["run"].row)
      /\ y.cost \in Nat /\ y.tokens \in Int
  <2>1. y.cost \in Nat /\ y.tokens \in Int
    BY DEF UsageSound
  <2>2. n.pc # "idle"
    BY DEF Mutating
  <2>3. QED
    BY <1>0, <2>1, <2>2, LensPays
<1>2. /\ LRow(y) = q /\ y.pc = x.pc /\ (SomeThrew(x) => SomeThrew(y)) /\ Call(y, l) = call
      /\ \A k \in Lenses : k # l => ~Mutating(x, k) /\ ~Mutating(y, k)
  <2>1. \A k \in Lenses : ~Mutating(x, k)
    BY DEF Sound, LedgerSound
  <2>2. QED
    BY <1>0, <2>1 DEF LensStep, LRow, SomeThrew, Call, Mutating
<1>3. Agrees(y)
  BY <1>2 DEF UsageSound, Agrees
<1>4. x.tokens \in Int /\ x.cost \in Nat /\ WithinBudget(q) /\ Paid(x, q, 0)
      /\ InMemory(q, l, m) /\ LensCounts(m) /\ MaxCost \in Nat /\ MaxTokens \in Nat /\ Reserve \in Nat
  BY <1>1, NumbersAre DEF UsageSound, CopiesWithin, CopiesFollow
<1>a. EntryFor(n).tokens = n.tokens /\ n.tokens \in Nat
  BY <1>1 DEF EntryFor, LensCounts
<1>b. s.ledger = Failed(s).ledger /\ q.ledger = Failed(q).ledger /\ Failed(s).status # "running"
      /\ Failed(q).status # "running"
  <2>1. IsRow(s)
    BY <1>0, RecordedIs
  <2> HIDE DEF s, q
  <2>2. QED
    BY <1>0, <2>1, StatusIs DEF Failed
<1>5. /\ WithinBudget(r) /\ Paid(x, r, More(n))
      /\ Reserving(y, l) => x.cost + 1 <= MaxCost
      /\ OnItsWay(r, l, n)
      /\ \A k \in Lenses : k # l => OnItsWay(r, k, x.lens[k])
  <2>0. \A k \in Lenses : k # l => InMemory(q, k, x.lens[k]) /\ x.lens[k].pc # "settling"
    BY <1>1, <1>2 DEF CopiesFollow, Mutating
  <2>a. ASSUME NEW e PROVE \A k \in Lenses : k # l => OnItsWay(Recorded(q, call, e), k, x.lens[k])
    <3> SUFFICES ASSUME NEW k \in Lenses, k # l PROVE OnItsWay(Recorded(q, call, e), k, x.lens[k])
      OBVIOUS
    <3>1. call[1] # k /\ InMemory(q, k, x.lens[k]) /\ x.lens[k].pc # "settling"
      BY <1>0, <2>0
    <3> HIDE DEF q, call
    <3>2. InMemory(Recorded(q, call, e), k, x.lens[k])
      BY <1>0, <3>1, FollowsOther DEF InMemory
    <3>3. QED
      BY <3>1, <3>2, FollowsSent
  <2>1. CASE /\ m.pc = "ask" /\ Reserving(y, l) /\ q.status = "running" /\ call \notin Known(q)
             /\ r = Recorded(q, call, entry) /\ ~Over(x, 1, Reserve)
    <3>1. x.cost + 1 <= MaxCost /\ x.tokens + Reserve <= MaxTokens
      BY <1>4, <2>1 DEF Over
    <3>2. More(n) = Reserve /\ n.pc = "reserving"
      BY <2>1 DEF More, Reserving
    <3>3. WithinBudget(r) /\ Paid(x, r, Reserve)
      <4> HIDE DEF q, call, r
      <4>1. QED
        BY <1>0, <1>4, <2>1, <3>1, ReservedSpends
    <3>4. OnItsWay(Recorded(q, <<l, m.output, m.transport>>, entry), l, n)
      <4>1. Follows(q, l, m, InCalls, {}) /\ entry.tokens = Reserve
        BY <1>4 DEF InMemory
      <4>2. n.output = m.output /\ n.transport = m.transport
        OBVIOUS
      <4> HIDE DEF q, m, n, entry
      <4>3. Follows(Recorded(q, <<l, m.output, m.transport>>, entry), l, n,
                    {"reserving", "calling", "settle"}, {"settling"})
        BY <1>0, <2>1, <3>2, <4>1, <4>2, FollowsOwn DEF InCalls
      <4>4. QED
        BY <4>3 DEF OnItsWay
    <3>5. QED
      BY <1>0, <2>1, <2>a, <3>1, <3>2, <3>3, <3>4
  <2>2. CASE m.pc = "ask" /\ n.pc = "reserving" /\ n.error # "none" /\ r = Failed(q)
    <3>1. WithinBudget(r) /\ Paid(x, r, More(n))
      BY <1>4, <1>b, <2>2, SameLedger DEF Paid
    <3>2. OnItsWay(q, l, n) /\ \A k \in Lenses : k # l => OnItsWay(q, k, x.lens[k])
      <4>1. OnItsWay(q, l, n)
        BY <1>4, <2>2, FollowsStep DEF InMemory, OnItsWay, InCalls
      <4>2. QED
        BY <2>0, <4>1, FollowsSent
    <3>3. OnItsWay(r, l, n) /\ \A k \in Lenses : k # l => OnItsWay(r, k, x.lens[k])
      BY <1>b, <2>2, <3>2, SameLedger DEF OnItsWay
    <3>4. QED
      BY <2>2, <3>1, <3>3 DEF Reserving
  <2>3. CASE /\ m.pc = "settle" /\ n.pc = "settling" /\ call \in Known(q)
             /\ IF n.end = "aborted" THEN r = Failed(s) ELSE r = s
    <3>1. q.ledger[call].tokens = Reserve
      <4>1. <<l, m.output, m.transport>> \in Known(q)
        BY <1>0, <2>3
      <4> HIDE DEF q, m, call
      <4>2. QED
        BY <1>0, <1>4, <2>3, <4>1, FollowsHeld DEF InCalls
    <3>2. More(n) = n.tokens - Reserve /\ ~Reserving(y, l)
      BY <2>3 DEF More, Reserving
    <3>3. WithinBudget(s) /\ Paid(x, s, n.tokens - Reserve)
      <4> DEFINE e == EntryFor(n)
      <4>1. e.tokens = n.tokens /\ e.tokens \in Nat /\ s = Recorded(q, call, e)
        BY <1>a
      <4> HIDE DEF q, call, s, e, n
      <4>2. WithinBudget(s) /\ Paid(x, s, e.tokens - Reserve)
        BY <1>0, <1>4, <2>3, <3>1, <4>1, SettledSpends
      <4>3. QED
        BY <4>1, <4>2
    <3>4. OnItsWay(s, l, n)
      <4> DEFINE e == EntryFor(n)
      <4>1. Follows(q, l, m, InCalls, {}) /\ s = Recorded(q, <<l, m.output, m.transport>>, e)
        BY <1>0, <1>4 DEF InMemory
      <4>2. n.output = m.output /\ n.transport = m.transport
        OBVIOUS
      <4> HIDE DEF q, m, n, e, s
      <4>3. Follows(Recorded(q, <<l, m.output, m.transport>>, e), l, n,
                    {"reserving", "calling", "settle"}, {"settling"})
        BY <1>0, <2>3, <4>1, <4>2, FollowsOwn DEF InCalls
      <4>4. QED
        BY <4>1, <4>3 DEF OnItsWay
    <3>5. \A k \in Lenses : k # l => OnItsWay(s, k, x.lens[k])
      BY <2>a
    <3> HIDE DEF s, q, n, r
    <3>6. CASE r = s
      BY <3>2, <3>3, <3>4, <3>5, <3>6
    <3>7. CASE r = Failed(s)
      <4>1. r.ledger = s.ledger /\ r.status # "running"
        BY <1>b, <3>7
      <4>2. WithinBudget(r) /\ Paid(x, r, More(n))
        BY <3>3, <4>1, SameLedger DEF Paid
      <4>3. OnItsWay(r, l, n) /\ \A k \in Lenses : k # l => OnItsWay(r, k, x.lens[k])
        BY <3>4, <3>5, <4>1, SameLedger DEF OnItsWay
      <4>4. QED
        BY <3>2, <4>2, <4>3
    <3>8. QED
      BY <2>3, <3>6, <3>7
  <2>4. QED
    BY <2>1, <2>2, <2>3
<1> HIDE DEF q, r, call, entry, s
<1>6. CopiesWithin(y)
  <2>1. \A p, more : Paid(y, p, more) <=> Paid(x, p, more)
    BY DEF Paid
  <2>2. \A k \in Lenses : Mutating(y, k) \/ Reserving(y, k) => k = l
    BY <1>2 DEF Mutating, Reserving
  <2>3. y.cost = x.cost
    OBVIOUS
  <2>4. QED
    BY <1>1, <1>2, <1>4, <1>5, <2>1, <2>2, <2>3 DEF CopiesWithin, r
<1>7. ASSUME NEW k \in Lenses PROVE CopiesFollow(y, k)
  <2>1. CopiesFollow(x, k)
    BY <1>1
  <2>2. CASE k = l
    <3>1. \A p : InMemory(p, l, x.lens[l]) => InMemory(p, l, y.lens[l])
      <4>1. \/ x.lens[l].pc = "ask" /\ y.lens[l].pc = "reserving"
            \/ x.lens[l].pc = "settle" /\ y.lens[l].pc = "settling"
        BY DEF Reserving
      <4>2. QED
        BY <4>1, FollowsStep DEF InMemory, InCalls
    <3>2. QED
      BY <1>2, <1>5, <2>1, <2>2, <3>1 DEF CopiesFollow, LensStep, q, r
  <2>3. CASE k # l
    BY <1>1, <1>2, <1>5, <2>1, <2>3 DEF CopiesFollow, LensStep, q, r
  <2>4. QED
    BY <2>2, <2>3
<1>8. Undisturbed(y) => \A k \in Lenses : y.lens[k].pc \in InCalls => Call(y, k) \in Known(LRow(y))
  <2> SUFFICES ASSUME Undisturbed(y), NEW k \in Lenses, y.lens[k].pc \in InCalls
               PROVE  Call(y, k) \in Known(q)
    BY <1>2
  <2>1. CASE k = l
    <3>1. call \in Known(q)
      BY <2>1 DEF Reserving, InCalls, q, call
    <3>2. QED
      BY <1>2, <2>1, <3>1
  <2>2. CASE k # l
    BY <1>1, <2>2 DEF UsageSound, q
  <2>3. QED
    BY <2>1, <2>2
<1>9. QED
  BY <1>1, <1>3, <1>6, <1>7, <1>8 DEF UsageSound

\* A lens takes a card, or throws before it has sent anything.
LEMMA ResetKeeps ==
    ASSUME NEW x, NEW y, NEW l \in Lenses, LensStep(x, y, l), Sound(x),
           x.lens[l].pc \in {"idle", "ask", "settle"},
           x.lens[l].pc = "idle" => (x.pc = "operating" /\ AtLens(x)) \/ Started(x),
           x.lens[l].pc # "idle" => y.lens[l].pc = "threw",
           y.lens[l].pc \in {"ask", "threw"}, y.lens[l].pc = "ask" => y.lens[l].error = "none",
           y.cost = x.cost, y.tokens = x.tokens, LensCounts(y.lens[l]),
           y.memory = x.memory, y.save["ledger"] = x.save["ledger"]
    PROVE  Fine(x, y)
<1>0. /\ Stage(y) = Stage(x) /\ AtLens(x) /\ AtLens(y) /\ LRow(y) = LRow(x)
      /\ Started(y) /\ Working(x) /\ ~AllDone(x) /\ ~Final(x)
      /\ x.pc \in {"operating", "catching", "ended"}
      /\ y.pc = x.pc /\ y.aborted = x.aborted
      /\ LRow(x).attempts > 0 /\ LRow(x).status \in {"running", "failed"}
      /\ SomeThrew(x) => SomeThrew(y)
      /\ \A k \in Lenses : k # l => y.lens[k] = x.lens[k] /\ Call(y, k) = Call(x, k)
      /\ ~Mutating(x, l) /\ ~Mutating(y, l)
  BY LensStepIs DEF LensStep, LRow, Mutating
<1>1. RunSound(y)
  BY LensRunSound
<1>2. LedgerSound(y)
  BY <1>0 DEF LedgerSound, Sound, Mutating, Reserving
<1>3. UndisturbedSound(y)
  <2>1. Undisturbed(y) => Undisturbed(x) /\ y.lens[l].pc = "ask" /\ x.lens[l].pc = "idle"
    BY <1>0 DEF Undisturbed, SomeThrew
  <2>2. QED
    BY <1>0, <2>1 DEF UndisturbedSound, Sound, Reserving, InFlight, Mutating
<1>4. StageSound(y)
  BY <1>0 DEF StageSound, Sound, LensStep, Places
<1>5. Quiet(x, y)
  BY <1>0 DEF Quiet, Pending, PendingAt, Reserving, Mutating
<1>6. Held(x) => Held(y)
  BY <1>0 DEF Held, Reserving, Mutating, LensStep
<1>7. Pays(x, y)
  BY ResetPays DEF Pays
<1>8. QED
  BY <1>1, <1>2, <1>3, <1>4, <1>5, <1>6, <1>7 DEF Fine, Sound, LensStep

\* A mutation of the ledger failed.
LEMMA FailedKeeps ==
    ASSUME NEW x, NEW y, NEW l \in Lenses, LensStep(x, y, l), Sound(x),
           Mutating(x, l), x.save["ledger"].phase \in {"refused", "lost"},
           y.lens[l].pc \in {"ask", "threw"}, y.lens[l].pc = "ask" => y.lens[l].error = "none",
           y.lens[l].pc = "ask" => After(y.lens[l], x.lens[l]),
           x.save["ledger"].phase = "refused" => y.lens[l].pc = "threw",
           y.cost = x.cost, y.tokens = x.tokens, LensCounts(y.lens[l]),
           y.memory = x.memory, y.save["ledger"].phase = "none", faults \in Nat
    PROVE  Fine(x, y)
<1>a. x.lens[l].pc \notin {"idle", "done", "threw"} /\ y.lens[l].pc # "idle" /\ ~Mutating(y, l)
  BY DEF Mutating
<1>0. /\ Stage(y) = Stage(x) /\ AtLens(x) /\ AtLens(y) /\ LRow(y) = LRow(x)
      /\ Started(y) /\ Working(x) /\ ~AllDone(x) /\ ~Final(x)
      /\ x.pc \in {"operating", "catching", "ended"}
      /\ y.pc = x.pc /\ y.aborted = x.aborted
      /\ LRow(x).attempts > 0 /\ LRow(x).status \in {"running", "failed"}
      /\ SomeThrew(x) => SomeThrew(y)
      /\ \A k \in Lenses : k # l => y.lens[k] = x.lens[k] /\ Call(y, k) = Call(x, k)
      /\ ~Mutating(y, l)
  BY <1>a, LensStepIs DEF LensStep, LRow
<1>00. \A k \in Lenses : ~Mutating(y, k)
  BY <1>0 DEF Sound, LedgerSound, Mutating
<1>1. RunSound(y)
  BY LensRunSound DEF Mutating
<1>2. LedgerSound(y)
  BY <1>00 DEF LedgerSound, Mutating, Reserving
<1>3. UndisturbedSound(y)
  <2> SUFFICES ASSUME Undisturbed(y) PROVE UndisturbedSound(y)
    BY DEF UndisturbedSound
  <2>1. Undisturbed(x) /\ y.lens[l].pc = "ask" /\ faults > 0
    BY <1>0 DEF Undisturbed, SomeThrew, Mutating, Sound, StageSound, Places
  <2>2. \A c \in Known(LRow(y)) : Accounted(LRow(y), c)
    BY <1>0, <2>1 DEF UndisturbedSound, Sound, Accounted
  <2>3. QED
    BY <1>0, <1>00, <2>1, <2>2 DEF UndisturbedSound, Sound, Reserving, Mutating
<1>4. StageSound(y)
  BY <1>0 DEF StageSound, Sound, LensStep, Places
<1>5. Quiet(x, y)
  BY <1>0 DEF Quiet, Pending, PendingAt, Reserving, Mutating
<1>6. Held(x) => Held(y)
  BY <1>0, <1>00 DEF Held, Reserving, Mutating, LensStep
<1>7. Pays(x, y)
  BY FailedPays DEF Pays
<1>8. QED
  BY <1>1, <1>2, <1>3, <1>4, <1>5, <1>6, <1>7 DEF Fine, Sound, LensStep

\* A settlement, or the checkpoint of an exhausted budget, is answered.
LEMMA SettledKeeps ==
    ASSUME NEW x, NEW y, NEW l \in Lenses, LensStep(x, y, l), Sound(x),
           Mutating(x, l), x.save["ledger"].phase = "stored",
           y.lens[l].pc \in {"ask", "done", "threw"},
           y.lens[l].pc = "ask" => y.lens[l].error = "none" /\ After(y.lens[l], x.lens[l]),
           y.cost = x.cost, y.tokens = x.tokens + More(x.lens[l]),
           x.lens[l].pc = "reserving" => y.lens[l].pc = "threw",
           LensCounts(y.lens[l]),
           LRow(y) = x.save["ledger"].row, y.save["ledger"].phase = "none"
    PROVE  Fine(x, y)
<1>a. x.lens[l].pc \notin {"idle", "done", "threw"} /\ y.lens[l].pc # "idle" /\ ~Mutating(y, l)
  BY DEF Mutating
<1>0. /\ Stage(y) = Stage(x) /\ AtLens(x) /\ AtLens(y)
      /\ Started(y) /\ Working(x) /\ ~AllDone(x) /\ ~Final(x)
      /\ x.pc \in {"operating", "catching", "ended"}
      /\ y.pc = x.pc /\ y.aborted = x.aborted
      /\ LRow(x).attempts > 0 /\ LRow(x).status \in {"running", "failed"}
      /\ SomeThrew(x) => SomeThrew(y)
      /\ \A k \in Lenses : k # l => /\ y.lens[k] = x.lens[k] /\ Call(y, k) = Call(x, k)
                                    /\ Call(x, k) # Call(x, l)
      /\ ~Mutating(y, l)
  BY <1>a, LensStepIs DEF LensStep
<1>00. \A k \in Lenses : ~Mutating(y, k)
  BY <1>0 DEF Sound, LedgerSound, Mutating
<1>01. LRow(y).attempts > 0 /\ LRow(y).status \in {"running", "failed"}
  BY DEF Sound, LedgerSound
<1>1. RunSound(y)
  BY LensRunSound DEF Mutating
<1>2. LedgerSound(y)
  BY <1>00 DEF LedgerSound, Mutating, Reserving
<1>3. UndisturbedSound(y)
  <2> SUFFICES ASSUME Undisturbed(y) PROVE UndisturbedSound(y)
    BY DEF UndisturbedSound
  <2> DEFINE n == x.lens[l]
             q == LRow(x)
             call == Call(x, l)
  <2>1. Undisturbed(x) /\ n.pc = "settling" /\ n.end # "aborted"
    <3>1. Undisturbed(x)
      BY <1>0 DEF Undisturbed
    <3>2. n.pc = "settling"
      BY DEF Undisturbed, SomeThrew, Mutating
    <3>3. n.end # "aborted"
      BY <3>1, <3>2 DEF Undisturbed, Sound, StageSound
    <3>4. QED
      BY <3>1, <3>2, <3>3
  <2>2. LRow(y) = Recorded(q, call, EntryFor(n)) /\ IsRow(q)
    BY <2>1, PlanIs DEF UndisturbedSound, Sound, IsExec, LRow
  <2>3. /\ LRow(y).status = q.status /\ Known(LRow(y)) = Known(q) \cup {call}
        /\ LRow(y).ledger[call] = EntryFor(n)
        /\ \A c \in Known(q) : c # call => LRow(y).ledger[c] = q.ledger[c]
    <3> HIDE DEF n, q, call
    <3>1. QED
      BY <2>2, RecordedIs
  <2>4. Accounted(LRow(y), call)
    BY <2>1, <2>3 DEF Accounted, EntryFor
  <2>5. ASSUME NEW c \in Known(q), c # call
        PROVE  Accounted(LRow(y), c) \/ (LRow(y).ledger[c].status = "reserved" /\ InFlight(y, c))
    <3>1. Accounted(q, c) \/ (q.ledger[c].status = "reserved" /\ InFlight(x, c))
      BY <2>1 DEF UndisturbedSound, Sound
    <3>2. InFlight(x, c) => InFlight(y, c)
      BY <1>0, <2>5 DEF InFlight
    <3>3. QED
      BY <2>3, <2>5, <3>1, <3>2 DEF Accounted
  <2>6. q.status = "running"
    BY <2>1 DEF UndisturbedSound, Sound
  <2>7. QED
    BY <1>00, <2>3, <2>4, <2>5, <2>6 DEF UndisturbedSound, Reserving, Mutating
<1>4. StageSound(y)
  BY <1>0, <1>01 DEF StageSound, Sound, LensStep, Places
<1>5. Quiet(x, y)
  BY <1>0 DEF Quiet, Pending, PendingAt, Reserving, Mutating
<1>6. Held(x) => Held(y)
  BY <1>0, <1>00 DEF Held, Reserving, Mutating, LensStep
<1>7. Pays(x, y)
  BY SettledPays DEF Pays
<1>8. QED
  BY <1>1, <1>2, <1>3, <1>4, <1>5, <1>6, <1>7 DEF Fine, Sound, LensStep

\* A mutation of the ledger is sent: a reservation, the exhausted budget or a settlement.
LEMMA MutateKeeps ==
    ASSUME NEW x, NEW y, NEW l \in Lenses, LensStep(x, y, l), Sound(x), x.pc # "crashed",
           x.save["ledger"].phase = "none", y.memory = x.memory,
           Mutating(y, l), Call(y, l) = Call(x, l),
           y.lens[l].output = x.lens[l].output, y.lens[l].transport = x.lens[l].transport,
           y.cost = x.cost, y.tokens = x.tokens, LensCounts(y.lens[l]),
           y.save["ledger"].phase = "sent", y.save["ledger"].stage = LensStage,
           LET n == y.lens[l]
               q == LRow(x)
               call == Call(x, l)
               r == y.save["ledger"].row
           IN \/ /\ x.lens[l].pc = "ask" /\ Reserving(y, l)
                 /\ q.status = "running" /\ call \notin Known(q)
                 /\ r = Recorded(q, call, [status |-> "reserved", tokens |-> Reserve])
                 /\ ~Over(x, 1, Reserve)
              \/ /\ x.lens[l].pc = "ask" /\ n.pc = "reserving" /\ n.error # "none"
                 /\ r = Failed(q)
              \/ /\ x.lens[l].pc = "settle" /\ n.pc = "settling" /\ n.end = x.lens[l].end
                 /\ EntryFor(n) = EntryFor(x.lens[l]) /\ call \in Known(q)
                 /\ IF n.end = "aborted" THEN r = Failed(Recorded(q, call, EntryFor(n)))
                                         ELSE r = Recorded(q, call, EntryFor(n))
    PROVE  Fine(x, y)
<1> DEFINE n == y.lens[l]
           q == LRow(x)
           call == Call(x, l)
           r == y.save["ledger"].row
<1>0. /\ Stage(y) = Stage(x) /\ AtLens(x) /\ AtLens(y) /\ LRow(y) = LRow(x)
      /\ Started(y) /\ Started(x) /\ Working(x) /\ ~AllDone(x) /\ ~Final(x)
      /\ x.pc \in {"operating", "catching", "ended"}
      /\ y.pc = x.pc /\ y.aborted = x.aborted
      /\ LRow(x).attempts > 0 /\ LRow(x).status \in {"running", "failed"}
      /\ SomeThrew(x) => SomeThrew(y)
      /\ \A k \in Lenses : k # l => y.lens[k] = x.lens[k] /\ Call(y, k) = Call(x, k)
      /\ x.lens[l].pc \in {"ask", "settle"} /\ ~Mutating(x, l)
  BY LensStepIs DEF LensStep, LRow, Mutating, Started
<1>00. \A k \in Lenses : (Mutating(y, k) <=> k = l) /\ ~Mutating(x, k)
  BY <1>0 DEF Sound, LedgerSound, Mutating
<1>01. IsRow(q)
  BY PlanIs DEF Sound, IsExec, LRow
<1>02. /\ r.attempts = q.attempts /\ r.status \in {"running", "failed"}
       /\ Known(q) \subseteq Known(r)
       /\ r.status = "running" => q.status = "running"
       /\ n.pc = "reserving" /\ n.error = "none" =>
              r.status = "running" /\ Known(r) = Known(q) \cup {call} /\ call \notin Known(q)
  <2>1. CASE x.lens[l].pc = "ask" /\ n.pc = "reserving" /\ n.error = "none"
             /\ q.status = "running" /\ call \notin Known(q)
             /\ r = Recorded(q, call, [status |-> "reserved", tokens |-> Reserve])
    <3> HIDE DEF n, q, call, r
    <3>1. QED
      BY <1>01, <2>1, RecordedIs
  <2>2. CASE n.error # "none" /\ r = Failed(q)
    <3> HIDE DEF n, q, call, r
    <3>1. QED
      BY <1>01, <2>2, StatusIs DEF Failed, Known
  <2>3. CASE /\ n.pc = "settling"
             /\ IF n.end = "aborted" THEN r = Failed(Recorded(q, call, EntryFor(n)))
                                     ELSE r = Recorded(q, call, EntryFor(n))
    <3> DEFINE s == Recorded(q, call, EntryFor(n))
    <3> HIDE DEF n, q, call, r
    <3>1. IsRow(s) /\ s.status = q.status /\ s.attempts = q.attempts /\ Known(s) = Known(q) \cup {call}
      BY <1>01, RecordedIs
    <3>2. n.end = "aborted" => r = Failed(s)
      BY <2>3
    <3>3. n.end # "aborted" => r = s
      BY <2>3
    <3> HIDE DEF s
    <3>4. LET f == Failed(s) IN f.status = "failed" /\ f.attempts = s.attempts /\ Known(f) = Known(s)
      BY <3>1, StatusIs DEF Failed, Known
    <3>5. q.status \in {"running", "failed"}
      BY <1>0 DEF q
    <3>6. QED
      BY <2>3, <3>5, <3>1, <3>2, <3>3, <3>4
  <2>4. QED
    BY <2>1, <2>2, <2>3 DEF Reserving
<1>1. RunSound(y)
  BY <1>0, LensRunSound DEF Mutating
<1>2. LedgerSound(y)
  <2>1. r.attempts > 0 /\ r.status \in {"running", "failed"}
    BY <1>0, <1>02
  <2>2. \A k \in Lenses : Reserving(y, k) => k = l
    BY <1>00 DEF Reserving, Mutating
  <2>3. QED
    BY <1>00, <1>02, <2>1, <2>2 DEF LedgerSound, Reserving
<1>3. UndisturbedSound(y)
  <2> SUFFICES ASSUME Undisturbed(y) PROVE UndisturbedSound(y)
    BY DEF UndisturbedSound
  <2>1. Undisturbed(x) /\ ~x.aborted
    BY <1>0 DEF Undisturbed, Sound, StageSound
  <2>2. n.end # "aborted" \/ n.pc # "settling"
    BY <1>0, <2>1 DEF Sound, StageSound, Mutating, Reserving
  <2>3. \A c : InFlight(x, c) => InFlight(y, c)
    <3> SUFFICES ASSUME NEW c, NEW k \in Lenses,
                        x.lens[k].pc \in {"calling", "settle", "settling"}, Call(x, k) = c
                 PROVE  InFlight(y, c)
      BY DEF InFlight
    <3>1. CASE k = l
      <4>1. n.pc = "settling" /\ Call(y, l) = c
        BY <1>0, <3>1 DEF Mutating, Reserving
      <4>2. QED
        BY <4>1 DEF InFlight
    <3>2. CASE k # l
      BY <1>0, <3>2 DEF InFlight
    <3>3. QED
      BY <3>1, <3>2
  <2>4. \A c \in Known(LRow(y)) : \/ Accounted(LRow(y), c)
                                  \/ LRow(y).ledger[c].status = "reserved" /\ InFlight(y, c)
    BY <1>0, <2>1, <2>3 DEF UndisturbedSound, Sound
  <2>5. /\ Reserving(y, l) => r = Recorded(q, call, [status |-> "reserved", tokens |-> Reserve])
        /\ n.pc = "settling" => r = Recorded(q, call, EntryFor(n))
    BY <2>2 DEF Reserving
  <2>6. \A k \in Lenses : Reserving(y, k) \/ y.lens[k].pc = "settling" => k = l
    BY <1>00 DEF Reserving, Mutating
  <2>7. LRow(y).status = "running"
    BY <1>0, <2>1 DEF UndisturbedSound, Sound
  <2> HIDE DEF n, q, call, r
  <2>8. QED
    BY <1>0, <2>4, <2>5, <2>6, <2>7 DEF UndisturbedSound, n, q, call, r
<1>4. StageSound(y)
  <2>1. n.pc = "settling" /\ n.end = "aborted" => x.aborted
    BY <1>0 DEF Sound, StageSound, Mutating, Reserving
  <2>2. QED
    BY <1>0, <1>00, <2>1 DEF StageSound, Sound, LensStep, Places, Mutating
<1>5. Quiet(x, y)
  BY <1>0 DEF Quiet, Pending, PendingAt
<1>6. ASSUME Held(x) PROVE Held(y)
  <2>1. q.status = "running" => CommittedIn(q)
    BY <1>0, <1>6 DEF Held
  <2>2. r.status = "running" => CommittedIn(r)
    BY <1>02, <2>1 DEF CommittedIn
  <2>3. \A k \in Lenses, c \in Calls : Reserving(y, k) /\ Call(y, k) = c => ~Committed(c)
    <3> SUFFICES ASSUME NEW k \in Lenses, NEW c \in Calls, Reserving(y, k), Call(y, k) = c
                 PROVE  ~Committed(c)
      OBVIOUS
    <3>1. k = l
      BY <1>00 DEF Reserving, Mutating
    <3>2. c \notin Known(q) /\ q.status = "running"
      BY <1>02, <3>1 DEF Reserving, Mutating
    <3>3. QED
      BY <2>1, <3>2 DEF CommittedIn
  <2>4. ~(/\ x.save["run"].phase = "sent" /\ x.save["run"].stage = LensStage
          /\ x.save["run"].row.attempts = 0 \/ x.save["run"].row.status = "running")
    BY <1>0 DEF Sound, RunSound
  <2>5. ~(x.save["run"].phase = "sent" /\ x.save["run"].row.status = "completed")
    BY <1>0 DEF Sound, RunSound
  <2>6. QED
    BY <1>0, <1>6, <2>1, <2>2, <2>3, <2>4, <2>5 DEF Held, LensStep
<1>7. Pays(x, y)
  BY MutatePays DEF Pays
<1>8. QED
  BY <1>1, <1>2, <1>3, <1>4, <1>5, <1>6, <1>7 DEF Fine, Sound, LensStep

\* A call ends.
LEMMA CallEndKeeps ==
    ASSUME NEW x, NEW y, NEW l \in Lenses, LensStep(x, y, l), Sound(x),
           x.lens[l].pc = "calling", y.lens[l].pc = "settle",
           y.lens[l].end = "aborted" => x.aborted,
           y.lens[l].output = x.lens[l].output, y.lens[l].transport = x.lens[l].transport,
           y.cost = x.cost, y.tokens = x.tokens, LensCounts(y.lens[l]),
           y.memory = x.memory, y.save = x.save, Call(y, l) = Call(x, l)
    PROVE  Fine(x, y)
<1>0. /\ Stage(y) = Stage(x) /\ AtLens(x) /\ AtLens(y) /\ LRow(y) = LRow(x)
      /\ Started(y) /\ Working(x) /\ ~AllDone(x) /\ ~Final(x)
      /\ x.pc \in {"operating", "catching", "ended"}
      /\ y.pc = x.pc /\ y.aborted = x.aborted
      /\ LRow(x).attempts > 0 /\ LRow(x).status \in {"running", "failed"}
      /\ SomeThrew(x) => SomeThrew(y)
      /\ \A k \in Lenses : k # l => y.lens[k] = x.lens[k] /\ Call(y, k) = Call(x, k)
      /\ ~Mutating(x, l) /\ ~Mutating(y, l)
  BY LensStepIs DEF LensStep, LRow, Mutating
<1>1. RunSound(y)
  BY LensRunSound
<1>2. LedgerSound(y)
  BY <1>0 DEF LedgerSound, Sound, Mutating, Reserving
<1>3. UndisturbedSound(y)
  <2>1. Undisturbed(y) => Undisturbed(x)
    BY <1>0 DEF Undisturbed
  <2>2. \A c : InFlight(x, c) => InFlight(y, c)
    BY <1>0 DEF InFlight
  <2>3. QED
    BY <1>0, <2>1, <2>2 DEF UndisturbedSound, Sound, Reserving, Mutating
<1>4. StageSound(y)
  BY <1>0 DEF StageSound, Sound, LensStep, Places
<1>5. Quiet(x, y)
  BY <1>0 DEF Quiet, Pending, PendingAt, Reserving, Mutating
<1>6. Held(x) => Held(y)
  BY <1>0 DEF Held, Reserving, Mutating, LensStep
<1>7. Pays(x, y)
  BY CallEndPays DEF Pays
<1>8. QED
  BY <1>1, <1>2, <1>3, <1>4, <1>5, <1>6, <1>7 DEF Fine, Sound, LensStep

-----------------------------------------------------------------------------
(* What a step of one execution means for the others. *)

\* A reservation that was stored has its lens at work.
LEMMA PendingWorks ==
    ASSUME NEW x, NEW c, Pending(x, c)
    PROVE  Working(x) /\ ~Final(x)
BY DEF Pending, PendingAt, Reserving, Working, Started, Final, AllDone

\* What is sound stays so when a fault happens elsewhere.
LEMMA SoundStays ==
    ASSUME NEW x, Sound(x), faults \in Nat, faults' \in Nat, faults' >= faults
    PROVE  Sound(x)'
<1>1. \A r, c : Accounted(r, c) => Accounted(r, c)'
  BY DEF Accounted
<1>2. UndisturbedSound(x)'
  <2>1. \A c \in Known(LRow(x)) : Accounted(LRow(x), c) => Accounted(LRow(x), c)'
    BY <1>1
  <2> DEFINE A == /\ LRow(x).status = "running"
                  /\ \A l \in Lenses : Reserving(x, l) =>
                         x.save["ledger"].row =
                             Recorded(LRow(x), Call(x, l), [status |-> "reserved", tokens |-> Reserve])
                  /\ \A l \in Lenses : x.lens[l].pc = "settling" =>
                         x.save["ledger"].row = Recorded(LRow(x), Call(x, l), EntryFor(x.lens[l]))
             B(c) == Accounted(LRow(x), c)
             C(c) == LRow(x).ledger[c].status = "reserved" /\ InFlight(x, c)
  <2>2. Undisturbed(x) => A /\ \A c \in Known(LRow(x)) : B(c) \/ C(c)
    BY DEF Sound, UndisturbedSound
  <2>3. Undisturbed(x) => A /\ \A c \in Known(LRow(x)) : B(c)' \/ C(c)
    BY <2>1, <2>2
  <2>4. QED
    BY <2>3 DEF UndisturbedSound
<1>3. StageSound(x)'
  BY DEF StageSound, Sound
<1>4. QED
  BY <1>2, <1>3 DEF Sound

\* e goes from x to y: the shared facts stay.
LEMMA SharedStays ==
    ASSUME Shape, AllSound, Shared, NEW e \in Executions, NEW y,
           ex' = [ex EXCEPT ![e] = y], UNCHANGED <<row, called>>,
           faults' \in Nat, faults' >= faults, Sound(y)', Quiet(ex[e], y)
    PROVE  /\ Shape' /\ AllSound' /\ Shared'
           /\ \A c \in Calls : Committed(c)' => Committed(c)
           /\ \A d \in Executions : Working(ex[d])' => Working(ex[d])
           /\ ex'[e] = y /\ \A d \in Executions : d # e => ex'[d] = ex[d]
<1>0. /\ ex'[e] = y /\ \A d \in Executions : d # e => ex'[d] = ex[d]
      /\ ex' = [d \in Executions |-> ex'[d]]
  BY DEF Shape
<1>1. Shape'
  BY <1>0 DEF Shape, Rows
<1>2. AllSound'
  <2> SUFFICES ASSUME NEW d \in Executions PROVE Sound(ex[d])'
    BY DEF AllSound
  <2>1. CASE d = e
    BY <1>0, <2>1
  <2>2. CASE d # e
    <3>1. Sound(ex[d])
      BY DEF AllSound
    <3> DEFINE x == ex[d]
    <3>2. \A z : z = x => Sound(z)'
      BY <3>1, SoundStays DEF Shape
    <3>3. QED
      BY <1>0, <2>2, <3>2
  <2>3. QED
    BY <2>1, <2>2
<1>3. \A c \in Calls, d \in Executions : Pending(ex'[d], c) => Pending(ex[d], c)
  BY <1>0 DEF Quiet
<1>4. \A c \in Calls : Committed(c)' => Committed(c)
  BY <1>3 DEF Committed
<1>5. \A d \in Executions : Working(ex'[d]) => Working(ex[d])
  BY <1>0 DEF Quiet
<1>6. \A d \in Executions : Working(ex'[d]) /\ Final(ex[d]) => Final(ex'[d])
  BY <1>0 DEF Quiet
<1>7. \A d \in Executions : ex'[d].pc = "starting" /\ Working(ex'[d]) => ex[d].pc = "starting"
  BY <1>0 DEF Quiet
<1>8. FreshRow'
  BY <1>5 DEF Shared, FreshRow, Uncalled
<1>9. StartsFresh'
  BY <1>5, <1>7 DEF Shared, StartsFresh, Uncalled
<1>10. OneWorks'
  BY <1>5 DEF Shared, OneWorks
<1>11. Once'
  BY <1>3 DEF Shared, Once
<1>12. RunningRow'
  BY <1>4 DEF Shared, RunningRow, CommittedIn
<1>13. CompletedRow'
  BY <1>5, <1>6 DEF Shape, Shared, CompletedRow, AllFinal, AllAccounted, Accounted
<1>14. QED
  BY <1>0, <1>1, <1>2, <1>4, <1>5, <1>8, <1>9, <1>10, <1>11, <1>12, <1>13 DEF Shared

\* What the holder knows stays known when nothing is committed and nobody begins to work.
LEMMA HeldStays ==
    ASSUME NEW x, Held(x), row[LensStage]' = row[LensStage], UNCHANGED <<holder, called>>,
           faults \in Nat, faults' \in Nat, faults' >= faults,
           \A c \in Calls : Committed(c)' => Committed(c),
           \A d \in Executions : Working(ex[d])' => Working(ex[d])
    PROVE  Held(x)'
<1>1. \A r : AllAccounted(r) => AllAccounted(r)'
  BY DEF AllAccounted, Accounted
<1>2. \A r : CommittedIn(r) => CommittedIn(r)'
  BY DEF CommittedIn
<1>3. QED
  BY <1>1, <1>2 DEF Held

\* The usage stays sound when e's does, and e works no more than before or nothing was called.
LEMMA UsageStays ==
    ASSUME Usage, NEW e \in Executions, NEW y, ex'[e] = y,
           \A d \in Executions : d # e => ex'[d] = ex[d],
           UNCHANGED called, WithinBudget(row'[LensStage]), UsageSound(y),
           Working(y) => (Working(ex[e]) /\ y.cost = ex[e].cost) \/ Uncalled
    PROVE  Usage'
<1>1. \A d \in Executions : UsageSound(ex'[d])
  BY DEF Usage
<1>2. CalledSet' = CalledSet /\ IsFiniteSet(CalledSet) /\ Cardinality(CalledSet) <= MaxCost
  BY DEF Usage, Counted, CalledSet
<1>3. ASSUME NEW d \in Executions, Working(ex'[d]) PROVE Cardinality(CalledSet) <= ex'[d].cost
  <2>1. CASE d # e
    BY <1>3, <2>1 DEF Usage, Counted
  <2>2. CASE d = e /\ Working(ex[e]) /\ y.cost = ex[e].cost
    BY <2>2 DEF Usage, Counted
  <2>3. CASE d = e /\ Uncalled
    <3>1. CalledSet = {}
      BY <2>3 DEF CalledSet, Uncalled
    <3>2. Cardinality(CalledSet) = 0 /\ y.cost \in Nat
      BY <3>1, FS_EmptySet DEF UsageSound
    <3>3. QED
      BY <2>3, <3>2
  <2>4. QED
    BY <1>3, <2>1, <2>2, <2>3
<1>4. QED
  BY <1>1, <1>2, <1>3 DEF Usage, Counted

LEMMA StepKeeps ==
    ASSUME RuntimeInv, NEW e \in Executions, NEW y,
           ex' = [ex EXCEPT ![e] = y], UNCHANGED <<row, called, holder, settled>>,
           faults' \in Nat, faults' >= faults, Sound(y)', Quiet(ex[e], y), Pays(ex[e], y),
           holder = e /\ ~settled => Held(y)
    PROVE  RuntimeInv'
<1>1. /\ Shape' /\ AllSound' /\ Shared'
      /\ \A c \in Calls : Committed(c)' => Committed(c)
      /\ \A d \in Executions : Working(ex[d])' => Working(ex[d])
      /\ ex'[e] = y /\ \A d \in Executions : d # e => ex'[d] = ex[d]
  BY SharedStays DEF RuntimeInv
<1>2. HolderSound'
  <2> SUFFICES ASSUME holder' \in Executions, ~settled' PROVE Held(ex[holder])'
    BY DEF HolderSound
  <2>0. holder \in Executions /\ ~settled /\ holder' = holder
    OBVIOUS
  <2>1. \A z : Held(z) => Held(z)'
    BY <1>1, HeldStays DEF RuntimeInv, Shape
  <2>2. CASE holder = e
    <3>1. \A z : z = y => Held(z)'
      BY <2>0, <2>1, <2>2
    <3>2. ex'[holder'] = y
      BY <1>1, <2>0, <2>2
    <3>3. QED
      BY <3>1, <3>2
  <2>3. CASE holder # e
    <3>1. \A z : z = ex[holder] => Held(z)'
      BY <2>0, <2>1 DEF RuntimeInv, HolderSound
    <3>2. ex'[holder'] = ex[holder]
      BY <1>1, <2>0, <2>3
    <3>3. QED
      BY <3>1, <3>2
  <2>4. QED
    BY <2>2, <2>3
<1>3. Usage'
  <2>1. UsageSound(y)
    BY DEF RuntimeInv, Usage, Pays
  <2>2. Working(y) => Working(ex[e]) /\ y.cost = ex[e].cost
    BY DEF Quiet, Pays
  <2>3. WithinBudget(row'[LensStage])
    BY DEF RuntimeInv, Usage
  <2>4. QED
    BY <1>1, <2>1, <2>2, <2>3, UsageStays DEF RuntimeInv
<1>4. QED
  BY <1>1, <1>2, <1>3 DEF RuntimeInv

\* The actions that change the memory of an execution alone.
LEMMA DoesStep ==
    ASSUME RuntimeInv, NEW e \in Executions, NEW y, Does(e, y), Sound(y), Quiet(ex[e], y), Pays(ex[e], y),
           holder = e /\ ~settled => Held(y)
    PROVE  RuntimeInv'
<1>1. /\ ex' = [ex EXCEPT ![e] = y] /\ UNCHANGED <<row, called, holder, settled>>
      /\ faults \in Nat /\ faults' \in Nat /\ faults' >= faults
  BY DEF Does, RuntimeInv, Shape
<1>2. Sound(y)'
  BY <1>1, SoundStays
<1>3. QED
  BY <1>1, <1>2, StepKeeps

LEMMA DoesKeeps ==
    ASSUME RuntimeInv, NEW e \in Executions, NEW y, Does(e, y), Fine(ex[e], y)
    PROVE  RuntimeInv'
<1>1. holder = e /\ ~settled => Held(y)
  BY DEF Fine, RuntimeInv, HolderSound
<1>2. QED
  BY <1>1, DoesStep DEF Fine

-----------------------------------------------------------------------------
(* The actions of run. *)

\* z is x but for what the shared facts do not look at.
Like(z, x) ==
    /\ IsExec(z) /\ z.pc = x.pc /\ z.at = x.at /\ (x.aborted => z.aborted)
    /\ z.memory = x.memory /\ z.lens = x.lens /\ z.save = x.save
    /\ z.cost = x.cost /\ z.tokens = x.tokens

LEMMA CatchFine ==
    ASSUME NEW x, Sound(x), x.pc \in {"enter", "operating"}, NEW z, Like(z, x), NEW error
    PROVE  Fine(x, Catch(z, error))
<1> DEFINE s == Stage(z)
           u == [z EXCEPT !.pc = "catching"]
           w == [u EXCEPT !.outcome = OutcomeOf(s, error)]
           r == Failed(z.memory[s])
           y == Catch(z, error)
<1>1. IsExec(u) /\ u.pc = "catching" /\ u.at = z.at /\ u.aborted = z.aborted
      /\ u.memory = z.memory /\ u.lens = z.lens /\ u.save = z.save /\ u.cost = z.cost /\ u.tokens = z.tokens
  BY PcIs DEF Like
<1>2. y = Send(w, "run", s, r)
  BY DEF Catch
<1> HIDE DEF u, y
<1>3. IsExec(w) /\ w.pc = "catching" /\ w.at = z.at /\ w.aborted = z.aborted
      /\ w.memory = z.memory /\ w.lens = z.lens /\ w.save = z.save /\ w.cost = z.cost /\ w.tokens = z.tokens
  BY <1>1, OutcomeIs
<1> HIDE DEF w
<1>4. s = Stage(x) /\ s \in Stages /\ z.memory[s] = x.memory[s] /\ IsRow(z.memory[s])
  BY PlanIs DEF Like, Stage, Sound, IsExec
<1>5. IsRow(r) /\ r = Failed(x.memory[s])
  BY <1>4, StatusIs DEF Failed
<1> HIDE DEF r, s
<1>6. /\ IsExec(y)
      /\ y.pc = w.pc /\ y.at = w.at /\ y.aborted = w.aborted /\ y.memory = w.memory
      /\ y.lens = w.lens /\ y.cost = w.cost /\ y.tokens = w.tokens
      /\ y.save["run"].phase = "sent" /\ y.save["run"].stage = s /\ y.save["run"].row = r
      /\ y.save["ledger"] = w.save["ledger"]
  BY <1>2, <1>3, <1>4, <1>5, SendIs DEF Places
<1>7. Fine(x, y)
  BY <1>3, <1>4, <1>5, <1>6, CatchKeeps DEF Like
<1>8. QED
  BY <1>7 DEF y

LEMMA EndFine ==
    ASSUME NEW x, Sound(x), x.pc \in {"enter", "starting", "catching", "completing"},
           NEW z, IsExec(z), z.at = x.at, z.aborted = x.aborted, z.lens = x.lens,
           z.cost = x.cost, z.tokens = x.tokens,
           z.save["ledger"] = x.save["ledger"], z.save["run"].phase = "none",
           LRow(z) = LRow(x) \/ (x.pc # "starting" /\ x.save["run"].phase # "none"
                                 /\ AtLens(x) /\ LRow(z) = x.save["run"].row),
           NEW outcome
    PROVE  Fine(x, Ends(z, outcome))
<1> DEFINE u == [z EXCEPT !.pc = "ended"]
           w == [u EXCEPT !.outcome = outcome]
           y == [w EXCEPT !.ceiling = 0]
<1>1. IsExec(u) /\ u.pc = "ended" /\ u.at = z.at /\ u.aborted = z.aborted
      /\ u.memory = z.memory /\ u.lens = z.lens /\ u.save = z.save /\ u.cost = z.cost /\ u.tokens = z.tokens
  BY PcIs
<1>0. Ends(z, outcome) = y
  BY DEF Ends
<1> HIDE DEF u
<1>2. IsExec(w) /\ w.pc = "ended" /\ w.at = z.at /\ w.aborted = z.aborted
      /\ w.memory = z.memory /\ w.lens = z.lens /\ w.save = z.save /\ w.cost = z.cost /\ w.tokens = z.tokens
  BY <1>1, OutcomeIs
<1> HIDE DEF w
<1>3. IsExec(y) /\ y.pc = "ended" /\ y.at = z.at /\ y.aborted = z.aborted
      /\ y.memory = z.memory /\ y.lens = z.lens /\ y.save = z.save /\ y.cost = z.cost /\ y.tokens = z.tokens
  BY <1>2, CeilingIs
<1> HIDE DEF y
<1>4. LRow(y) = LRow(z)
  BY <1>3 DEF LRow
<1>5. Fine(x, y)
  BY <1>3, <1>4, EndKeeps
<1>6. QED
  BY <1>0, <1>5

LEMMA AttemptFine ==
    ASSUME NEW x, Sound(x), x.pc = "enter" \/ (x.pc = "operating" /\ ~AtLens(x)),
           NEW z, Like(z, x), z.aborted = x.aborted,
           AtLens(x) /\ LRow(x).attempts < z.ceiling => LRow(x).attempts = 0,
           x.pc = "operating" => x.memory[Stage(x)].attempts < z.ceiling
    PROVE  Fine(x, Attempt(z))
<1> DEFINE s == Stage(z)
           c == z.memory[s]
<1>1. s = Stage(x) /\ s \in Stages /\ c = x.memory[s] /\ IsRow(c)
  BY PlanIs DEF Like, Stage, Sound, IsExec
<1>2. CASE c.attempts < z.ceiling /\ ~Over(z, 0, 0)
  <2> DEFINE u == [z EXCEPT !.pc = "starting"]
             r == [c EXCEPT !.status = "running", !.attempts = @ + 1]
             y == Attempt(z)
  <2>1. IsExec(u) /\ u.pc = "starting" /\ u.at = z.at /\ u.aborted = z.aborted
        /\ u.memory = z.memory /\ u.lens = z.lens /\ u.save = z.save /\ u.cost = z.cost /\ u.tokens = z.tokens
    BY PcIs DEF Like
  <2>2. y = Send(u, "run", s, r)
    BY <1>2 DEF Attempt
  <2>3. r = [x.memory[Stage(x)] EXCEPT !.status = "running", !.attempts = @ + 1]
    BY <1>1
  <2>4. AtLens(x) => LRow(x).attempts = 0
    BY <1>1, <1>2 DEF AtLens, LRow
  <2> HIDE DEF u, y, c
  <2>5. IsRow(r)
    BY <1>1, StartedRowIs
  <2> HIDE DEF r, s
  <2>6. /\ IsExec(y)
        /\ y.pc = u.pc /\ y.at = u.at /\ y.aborted = u.aborted /\ y.memory = u.memory
        /\ y.lens = u.lens /\ y.cost = u.cost /\ y.tokens = u.tokens
        /\ y.save["run"].phase = "sent" /\ y.save["run"].stage = s /\ y.save["run"].row = r
        /\ y.save["ledger"] = u.save["ledger"]
    BY <1>1, <2>1, <2>2, <2>5, SendIs DEF Places
  <2>7. Fine(x, y)
    <3>1. /\ y.pc = "starting" /\ y.at = x.at /\ y.aborted = x.aborted /\ y.memory = x.memory
          /\ y.lens = x.lens /\ y.cost = x.cost /\ y.tokens = x.tokens
          /\ y.save["ledger"] = x.save["ledger"] /\ y.save["run"].stage = Stage(x)
      BY <1>1, <2>1, <2>6 DEF Like
    <3>2. QED
      BY <2>3, <2>4, <2>6, <3>1, StartKeeps
  <2>8. QED
    BY <2>7 DEF y
<1>3. CASE c.attempts < z.ceiling /\ Over(z, 0, 0)
  <2>1. Attempt(z) = Catch(z, "budget")
    BY <1>3 DEF Attempt
  <2>2. QED
    BY <2>1, CatchFine
<1>4. CASE ~(c.attempts < z.ceiling)
  <2>1. x.pc = "enter"
    BY <1>1, <1>4
  <2>2. CASE c.status = "failed"
    <3>1. Attempt(z) = Ends(z, "failed")
      BY <1>4, <2>2 DEF Attempt
    <3>2. LRow(z) = LRow(x) /\ z.save["run"].phase = "none"
      BY <2>1 DEF Like, LRow, Sound, RunSound
    <3>3. Fine(x, Ends(z, "failed"))
      BY <2>1, <3>2, EndFine DEF Like
    <3>4. QED
      BY <3>1, <3>3
  <2>3. CASE c.status # "failed"
    <3>1. Attempt(z) = Catch(z, "broken")
      BY <1>4, <2>3 DEF Attempt
    <3>2. QED
      BY <2>1, <3>1, CatchFine
  <2>4. QED
    BY <2>2, <2>3
<1>5. QED
  BY <1>2, <1>3, <1>4

\* run goes on behind a completed stage.
LEMMA AdvanceFine ==
    ASSUME NEW x, Sound(x), x.pc \in {"enter", "completing"},
           NEW z, IsExec(z), z.at = x.at, z.aborted = x.aborted, z.lens = x.lens,
           z.cost = x.cost, z.tokens = x.tokens,
           z.save["ledger"] = x.save["ledger"], z.save["run"].phase = "none",
           LRow(z) = LRow(x) \/ (x.save["run"].phase # "none"
                                 /\ AtLens(x) /\ LRow(z) = x.save["run"].row)
    PROVE  Fine(x, Advance(z))
<1>1. CASE z.at = Len(Plan)
  <2>1. Advance(z) = Ends(z, "completed")
    BY <1>1 DEF Advance
  <2>2. QED
    BY <2>1, EndFine
<1>2. CASE z.at # Len(Plan)
  <2> DEFINE u == [z EXCEPT !.pc = "enter"]
             y == [u EXCEPT !.at = z.at + 1]
  <2>1. IsExec(u) /\ u.pc = "enter" /\ u.aborted = z.aborted
        /\ u.memory = z.memory /\ u.lens = z.lens /\ u.save = z.save /\ u.cost = z.cost /\ u.tokens = z.tokens
    BY PcIs
  <2>2. Advance(z) = y
    BY <1>2 DEF Advance
  <2> HIDE DEF u
  <2>3. z.at + 1 \in 1..Len(Plan)
    BY <1>2, PlanIs DEF IsExec
  <2>4. IsExec(y) /\ y.pc = "enter" /\ y.aborted = z.aborted
        /\ y.memory = z.memory /\ y.lens = z.lens /\ y.save = z.save /\ y.cost = z.cost /\ y.tokens = z.tokens
    BY <2>1, <2>3, AtIs
  <2> HIDE DEF y
  <2>5. ~AtLens(x)
    BY <1>2, PlanIs DEF AtLens, Stage, IsExec
  <2>6. LRow(y) = LRow(x)
    BY <2>4, <2>5 DEF LRow
  <2>7. Fine(x, y)
    BY <2>4, <2>5, <2>6, AdvanceKeeps
  <2>8. QED
    BY <2>2, <2>7
<1>3. QED
  BY <1>1, <1>2

LEMMA EnterKeeps ==
    ASSUME RuntimeInv, NEW e \in Executions, Enter(e)
    PROVE  RuntimeInv'
<1> DEFINE x == ex[e]
           c == x.memory[Stage(x)]
           n == MaxAttempts[Stage(x)] + IF Stage(x) = "framework_catalog" THEN c.attempts ELSE 0
           z == [x EXCEPT !.ceiling = n]
<1>1. Sound(x) /\ IsExec(x) /\ x.pc = "enter"
  BY DEF RuntimeInv, AllSound, Sound, Enter
<1>2. IF c.status = "completed" THEN Does(e, Advance(x)) ELSE Does(e, Attempt(z))
  BY DEF Enter
<1>3. IsExec(z) /\ Like(z, x) /\ z.aborted = x.aborted /\ z.ceiling = n
  <2> HIDE DEF x, n
  <2>1. QED
    BY <1>1, CeilingIs DEF Like
<1>4. AtLens(x) /\ LRow(x).attempts < n => LRow(x).attempts = 0
  <2>1. LRow(x).attempts \in Nat
    BY <1>1, PlanIs DEF LRow, IsExec, IsRow
  <2>2. AtLens(x) => n = 1 + 0
    BY PlanIs DEF AtLens
  <2> HIDE DEF n, x
  <2>3. QED
    BY <2>1, <2>2
<1>5. x.save["run"].phase = "none"
  BY <1>1 DEF Sound, RunSound
<1> HIDE DEF x, n, z
<1>6. Fine(x, Advance(x))
  BY <1>1, <1>5, AdvanceFine
<1>7. Fine(x, Attempt(z))
  BY <1>1, <1>3, <1>4, AttemptFine
<1>8. QED
  BY <1>2, <1>6, <1>7, DoesKeeps DEF x

\* The holder's other executions are not at work while it is.
LEMMA AloneAtWork ==
    ASSUME RuntimeInv, NEW e \in Executions, Working(ex[e]), holder = e
    PROVE  \A d \in Executions \ {holder} : ~Working(ex[d])
BY DEF RuntimeInv, Shared, OneWorks

LEMMA CompletesKeeps ==
    ASSUME RuntimeInv, NEW e \in Executions, ex[e].pc = "operating",
           AtLens(ex[e]) => AllDone(ex[e]), Does(e, Completes(ex[e]))
    PROVE  RuntimeInv'
<1> DEFINE x == ex[e]
           u == [x EXCEPT !.pc = "completing"]
           s == Stage(x)
           r == [x.memory[s] EXCEPT !.status = "completed"]
           y == Completes(x)
<1>1. Sound(x) /\ IsExec(x) /\ x.pc = "operating"
  BY DEF RuntimeInv, AllSound, Sound
<1>2. y = Send(u, "run", s, r)
  BY DEF Completes
<1>3. IsExec(u) /\ u.pc = "completing" /\ u.at = x.at /\ u.aborted = x.aborted
      /\ u.memory = x.memory /\ u.lens = x.lens /\ u.save = x.save /\ u.cost = x.cost /\ u.tokens = x.tokens
  BY <1>1, PcIs
<1>4. s \in Stages /\ IsRow(x.memory[s])
  BY <1>1, PlanIs DEF Stage, IsExec
<1>5. IsRow(r)
  BY <1>4, StatusIs
<1> HIDE DEF u, y
<1>6. /\ IsExec(y)
      /\ y.pc = u.pc /\ y.at = u.at /\ y.aborted = u.aborted /\ y.memory = u.memory
      /\ y.lens = u.lens /\ y.cost = u.cost /\ y.tokens = u.tokens
      /\ y.save["run"].phase = "sent" /\ y.save["run"].stage = s /\ y.save["run"].row = r
      /\ y.save["ledger"] = u.save["ledger"]
  <2> HIDE DEF r, s, x
  <2>1. QED
    BY <1>2, <1>3, <1>4, <1>5, SendIs DEF Places
<1>7. /\ Sound(y) /\ Quiet(x, y) /\ Pays(x, y)
      /\ Held(x) /\ (AtLens(x) => \A d \in Executions \ {holder} : ~Working(ex[d])) => Held(y)
  <2>1. \A k \in Calls : called[k] \in Nat
    BY DEF RuntimeInv, Shape
  <2>2. QED
    BY <1>1, <1>3, <1>6, <2>1, CompleteKeeps
<1>8. ASSUME holder = e, ~settled PROVE Held(y)
  <2>1. Held(x)
    BY <1>8 DEF RuntimeInv, HolderSound
  <2>2. AtLens(x) => \A d \in Executions \ {holder} : ~Working(ex[d])
    BY <1>1, <1>8, AloneAtWork DEF Working
  <2>3. QED
    BY <1>7, <2>1, <2>2
<1>9. QED
  BY <1>7, <1>8, DoesStep DEF y

LEMMA CatchesKeeps ==
    ASSUME RuntimeInv, NEW e \in Executions, ex[e].pc = "operating", NEW error,
           Does(e, Catch(ex[e], error))
    PROVE  RuntimeInv'
<1>1. Sound(ex[e]) /\ Like(ex[e], ex[e])
  BY DEF RuntimeInv, AllSound, Sound, Like
<1>2. Fine(ex[e], Catch(ex[e], error))
  BY <1>1, CatchFine
<1>3. QED
  BY <1>2, DoesKeeps

LEMMA OperatesKeeps ==
    ASSUME RuntimeInv, NEW e \in Executions, Operate(e)
    PROVE  RuntimeInv'
<1> DEFINE x == ex[e]
<1>1. x.pc = "operating" /\ ~AtLens(x) /\ Sound(x) /\ Like(x, x)
  BY DEF Operate, AtLens, RuntimeInv, AllSound, Sound, Like
<1>2. CASE Does(e, Completes(x))
  BY <1>1, <1>2, CompletesKeeps
<1>3. CASE \E error : Does(e, Catch(x, error))
  BY <1>1, <1>3, CatchesKeeps
<1>4. CASE x.memory[Stage(x)].attempts < x.ceiling /\ Does(e, Attempt(x))
  <2>1. Fine(x, Attempt(x))
    BY <1>1, <1>4, AttemptFine
  <2>2. QED
    BY <1>4, <2>1, DoesKeeps
<1>5. QED
  BY <1>2, <1>3, <1>4 DEF Operate

LEMMA RunAllEndsKeeps ==
    ASSUME RuntimeInv, NEW e \in Executions, RunAllEnds(e)
    PROVE  RuntimeInv'
  BY CompletesKeeps, CatchesKeeps DEF RunAllEnds

LEMMA TimeOutKeeps ==
    ASSUME RuntimeInv, NEW e \in Executions, TimeOut(e)
    PROVE  RuntimeInv'
<1> DEFINE x == ex[e]
           z == [x EXCEPT !.aborted = TRUE]
<1>1. x.pc = "operating" /\ Sound(x) /\ IsExec(x) /\ Does(e, Catch(z, "timeout"))
  BY DEF TimeOut, RuntimeInv, AllSound, Sound
<1> HIDE DEF x
<1>2. Like(z, x)
  BY <1>1, AbortedIs DEF Like
<1> HIDE DEF z
<1>3. Fine(x, Catch(z, "timeout"))
  BY <1>1, <1>2, CatchFine
<1>4. QED
  BY <1>1, <1>3, DoesKeeps DEF x

LEMMA RunSavedKeeps ==
    ASSUME RuntimeInv, NEW e \in Executions, RunSaved(e)
    PROVE  RuntimeInv'
<1> DEFINE x == ex[e]
           a == Accepted(x, "run")
           b == Closed(x, "run")
           p == x.save["run"].phase
           s == x.save["run"].stage
<1>1. /\ Sound(x) /\ IsExec(x) /\ x.pc \in {"starting", "catching", "completing"}
      /\ p \in {"stored", "refused", "lost"} /\ s = Stage(x) /\ s \in Stages
  BY PlanIs DEF RunSaved, RuntimeInv, AllSound, Sound, RunSound, Stage, IsExec
<1>2. CASE p # "stored"
  <2>1. Does(e, Ends(b, "failed"))
    BY <1>2 DEF RunSaved
  <2>2. /\ IsExec(b) /\ b.at = x.at /\ b.aborted = x.aborted /\ b.lens = x.lens /\ b.cost = x.cost /\ b.tokens = x.tokens
        /\ b.memory = x.memory /\ b.save["run"].phase = "none"
        /\ b.save["ledger"] = x.save["ledger"]
    BY <1>1, ClosedIs DEF Places
  <2> HIDE DEF b
  <2>3. Fine(x, Ends(b, "failed"))
    BY <1>1, <2>2, EndFine DEF LRow
  <2>4. QED
    BY <2>1, <2>3, DoesKeeps
<1>3. CASE p = "stored"
  <2>1. /\ IsExec(a) /\ a.at = x.at /\ a.aborted = x.aborted /\ a.lens = x.lens
        /\ a.cost = x.cost /\ a.tokens = x.tokens
        /\ a.memory[s] = x.save["run"].row
        /\ \A t \in Stages : t # s => a.memory[t] = x.memory[t]
        /\ a.save["run"].phase = "none"
        /\ a.save["ledger"] = x.save["ledger"]
    BY <1>1, AcceptedIs DEF Places
  <2>2. IF AtLens(x) THEN LRow(a) = x.save["run"].row ELSE LRow(a) = LRow(x)
    BY <1>1, <2>1, PlanIs DEF AtLens, LRow
  <2>3. CASE x.pc = "starting"
    <3> DEFINE y == [a EXCEPT !.pc = "operating"]
    <3>1. Does(e, y)
      BY <1>3, <2>3 DEF RunSaved
    <3> HIDE DEF a
    <3>2. IsExec(y) /\ y.pc = "operating" /\ y.at = a.at /\ y.aborted = a.aborted
          /\ y.memory = a.memory /\ y.lens = a.lens /\ y.save = a.save
          /\ y.cost = a.cost /\ y.tokens = a.tokens
      BY <2>1, PcIs
    <3> HIDE DEF y
    <3>3. LRow(y) = LRow(a)
      BY <3>2 DEF LRow
    <3>4. AtLens(x) => \A c \in Calls : ~Committed(c)
      <4> SUFFICES ASSUME AtLens(x), NEW c \in Calls PROVE ~Committed(c)
        OBVIOUS
      <4>1. Working(x)
        BY <1>3, <2>3 DEF Working
      <4>2. Uncalled
        BY <2>3, <4>1 DEF RuntimeInv, Shared, StartsFresh
      <4>3. \A d \in Executions : Pending(ex[d], c) => d = e
        BY <4>1, PendingWorks DEF RuntimeInv, Shared, OneWorks
      <4>4. ~Pending(x, c)
        BY <1>1, <2>3 DEF Pending, PendingAt, Reserving, Sound, StageSound, Started
      <4>5. QED
        BY <4>2, <4>3, <4>4 DEF Committed, Uncalled
    <3>5. Fine(x, y)
      BY <1>1, <1>3, <2>1, <2>2, <2>3, <3>2, <3>3, <3>4, OperateKeeps
    <3>6. QED
      BY <3>1, <3>5, DoesKeeps
  <2>4. CASE x.pc = "completing"
    <3>1. Does(e, Advance(a))
      BY <1>3, <2>4 DEF RunSaved
    <3> HIDE DEF a
    <3>2. Fine(x, Advance(a))
      BY <1>1, <1>3, <2>1, <2>2, <2>4, AdvanceFine
    <3>3. QED
      BY <3>1, <3>2, DoesKeeps
  <2>5. CASE x.pc = "catching"
    <3>1. Does(e, Ends(a, a.outcome))
      BY <1>3, <2>5 DEF RunSaved
    <3> HIDE DEF a
    <3>2. Fine(x, Ends(a, a.outcome))
      BY <1>1, <1>3, <2>1, <2>2, <2>5, EndFine
    <3>3. QED
      BY <3>1, <3>2, DoesKeeps
  <2>6. QED
    BY <1>1, <2>3, <2>4, <2>5
<1>4. QED
  BY <1>2, <1>3

(* One field of a lens is set. *)

LEMMA LensPcIs ==
    ASSUME NEW n, IsLens(n), NEW v
    PROVE  LET m == [n EXCEPT !.pc = v] IN
           /\ IsLens(m) /\ m.pc = v /\ m.output = n.output /\ m.transport = n.transport
           /\ m.end = n.end /\ m.tokens = n.tokens /\ m.error = n.error
<1> DEFINE m == [n EXCEPT !.pc = v]
<1>1. m = [pc |-> v, output |-> n.output, transport |-> n.transport, end |-> n.end, tokens |-> n.tokens, error |-> n.error]
  BY DEF IsLens
<1> HIDE DEF m
<1>2. /\ m.pc = v /\ m.output = n.output /\ m.transport = n.transport
      /\ m.end = n.end /\ m.tokens = n.tokens /\ m.error = n.error
  BY <1>1
<1>3. QED
  BY <1>1, <1>2 DEF IsLens, m

LEMMA LensOutputIs ==
    ASSUME NEW n, IsLens(n), NEW v
    PROVE  LET m == [n EXCEPT !.output = v] IN
           /\ IsLens(m) /\ m.pc = n.pc /\ m.output = v /\ m.transport = n.transport
           /\ m.end = n.end /\ m.tokens = n.tokens /\ m.error = n.error
<1> DEFINE m == [n EXCEPT !.output = v]
<1>1. m = [pc |-> n.pc, output |-> v, transport |-> n.transport, end |-> n.end, tokens |-> n.tokens, error |-> n.error]
  BY DEF IsLens
<1> HIDE DEF m
<1>2. /\ m.pc = n.pc /\ m.output = v /\ m.transport = n.transport
      /\ m.end = n.end /\ m.tokens = n.tokens /\ m.error = n.error
  BY <1>1
<1>3. QED
  BY <1>1, <1>2 DEF IsLens, m

LEMMA LensTransportIs ==
    ASSUME NEW n, IsLens(n), NEW v
    PROVE  LET m == [n EXCEPT !.transport = v] IN
           /\ IsLens(m) /\ m.pc = n.pc /\ m.output = n.output /\ m.transport = v
           /\ m.end = n.end /\ m.tokens = n.tokens /\ m.error = n.error
<1> DEFINE m == [n EXCEPT !.transport = v]
<1>1. m = [pc |-> n.pc, output |-> n.output, transport |-> v, end |-> n.end, tokens |-> n.tokens, error |-> n.error]
  BY DEF IsLens
<1> HIDE DEF m
<1>2. /\ m.pc = n.pc /\ m.output = n.output /\ m.transport = v
      /\ m.end = n.end /\ m.tokens = n.tokens /\ m.error = n.error
  BY <1>1
<1>3. QED
  BY <1>1, <1>2 DEF IsLens, m

LEMMA LensEndIs ==
    ASSUME NEW n, IsLens(n), NEW v
    PROVE  LET m == [n EXCEPT !.end = v] IN
           /\ IsLens(m) /\ m.pc = n.pc /\ m.output = n.output /\ m.transport = n.transport
           /\ m.end = v /\ m.tokens = n.tokens /\ m.error = n.error
<1> DEFINE m == [n EXCEPT !.end = v]
<1>1. m = [pc |-> n.pc, output |-> n.output, transport |-> n.transport, end |-> v, tokens |-> n.tokens, error |-> n.error]
  BY DEF IsLens
<1> HIDE DEF m
<1>2. /\ m.pc = n.pc /\ m.output = n.output /\ m.transport = n.transport
      /\ m.end = v /\ m.tokens = n.tokens /\ m.error = n.error
  BY <1>1
<1>3. QED
  BY <1>1, <1>2 DEF IsLens, m

LEMMA LensTokensIs ==
    ASSUME NEW n, IsLens(n), NEW v
    PROVE  LET m == [n EXCEPT !.tokens = v] IN
           /\ IsLens(m) /\ m.pc = n.pc /\ m.output = n.output /\ m.transport = n.transport
           /\ m.end = n.end /\ m.tokens = v /\ m.error = n.error
<1> DEFINE m == [n EXCEPT !.tokens = v]
<1>1. m = [pc |-> n.pc, output |-> n.output, transport |-> n.transport, end |-> n.end, tokens |-> v, error |-> n.error]
  BY DEF IsLens
<1> HIDE DEF m
<1>2. /\ m.pc = n.pc /\ m.output = n.output /\ m.transport = n.transport
      /\ m.end = n.end /\ m.tokens = v /\ m.error = n.error
  BY <1>1
<1>3. QED
  BY <1>1, <1>2 DEF IsLens, m

LEMMA LensErrorIs ==
    ASSUME NEW n, IsLens(n), NEW v
    PROVE  LET m == [n EXCEPT !.error = v] IN
           /\ IsLens(m) /\ m.pc = n.pc /\ m.output = n.output /\ m.transport = n.transport
           /\ m.end = n.end /\ m.tokens = n.tokens /\ m.error = v
<1> DEFINE m == [n EXCEPT !.error = v]
<1>1. m = [pc |-> n.pc, output |-> n.output, transport |-> n.transport, end |-> n.end, tokens |-> n.tokens, error |-> v]
  BY DEF IsLens
<1> HIDE DEF m
<1>2. /\ m.pc = n.pc /\ m.output = n.output /\ m.transport = n.transport
      /\ m.end = n.end /\ m.tokens = n.tokens /\ m.error = v
  BY <1>1
<1>3. QED
  BY <1>1, <1>2 DEF IsLens, m

LEMMA IdleLensIs == IsLens(IdleLens) /\ IdleLens.pc = "idle" /\ IdleLens.end = "none" /\ IdleLens.error = "none"
                    /\ LensCounts(IdleLens)
  BY DEF IsLens, IdleLens, LensCounts

-----------------------------------------------------------------------------
(* The actions of the lenses. *)

\* y is z with lens l beginning anew, done or given up.
Restarted(y, z, l, pcs) ==
    /\ IsExec(y) /\ y.pc = z.pc /\ y.at = z.at /\ y.aborted = z.aborted
    /\ y.memory = z.memory /\ y.save = z.save
    /\ \A k \in Lenses : k # l => y.lens[k] = z.lens[k]
    /\ y.cost = z.cost /\ y.tokens = z.tokens
    /\ y.lens[l].pc \in pcs /\ LensCounts(y.lens[l])
    /\ y.lens[l].pc = "ask" => /\ y.lens[l].error = "none"
                               /\ z.lens[l].pc # "idle" => After(y.lens[l], z.lens[l])

LEMMA RestartedIs ==
    ASSUME NEW z, IsExec(z), NEW l \in Lenses, NEW n, IsLens(n),
           n.pc = "ask" => n.error = "none" /\ (z.lens[l].pc # "idle" => After(n, z.lens[l])),
           LensCounts(n)
    PROVE  Restarted(With(z, l, n), z, l, {n.pc})
BY WithIs DEF Restarted

LEMMA ThrowsIs ==
    ASSUME NEW z, IsExec(z), NEW l \in Lenses, NEW error
    PROVE  Restarted(Throws(z, l, error), z, l, {"threw"})
<1> DEFINE e == IF z.pc = "operating" THEN error ELSE "none"
           m == [IdleLens EXCEPT !.pc = "threw"]
           n == [m EXCEPT !.error = e]
<1>1. IsLens(m) /\ m.pc = "threw" /\ LensCounts(m)
  BY IdleLensIs, LensPcIs DEF LensCounts
<1>2. Throws(z, l, error) = With(z, l, n)
  BY DEF Throws
<1> HIDE DEF e, m
<1>3. IsLens(n) /\ n.pc = "threw" /\ LensCounts(n)
  BY <1>1, LensErrorIs DEF LensCounts
<1> HIDE DEF n
<1>4. QED
  BY <1>2, <1>3, RestartedIs

LEMMA FinishesIs ==
    ASSUME NEW z, IsExec(z), NEW l \in Lenses
    PROVE  Restarted(Finishes(z, l), z, l, {"done"})
<1> DEFINE n == [IdleLens EXCEPT !.pc = "done"]
<1>1. IsLens(n) /\ n.pc = "done" /\ LensCounts(n)
  BY IdleLensIs, LensPcIs DEF LensCounts
<1>2. Finishes(z, l) = With(z, l, n)
  BY DEF Finishes
<1> HIDE DEF n
<1>3. QED
  BY <1>1, <1>2, RestartedIs

LEMMA SendAgainIs ==
    ASSUME NEW z, IsExec(z), NEW l \in Lenses, LensCounts(z.lens[l])
    PROVE  Restarted(SendAgain(z, l), z, l, {"ask", "threw"})
<1>1. CASE ~z.aborted /\ z.lens[l].transport < Transports
  <2> DEFINE o == z.lens[l].output
             t == z.lens[l].transport + 1
             m == [IdleLens EXCEPT !.pc = "ask"]
             k == [m EXCEPT !.output = o]
             n == [k EXCEPT !.transport = t]
  <2>1. IsLens(m) /\ m.pc = "ask" /\ m.error = "none" /\ m.tokens \in Nat
    BY IdleLensIs, LensPcIs DEF LensCounts
  <2>0. o \in Nat /\ t \in Nat /\ z.lens[l].output = o /\ z.lens[l].transport < t
    BY DEF LensCounts
  <2>2. SendAgain(z, l) = With(z, l, n)
    BY <1>1 DEF SendAgain
  <2> HIDE DEF m, o, t
  <2>3. IsLens(k) /\ k.pc = "ask" /\ k.error = "none" /\ k.output = o /\ k.tokens \in Nat
    BY <2>1, LensOutputIs
  <2> HIDE DEF k
  <2>5. IsLens(n) /\ n.pc = "ask" /\ n.error = "none" /\ n.output = o /\ n.transport = t /\ n.tokens \in Nat
    BY <2>3, LensTransportIs
  <2> HIDE DEF n
  <2>7. LensCounts(n) /\ After(n, z.lens[l])
    BY <2>0, <2>5 DEF LensCounts, After
  <2>4. Restarted(SendAgain(z, l), z, l, {"ask"})
    BY <2>2, <2>5, <2>7, RestartedIs
  <2>6. QED
    BY <2>4 DEF Restarted
<1>2. CASE ~(~z.aborted /\ z.lens[l].transport < Transports)
  <2>1. \E error : SendAgain(z, l) = Throws(z, l, error)
    BY <1>2 DEF SendAgain
  <2>2. QED
    BY <2>1, ThrowsIs DEF Restarted
<1>3. QED
  BY <1>1, <1>2

LEMMA NextOutputIs ==
    ASSUME NEW z, IsExec(z), NEW l \in Lenses, LensCounts(z.lens[l])
    PROVE  Restarted(NextOutput(z, l), z, l, {"ask", "done", "threw"})
<1>1. CASE ~z.aborted /\ z.lens[l].output < Outputs[l]
  <2> DEFINE o == z.lens[l].output + 1
             m == [IdleLens EXCEPT !.pc = "ask"]
             n == [m EXCEPT !.output = o]
  <2>1. IsLens(m) /\ m.pc = "ask" /\ m.error = "none" /\ m.tokens \in Nat /\ m.transport \in Nat
    BY IdleLensIs, LensPcIs DEF LensCounts
  <2>0. o \in Nat /\ z.lens[l].output < o
    BY DEF LensCounts
  <2>2. NextOutput(z, l) = With(z, l, n)
    BY <1>1 DEF NextOutput
  <2> HIDE DEF m, o
  <2>5. /\ IsLens(n) /\ n.pc = "ask" /\ n.error = "none" /\ n.output = o
        /\ n.transport \in Nat /\ n.tokens \in Nat
    BY <2>1, LensOutputIs
  <2> HIDE DEF n
  <2>7. LensCounts(n) /\ After(n, z.lens[l])
    BY <2>0, <2>5 DEF LensCounts, After
  <2>4. Restarted(NextOutput(z, l), z, l, {"ask"})
    BY <2>2, <2>5, <2>7, RestartedIs
  <2>6. QED
    BY <2>4 DEF Restarted
<1>2. CASE ~(~z.aborted /\ z.lens[l].output < Outputs[l])
  <2>1. (\E error : NextOutput(z, l) = Throws(z, l, error)) \/ NextOutput(z, l) = Finishes(z, l)
    BY <1>2 DEF NextOutput
  <2>2. QED
    BY <2>1, ThrowsIs, FinishesIs DEF Restarted
<1>3. QED
  BY <1>1, <1>2

LEMMA AfterCallIs ==
    ASSUME NEW z, IsExec(z), NEW l \in Lenses, LensCounts(z.lens[l])
    PROVE  Restarted(AfterCall(z, l), z, l, {"ask", "done", "threw"})
<1>1. \/ AfterCall(z, l) = Finishes(z, l)
      \/ AfterCall(z, l) = NextOutput(z, l)
      \/ AfterCall(z, l) = SendAgain(z, l)
      \/ \E error : AfterCall(z, l) = Throws(z, l, error)
  BY DEF AfterCall
<1>2. /\ Restarted(Finishes(z, l), z, l, {"done"})
      /\ Restarted(NextOutput(z, l), z, l, {"ask", "done", "threw"})
      /\ Restarted(SendAgain(z, l), z, l, {"ask", "threw"})
      /\ \A error : Restarted(Throws(z, l, error), z, l, {"threw"})
  BY FinishesIs, NextOutputIs, SendAgainIs, ThrowsIs
<1>3. \A y : \/ Restarted(y, z, l, {"done"})
             \/ Restarted(y, z, l, {"ask", "threw"})
             \/ Restarted(y, z, l, {"threw"})
             => Restarted(y, z, l, {"ask", "done", "threw"})
  BY DEF Restarted
<1>4. QED
  BY <1>1, <1>2, <1>3

LEMMA TakeCardKeeps ==
    ASSUME RuntimeInv, NEW e \in Executions, NEW l \in Lenses, TakeCard(e, l)
    PROVE  RuntimeInv'
<1> DEFINE x == ex[e]
           n == [x.lens[l] EXCEPT !.pc = "ask"]
<1>1. /\ Sound(x) /\ IsExec(x) /\ x.lens[l].pc = "idle" /\ IsLens(x.lens[l])
      /\ x.lens[l].error = "none" /\ LensCounts(x.lens[l])
      /\ (x.pc = "operating" /\ AtLens(x)) \/ Started(x)
  BY DEF TakeCard, MayTake, RuntimeInv, Usage, UsageSound, AllSound, Sound, StageSound, IsExec, AtLens, Started
<1>2. Does(e, IF x.aborted THEN Throws(x, l, "timeout") ELSE With(x, l, n))
  BY DEF TakeCard
<1> HIDE DEF x
<1>3. IsLens(n) /\ n.pc = "ask" /\ n.error = "none" /\ LensCounts(n)
  BY <1>1, LensPcIs DEF LensCounts
<1> HIDE DEF n
<1>4. \A y : Restarted(y, x, l, {"ask", "threw"}) => Fine(x, y)
  BY <1>1, ResetKeeps DEF Restarted, LensStep
<1>5. Fine(x, Throws(x, l, "timeout")) /\ Fine(x, With(x, l, n))
  <2>1. Restarted(Throws(x, l, "timeout"), x, l, {"ask", "threw"})
    BY <1>1, ThrowsIs DEF Restarted
  <2>2. Restarted(With(x, l, n), x, l, {"ask", "threw"})
    BY <1>1, <1>3, RestartedIs DEF Restarted
  <2>3. QED
    BY <1>4, <2>1, <2>2
<1>6. QED
  BY <1>2, <1>5, DoesKeeps DEF x

LEMMA LedgerFailedKeeps ==
    ASSUME RuntimeInv, NEW e \in Executions, NEW l \in Lenses,
           ex[e].pc # "crashed", Mutating(ex[e], l), LedgerFailed(e, l)
    PROVE  RuntimeInv'
<1> DEFINE x == ex[e]
           z == Closed(x, "ledger")
           phase == x.save["ledger"].phase
<1>1. /\ Sound(x) /\ IsExec(x) /\ phase \in {"refused", "lost"} /\ faults \in Nat
      /\ LensCounts(x.lens[l])
      /\ Does(e, IF phase = "lost" THEN SendAgain(z, l) ELSE Throws(z, l, "broken"))
  BY DEF LedgerFailed, RuntimeInv, AllSound, Sound, Shape, Usage, UsageSound
<1>2. /\ IsExec(z) /\ z.pc = x.pc /\ z.at = x.at /\ z.aborted = x.aborted /\ z.memory = x.memory
      /\ z.lens = x.lens /\ z.save["ledger"].phase = "none" /\ z.save["run"] = x.save["run"]
      /\ z.cost = x.cost /\ z.tokens = x.tokens
  BY <1>1, ClosedIs DEF Places
<1>0. Mutating(x, l) /\ x.lens[l].pc # "idle"
  BY DEF Mutating
<1> HIDE DEF z, x
<1>3. \A y : Restarted(y, z, l, {"ask", "threw"}) /\ phase = "lost" => Fine(x, y)
  BY <1>0, <1>1, <1>2, FailedKeeps DEF Restarted, LensStep
<1>4. \A y : Restarted(y, z, l, {"threw"}) => Fine(x, y)
  BY <1>0, <1>1, <1>2, FailedKeeps DEF Restarted, LensStep
<1>5. CASE phase = "lost"
  <2>1. Fine(x, SendAgain(z, l))
    BY <1>1, <1>2, <1>3, <1>5, SendAgainIs
  <2>2. QED
    BY <1>1, <1>5, <2>1, DoesKeeps DEF x
<1>6. CASE phase # "lost"
  <2>1. Fine(x, Throws(z, l, "broken"))
    BY <1>2, <1>4, ThrowsIs
  <2>2. QED
    BY <1>1, <1>6, <2>1, DoesKeeps DEF x
<1>7. QED
  BY <1>5, <1>6

LEMMA ReserveCallKeeps ==
    ASSUME RuntimeInv, NEW e \in Executions, NEW l \in Lenses, ReserveCall(e, l)
    PROVE  RuntimeInv'
<1> DEFINE x == ex[e]
           c == LRow(x)
           call == Call(x, l)
           n == [x.lens[l] EXCEPT !.pc = "reserving"]
           z == With(x, l, n)
<1>1. /\ Sound(x) /\ IsExec(x) /\ x.pc # "crashed" /\ x.lens[l].pc = "ask"
      /\ x.save["ledger"].phase = "none" /\ IsLens(x.lens[l]) /\ IsRow(c)
      /\ x.lens[l].error = "none" /\ LensCounts(x.lens[l])
  BY PlanIs DEF ReserveCall, RuntimeInv, Usage, UsageSound, AllSound, Sound, StageSound, IsExec, LRow, LedgerFree
<1>2. Does(e, IF c.status # "running" \/ call \in Known(c) THEN Throws(x, l, "broken")
              ELSE IF Over(x, 1, Reserve)
              THEN Send([z EXCEPT !.lens[l].error = "budget"], "ledger", LensStage, Failed(c))
              ELSE Send(z, "ledger", LensStage,
                        Recorded(c, call, [status |-> "reserved", tokens |-> Reserve])))
  BY DEF ReserveCall, LRow
<1>3. IsLens(n) /\ n.pc = "reserving" /\ n.error = "none" /\ n.output = x.lens[l].output
      /\ n.transport = x.lens[l].transport /\ LensCounts(n)
  <2> HIDE DEF x
  <2>1. QED
    BY <1>1, LensPcIs DEF LensCounts
<1> HIDE DEF n, x
<1>4. /\ IsExec(z)
      /\ z.pc = x.pc /\ z.at = x.at /\ z.aborted = x.aborted /\ z.memory = x.memory
      /\ z.save = x.save /\ z.cost = x.cost /\ z.tokens = x.tokens
      /\ z.lens[l] = n
      /\ \A k \in Lenses : k # l => z.lens[k] = x.lens[k]
  BY <1>1, <1>3, WithIs
<1>5. CASE c.status # "running" \/ call \in Known(c)
  <2>1. Restarted(Throws(x, l, "broken"), x, l, {"threw"})
    BY <1>1, ThrowsIs
  <2>2. \A y : Restarted(y, x, l, {"threw"}) => Fine(x, y)
    BY <1>1, ResetKeeps DEF Restarted, LensStep
  <2>3. Does(e, Throws(x, l, "broken"))
    BY <1>2, <1>5
  <2>4. QED
    BY <2>1, <2>2, <2>3, DoesKeeps DEF x
<1>6. CASE ~(c.status # "running" \/ call \in Known(c)) /\ Over(x, 1, Reserve)
  <2> DEFINE m == [n EXCEPT !.error = "budget"]
             w == With(z, l, m)
             r == Failed(c)
             y == Send(w, "ledger", LensStage, r)
  <2>1. IsLens(m) /\ m.pc = "reserving" /\ m.error # "none" /\ m.output = x.lens[l].output
        /\ m.transport = x.lens[l].transport /\ LensCounts(m)
    BY <1>3, LensErrorIs DEF LensCounts
  <2>2. [z EXCEPT !.lens[l].error = "budget"] = w
    BY <1>4 DEF With
  <2>3. Does(e, y)
    BY <1>2, <1>6, <2>2
  <2> HIDE DEF m, z
  <2>4. /\ IsExec(w)
        /\ w.pc = z.pc /\ w.at = z.at /\ w.aborted = z.aborted /\ w.memory = z.memory
        /\ w.save = z.save /\ w.cost = z.cost /\ w.tokens = z.tokens
        /\ w.lens[l] = m
        /\ \A k \in Lenses : k # l => w.lens[k] = z.lens[k]
    BY <1>4, <2>1, WithIs
  <2>5. IsRow(r)
    BY <1>1, StatusIs DEF Failed
  <2> HIDE DEF w, r, c
  <2>6. /\ IsExec(y)
        /\ y.pc = w.pc /\ y.at = w.at /\ y.aborted = w.aborted /\ y.memory = w.memory
        /\ y.lens = w.lens /\ y.cost = w.cost /\ y.tokens = w.tokens
        /\ y.save["ledger"].phase = "sent" /\ y.save["ledger"].stage = LensStage
        /\ y.save["ledger"].row = r
        /\ y.save["run"] = w.save["run"]
    BY <2>4, <2>5, PlanIs, SendIs DEF Places
  <2> HIDE DEF y
  <2>7. LensStep(x, y, l) /\ Mutating(y, l) /\ Call(y, l) = Call(x, l)
    BY <1>4, <2>1, <2>4, <2>6 DEF LensStep, Mutating, Call
  <2>0. /\ y.lens[l] = m /\ y.cost = x.cost /\ y.tokens = x.tokens /\ y.memory = x.memory
        /\ y.save["ledger"].row = Failed(LRow(x))
    BY <1>4, <2>4, <2>6 DEF r, c
  <2>8. Fine(x, y)
    BY <1>1, <2>0, <2>1, <2>6, <2>7, MutateKeeps
  <2>9. QED
    BY <2>3, <2>8, DoesKeeps DEF x
<1>7. CASE ~(c.status # "running" \/ call \in Known(c)) /\ ~Over(x, 1, Reserve)
  <2> DEFINE r == Recorded(c, call, [status |-> "reserved", tokens |-> Reserve])
             y == Send(z, "ledger", LensStage, r)
  <2>3. Does(e, y)
    BY <1>2, <1>7
  <2>5. IsRow(r)
    BY <1>1, RecordedIs
  <2> HIDE DEF z, r, c, call
  <2>6. /\ IsExec(y)
        /\ y.pc = z.pc /\ y.at = z.at /\ y.aborted = z.aborted /\ y.memory = z.memory
        /\ y.lens = z.lens /\ y.cost = z.cost /\ y.tokens = z.tokens
        /\ y.save["ledger"].phase = "sent" /\ y.save["ledger"].stage = LensStage
        /\ y.save["ledger"].row = r
        /\ y.save["run"] = z.save["run"]
    BY <1>4, <2>5, PlanIs, SendIs DEF Places
  <2> HIDE DEF y
  <2>7. LensStep(x, y, l) /\ Mutating(y, l) /\ Reserving(y, l) /\ Call(y, l) = Call(x, l)
    BY <1>3, <1>4, <2>6 DEF LensStep, Mutating, Call, Reserving
  <2>0. /\ y.lens[l] = n /\ y.cost = x.cost /\ y.tokens = x.tokens /\ y.memory = x.memory
        /\ LRow(x).status = "running" /\ Call(x, l) \notin Known(LRow(x)) /\ ~Over(x, 1, Reserve)
        /\ y.save["ledger"].row = Recorded(LRow(x), Call(x, l), [status |-> "reserved", tokens |-> Reserve])
    BY <1>4, <1>7, <2>6 DEF r, c, call
  <2>8. Fine(x, y)
    BY <1>1, <1>3, <2>0, <2>6, <2>7, MutateKeeps
  <2>9. QED
    BY <2>3, <2>8, DoesKeeps DEF x
<1>8. QED
  BY <1>5, <1>6, <1>7

LEMMA CallEndsKeeps ==
    ASSUME RuntimeInv, NEW e \in Executions, NEW l \in Lenses, NEW end, NEW tokens,
           CallEnds(e, l, end, tokens), end = "aborted" => ex[e].aborted
    PROVE  RuntimeInv'
<1> DEFINE x == ex[e]
           a == [x.lens[l] EXCEPT !.pc = "settle"]
           b == [a EXCEPT !.end = end]
           n == [b EXCEPT !.tokens = tokens]
           y == With(x, l, n)
<1>1. /\ Sound(x) /\ IsExec(x) /\ x.lens[l].pc = "calling" /\ IsLens(x.lens[l])
      /\ LensCounts(x.lens[l])
  BY DEF CallEnds, RuntimeInv, Usage, UsageSound, AllSound, Sound, IsExec
<1>2. Does(e, y)
  BY DEF CallEnds
<1>0. (end = "aborted" => x.aborted) /\ tokens \in Nat
  BY StageRuntimeAssumption DEF CallEnds
<1> HIDE DEF x
<1>3. IsLens(a) /\ a.pc = "settle" /\ a.output = x.lens[l].output /\ a.transport = x.lens[l].transport
  BY <1>1, LensPcIs
<1> HIDE DEF a
<1>4. IsLens(b) /\ b.pc = "settle" /\ b.output = x.lens[l].output /\ b.transport = x.lens[l].transport
      /\ b.end = end
  BY <1>3, LensEndIs
<1> HIDE DEF b
<1>5. IsLens(n) /\ n.pc = "settle" /\ n.output = x.lens[l].output /\ n.transport = x.lens[l].transport
      /\ n.end = end /\ n.tokens = tokens
  BY <1>4, LensTokensIs
<1> HIDE DEF n
<1>6. /\ IsExec(y)
      /\ y.pc = x.pc /\ y.at = x.at /\ y.aborted = x.aborted /\ y.memory = x.memory
      /\ y.save = x.save /\ y.cost = x.cost /\ y.tokens = x.tokens
      /\ y.lens[l] = n
      /\ \A k \in Lenses : k # l => y.lens[k] = x.lens[k]
  BY <1>1, <1>5, WithIs
<1> HIDE DEF y
<1>7. LensStep(x, y, l) /\ Call(y, l) = Call(x, l) /\ LensCounts(y.lens[l])
  BY <1>0, <1>1, <1>5, <1>6 DEF LensStep, Call, LensCounts
<1>8. Fine(x, y)
  BY <1>0, <1>1, <1>5, <1>6, <1>7, CallEndKeeps
<1>9. QED
  BY <1>2, <1>8, DoesKeeps DEF x

LEMMA SettleCallKeeps ==
    ASSUME RuntimeInv, NEW e \in Executions, NEW l \in Lenses, SettleCall(e, l)
    PROVE  RuntimeInv'
<1> DEFINE x == ex[e]
           c == LRow(x)
           call == Call(x, l)
           n == [x.lens[l] EXCEPT !.pc = "settling"]
           z == With(x, l, n)
           r == Recorded(c, call, EntryFor(x.lens[l]))
           q == IF x.lens[l].end = "aborted" THEN Failed(r) ELSE r
           y == Send(z, "ledger", LensStage, q)
<1>1. /\ Sound(x) /\ IsExec(x) /\ x.pc # "crashed" /\ x.lens[l].pc = "settle"
      /\ x.save["ledger"].phase = "none" /\ IsLens(x.lens[l]) /\ IsRow(c)
      /\ LensCounts(x.lens[l])
  BY PlanIs DEF SettleCall, RuntimeInv, Usage, UsageSound, AllSound, Sound, IsExec, LRow, LedgerFree
<1>2. Does(e, IF call \notin Known(c) THEN Throws(x, l, "broken") ELSE y)
  BY DEF SettleCall, LRow
<1>3. IsLens(n) /\ n.pc = "settling" /\ n.output = x.lens[l].output
      /\ n.transport = x.lens[l].transport /\ n.end = x.lens[l].end /\ n.tokens = x.lens[l].tokens
      /\ LensCounts(n)
  <2> HIDE DEF x
  <2>1. QED
    BY <1>1, LensPcIs DEF LensCounts
<1> HIDE DEF n, x
<1>4. /\ IsExec(z)
      /\ z.pc = x.pc /\ z.at = x.at /\ z.aborted = x.aborted /\ z.memory = x.memory
      /\ z.save = x.save /\ z.cost = x.cost /\ z.tokens = x.tokens
      /\ z.lens[l] = n
      /\ \A k \in Lenses : k # l => z.lens[k] = x.lens[k]
  BY <1>1, <1>3, WithIs
<1>5. CASE call \notin Known(c)
  <2>1. Restarted(Throws(x, l, "broken"), x, l, {"threw"})
    BY <1>1, ThrowsIs
  <2>2. \A w : Restarted(w, x, l, {"threw"}) => Fine(x, w)
    BY <1>1, ResetKeeps DEF Restarted, LensStep
  <2>3. Does(e, Throws(x, l, "broken"))
    BY <1>2, <1>5
  <2>4. QED
    BY <2>1, <2>2, <2>3, DoesKeeps DEF x
<1>6. CASE call \in Known(c)
  <2>1. Does(e, y)
    BY <1>2, <1>6
  <2> HIDE DEF z, c, call
  <2>2. IsRow(r)
    BY <1>1, RecordedIs
  <2> HIDE DEF r
  <2>3. IsRow(q)
    BY <2>2, StatusIs DEF Failed
  <2>4. EntryFor(n) = EntryFor(x.lens[l])
    BY <1>3 DEF EntryFor
  <2>5. IF n.end = "aborted" THEN q = Failed(Recorded(c, call, EntryFor(n)))
                             ELSE q = Recorded(c, call, EntryFor(n))
    BY <1>3, <2>4 DEF r
  <2> HIDE DEF q
  <2>6. /\ IsExec(y)
        /\ y.pc = z.pc /\ y.at = z.at /\ y.aborted = z.aborted /\ y.memory = z.memory
        /\ y.lens = z.lens /\ y.cost = z.cost /\ y.tokens = z.tokens
        /\ y.save["ledger"].phase = "sent" /\ y.save["ledger"].stage = LensStage
        /\ y.save["ledger"].row = q
        /\ y.save["run"] = z.save["run"]
    BY <1>4, <2>3, PlanIs, SendIs DEF Places
  <2> HIDE DEF y
  <2>7. LensStep(x, y, l) /\ Mutating(y, l) /\ Call(y, l) = Call(x, l)
    BY <1>3, <1>4, <2>6 DEF LensStep, Mutating, Call
  <2>8. /\ y.lens[l].pc = "settling" /\ y.lens[l].end = x.lens[l].end
        /\ EntryFor(y.lens[l]) = EntryFor(x.lens[l])
        /\ IF y.lens[l].end = "aborted"
           THEN y.save["ledger"].row = Failed(Recorded(LRow(x), Call(x, l), EntryFor(y.lens[l])))
           ELSE y.save["ledger"].row = Recorded(LRow(x), Call(x, l), EntryFor(y.lens[l]))
    BY <1>3, <1>4, <2>4, <2>5, <2>6 DEF c, call
  <2>0. /\ y.lens[l] = n /\ y.cost = x.cost /\ y.tokens = x.tokens /\ y.memory = x.memory
        /\ Call(x, l) \in Known(LRow(x))
    BY <1>4, <1>6, <2>6 DEF c, call
  <2>9. Fine(x, y)
    BY <1>1, <1>3, <2>0, <2>6, <2>7, <2>8, MutateKeeps
  <2>10. QED
    BY <2>1, <2>9, DoesKeeps DEF x
<1>7. QED
  BY <1>5, <1>6

LEMMA CallSettledKeeps ==
    ASSUME RuntimeInv, NEW e \in Executions, NEW l \in Lenses, CallSettled(e, l)
    PROVE  RuntimeInv'
<1> DEFINE x == ex[e]
           a == Accepted(x, "ledger")
           t == (a.tokens + x.lens[l].tokens) - Reserve
           z == [a EXCEPT !.tokens = t]
<1>1. /\ Sound(x) /\ IsExec(x) /\ x.pc # "crashed" /\ x.lens[l].pc = "settling" /\ Mutating(x, l)
      /\ LensCounts(x.lens[l]) /\ x.tokens \in Int
  BY DEF CallSettled, RuntimeInv, Usage, UsageSound, AllSound, Sound, Mutating
<1>2. CASE LedgerFailed(e, l)
  BY <1>1, <1>2, LedgerFailedKeeps
<1>3. CASE x.save["ledger"].phase = "stored" /\ Does(e, AfterCall(z, l))
  <2> HIDE DEF x
  <2>1. x.save["ledger"].stage = LensStage
    BY <1>1, <1>3 DEF LedgerSound, Sound
  <2>2. /\ IsExec(a) /\ a.pc = x.pc /\ a.at = x.at /\ a.aborted = x.aborted /\ a.lens = x.lens
        /\ LRow(a) = x.save["ledger"].row
        /\ a.save["ledger"].phase = "none" /\ a.save["run"] = x.save["run"]
        /\ a.cost = x.cost /\ a.tokens = x.tokens
    BY <1>1, <2>1, AcceptedIs DEF Places, LRow
  <2> HIDE DEF a
  <2>0. t = x.tokens + More(x.lens[l])
    BY <1>1, <2>2, NumbersAre DEF More, LensCounts
  <2> HIDE DEF t
  <2>3. /\ IsExec(z) /\ z.pc = x.pc /\ z.at = x.at /\ z.aborted = x.aborted /\ z.lens = x.lens
        /\ LRow(z) = x.save["ledger"].row
        /\ z.save["ledger"].phase = "none" /\ z.save["run"] = x.save["run"]
        /\ z.cost = x.cost /\ z.tokens = x.tokens + More(x.lens[l])
    BY <2>0, <2>2, TokensIs DEF LRow
  <2> HIDE DEF z
  <2>4. \A y : Restarted(y, z, l, {"ask", "done", "threw"}) => Fine(x, y)
    BY <1>1, <1>3, <2>3, SettledKeeps DEF Restarted, LensStep, LRow
  <2>5. Fine(x, AfterCall(z, l))
    BY <1>1, <2>3, <2>4, AfterCallIs
  <2>6. QED
    BY <1>3, <2>5, DoesKeeps DEF x
<1>4. QED
  BY <1>2, <1>3 DEF CallSettled

\* The provider is called: the reservation is in the execution's copy.
LEMMA CalledSound ==
    ASSUME NEW x, NEW y, NEW l \in Lenses, LensStep(x, y, l), Sound(x), x.pc # "crashed",
           Reserving(x, l), x.save["ledger"].phase = "stored",
           y.lens[l].pc = "calling", Call(y, l) = Call(x, l),
           LRow(y) = x.save["ledger"].row, y.save["ledger"].phase = "none"
    PROVE  Sound(y)
<1>a. Mutating(x, l) /\ ~Mutating(y, l) /\ x.lens[l].pc = "reserving"
  BY DEF Mutating, Reserving
<1>0. /\ Stage(y) = Stage(x) /\ AtLens(x) /\ AtLens(y)
      /\ Started(y) /\ Working(x) /\ ~AllDone(x)
      /\ x.pc \in {"operating", "catching", "ended"}
      /\ y.pc = x.pc /\ y.aborted = x.aborted
      /\ SomeThrew(x) => SomeThrew(y)
      /\ \A k \in Lenses : k # l => /\ y.lens[k] = x.lens[k] /\ Call(y, k) = Call(x, k)
                                    /\ Call(x, k) # Call(x, l)
  BY <1>a, LensStepIs DEF LensStep
<1>00. \A k \in Lenses : ~Mutating(y, k)
  BY <1>0, <1>a DEF Sound, LedgerSound, Mutating
<1>01. LRow(y).attempts > 0 /\ LRow(y).status \in {"running", "failed"}
  BY DEF Sound, LedgerSound
<1>1. RunSound(y)
  BY <1>a, LensRunSound
<1>2. LedgerSound(y)
  BY <1>00 DEF LedgerSound, Mutating, Reserving
<1>3. UndisturbedSound(y)
  <2> SUFFICES ASSUME Undisturbed(y) PROVE UndisturbedSound(y)
    BY DEF UndisturbedSound
  <2> DEFINE q == LRow(x)
             call == Call(x, l)
             entry == [status |-> "reserved", tokens |-> Reserve]
  <2>1. Undisturbed(x)
    BY <1>0 DEF Undisturbed
  <2>2. LRow(y) = Recorded(q, call, entry) /\ IsRow(q)
    BY <2>1, PlanIs DEF UndisturbedSound, Sound, IsExec, LRow
  <2>3. /\ LRow(y).status = q.status /\ Known(LRow(y)) = Known(q) \cup {call}
        /\ LRow(y).ledger[call] = entry
        /\ \A c \in Known(q) : c # call => LRow(y).ledger[c] = q.ledger[c]
    <3> HIDE DEF q, call, entry
    <3>1. QED
      BY <2>2, RecordedIs
  <2>4. LRow(y).ledger[call].status = "reserved" /\ InFlight(y, call)
    BY <2>3 DEF InFlight
  <2>5. ASSUME NEW c \in Known(q), c # call
        PROVE  Accounted(LRow(y), c) \/ (LRow(y).ledger[c].status = "reserved" /\ InFlight(y, c))
    <3>1. Accounted(q, c) \/ (q.ledger[c].status = "reserved" /\ InFlight(x, c))
      BY <2>1 DEF UndisturbedSound, Sound
    <3>2. InFlight(x, c) => InFlight(y, c)
      BY <1>0, <2>5 DEF InFlight
    <3>3. QED
      BY <2>3, <2>5, <3>1, <3>2 DEF Accounted
  <2>6. q.status = "running"
    BY <2>1 DEF UndisturbedSound, Sound
  <2>7. QED
    BY <1>00, <2>3, <2>4, <2>5, <2>6 DEF UndisturbedSound, Reserving, Mutating
<1>4. StageSound(y)
  BY <1>0, <1>01 DEF StageSound, Sound, LensStep, Places
<1>5. QED
  BY <1>1, <1>2, <1>3, <1>4 DEF Sound, LensStep

LEMMA CalledKeeps ==
    ASSUME RuntimeInv, NEW e \in Executions, NEW l \in Lenses, NEW y,
           LensStep(ex[e], y, l), ex[e].pc # "crashed",
           Reserving(ex[e], l), ex[e].save["ledger"].phase = "stored",
           y.lens[l].pc = "calling", Call(y, l) = Call(ex[e], l),
           LRow(y) = ex[e].save["ledger"].row, y.save["ledger"].phase = "none",
           LensCounts(y.lens[l]), y.lens[l].output = ex[e].lens[l].output,
           y.lens[l].transport = ex[e].lens[l].transport,
           y.cost = ex[e].cost + 1, y.tokens = ex[e].tokens + Reserve,
           called' = [called EXCEPT ![Call(ex[e], l)] = @ + 1],
           ex' = [ex EXCEPT ![e] = y],
           UNCHANGED <<row, holder, live, settled, faults>>
    PROVE  RuntimeInv'
<1> DEFINE x == ex[e]
           call == Call(x, l)
<1>1. Sound(x) /\ Sound(y)
  BY CalledSound DEF RuntimeInv, AllSound
<1>2. /\ ex'[e] = y /\ \A d \in Executions : d # e => ex'[d] = ex[d]
      /\ ex' = [d \in Executions |-> ex'[d]]
  BY DEF RuntimeInv, Shape
<1>3. /\ \A c \in Calls : called[c] \in Nat /\ called'[c] = IF c = call THEN called[c] + 1 ELSE called[c]
      /\ called' = [c \in Calls |-> called'[c]]
  BY DEF RuntimeInv, Shape
<1>4. x.lens[l].pc = "reserving" /\ Pending(x, call)
  BY DEF Reserving, Pending, PendingAt
<1>5. Working(x) /\ ~Final(x) /\ y.pc \in {"operating", "catching", "ended"} /\ Working(y)
  <2>1. x.pc \in {"operating", "catching", "completing", "ended"} /\ x.pc # "completing"
    BY <1>1, <1>4, LensStepIs
  <2>2. QED
    BY <1>4, <2>1, PendingWorks DEF LensStep, Working, Started
<1>6. \A c : ~Pending(y, c)
  BY DEF Pending, PendingAt
<1>7. \A d \in Executions : Working(ex[d]) => d = e
  BY <1>5 DEF RuntimeInv, Shared, OneWorks
<1>8. \A d \in Executions : Working(ex'[d]) => d = e
  BY <1>2, <1>7
<1>9. \A d \in Executions : \A c : ~Pending(ex'[d], c)
  BY <1>2, <1>6, <1>8, PendingWorks
<1>10. \A c \in Calls : Committed(c)' => Committed(c)
  BY <1>3, <1>4, <1>9 DEF Committed
<1>11. \A c \in Calls : called'[c] <= 1
  BY <1>3, <1>4 DEF RuntimeInv, Shared, Once
<1>12. Shape'
  <2>1. \A c \in Calls : called'[c] \in Nat
    BY <1>3
  <2>2. QED
    BY <1>2, <1>3, <2>1 DEF RuntimeInv, Shape, Rows
<1>13. AllSound'
  <2> SUFFICES ASSUME NEW d \in Executions PROVE Sound(ex[d])'
    BY DEF AllSound
  <2>1. \A z : Sound(z) => Sound(z)'
    BY SoundStays DEF RuntimeInv, Shape
  <2>2. \A z : z = ex'[d] => Sound(z)
    BY <1>1, <1>2 DEF RuntimeInv, AllSound
  <2>3. QED
    BY <2>1, <2>2
<1>14. row[LensStage].attempts # 0 /\ row[LensStage].status # "completed"
  BY <1>5 DEF RuntimeInv, Shared, FreshRow, CompletedRow, AllFinal
<1>15. Shared'
  <2>1. FreshRow'
    BY <1>14 DEF FreshRow
  <2>2. StartsFresh'
    BY <1>2, <1>5, <1>8 DEF StartsFresh
  <2>3. OneWorks'
    BY <1>8 DEF OneWorks
  <2>4. Once'
    BY <1>9, <1>11 DEF Once
  <2>5. RunningRow'
    BY <1>10 DEF RuntimeInv, Shared, RunningRow, CommittedIn
  <2>6. CompletedRow'
    BY <1>14 DEF CompletedRow
  <2>7. QED
    BY <2>1, <2>2, <2>3, <2>4, <2>5, <2>6 DEF Shared
<1>16. HolderSound'
  <2> SUFFICES ASSUME holder \in Executions, ~settled PROVE Held(ex[holder])'
    BY DEF HolderSound
  <2>0. Held(ex[holder])
    BY DEF RuntimeInv, HolderSound
  <2>1. \A r : CommittedIn(r) => CommittedIn(r)'
    BY <1>10 DEF CommittedIn
  <2>2. CASE holder = e
    <3> SUFFICES \A z : z = y => Held(z)'
      BY <1>2, <2>2
    <3>1. x.save["ledger"].row.status = "running" /\ CommittedIn(x.save["ledger"].row)
      BY <1>1, <2>0, <2>2 DEF Held, Sound, LedgerSound
    <3>2. ~Mutating(y, l) /\ \A k \in Lenses : ~Reserving(y, k)
      BY <1>1, <1>4 DEF Sound, LedgerSound, Mutating, Reserving, LensStep
    <3>3. /\ y.save["run"] = x.save["run"] /\ AtLens(y) /\ y.pc # "enter"
          /\ LRow(y) = x.save["ledger"].row /\ y.save["ledger"].phase = "none"
      BY <1>1, <1>4, <1>5, LensStepIs DEF LensStep
    <3>4. ~(x.save["run"].phase = "sent" /\ x.save["run"].stage = LensStage
            /\ x.save["run"].row.status = "completed")
      BY <1>5, <2>0, <2>2 DEF Held
    <3>5. CommittedIn(LRow(y))'
      BY <2>1, <3>1, <3>3
    <3>6. ~(/\ x.save["run"].phase = "sent" /\ x.save["run"].stage = LensStage
            /\ x.save["run"].row.attempts = 0 \/ x.save["run"].row.status = "running")
      BY <2>0, <2>2 DEF Held
    <3>7. QED
      BY <3>2, <3>3, <3>4, <3>5, <3>6 DEF Held
  <2>3. CASE holder # e
    <3> DEFINE w == ex[holder]
    <3> SUFFICES \A z : z = w => Held(z)'
      BY <1>2, <2>3
    <3>1. ~(w.save["run"].phase = "sent" /\ w.save["run"].stage = LensStage
            /\ w.save["run"].row.status = "completed")
      BY <1>5, <2>0, <2>3 DEF Held
    <3>2. QED
      BY <1>10, <2>0, <2>1, <3>1 DEF Held
  <2>4. QED
    BY <2>2, <2>3
<1>17. Usage'
  <2>1. UsageSound(x) /\ UsageSound(y)
    BY <1>1, CalledPays DEF RuntimeInv, Usage
  <2>2. \A d \in Executions : UsageSound(ex'[d])
    BY <1>2, <2>1 DEF RuntimeInv, Usage
  <2>3. /\ IsFiniteSet(CalledSet) /\ Cardinality(CalledSet) <= x.cost /\ Cardinality(CalledSet) \in Nat
        /\ x.cost \in Nat /\ x.cost + 1 <= MaxCost
    BY <1>5, <2>1, FS_CardinalityType DEF RuntimeInv, Usage, Counted, UsageSound, CopiesWithin
  <2>4. CalledSet' = CalledSet \/ (call \notin CalledSet /\ CalledSet' = CalledSet \cup {call})
    <3>1. CASE call \in Calls
      <4>1. called[call] = 0 /\ called'[call] = 1
        BY <1>3, <1>4, <3>1 DEF RuntimeInv, Shared, Once
      <4>2. \A c \in Calls : called'[c] > 0 <=> called[c] > 0 \/ c = call
        BY <1>3, <4>1
      <4>3. QED
        BY <3>1, <4>1, <4>2 DEF CalledSet
    <3>2. CASE call \notin Calls
      BY <1>3, <3>2 DEF CalledSet
    <3>3. QED
      BY <3>1, <3>2
  <2>5. IsFiniteSet(CalledSet') /\ Cardinality(CalledSet') \in Nat /\ Cardinality(CalledSet') <= x.cost + 1
    <3> DEFINE C == CalledSet
               B == CalledSet'
    <3>1. /\ IsFiniteSet(C) /\ Cardinality(C) <= x.cost /\ Cardinality(C) \in Nat /\ x.cost \in Nat
          /\ B = C \/ (call \notin C /\ B = C \cup {call})
      BY <2>3, <2>4
    <3> HIDE DEF B, C, call
    <3>2. ASSUME B = C
          PROVE  IsFiniteSet(B) /\ Cardinality(B) \in Nat /\ Cardinality(B) <= x.cost + 1
      BY <3>1, <3>2
    <3>3. ASSUME call \notin C, B = C \cup {call}
          PROVE  IsFiniteSet(B) /\ Cardinality(B) \in Nat /\ Cardinality(B) <= x.cost + 1
      <4>1. IsFiniteSet(B) /\ Cardinality(B) = Cardinality(C) + 1
        BY <3>1, <3>3, FS_AddElement
      <4>2. QED
        BY <3>1, <4>1
    <3>4. QED
      BY <3>1, <3>2, <3>3 DEF B
  <2>6. Counted'
    BY <1>2, <1>8, <2>3, <2>5, NumbersAre DEF Counted
  <2>7. WithinBudget(row[LensStage])'
    BY DEF RuntimeInv, Usage, WithinBudget, Spent
  <2>8. QED
    BY <2>2, <2>6, <2>7 DEF Usage
<1>18. QED
  BY <1>12, <1>13, <1>15, <1>16, <1>17 DEF RuntimeInv

LEMMA ReservedKeeps ==
    ASSUME RuntimeInv, NEW e \in Executions, NEW l \in Lenses, Reserved(e, l)
    PROVE  RuntimeInv'
<1> DEFINE x == ex[e]
           a == Accepted(x, "ledger")
<1>1. /\ Sound(x) /\ IsExec(x) /\ x.pc # "crashed" /\ x.lens[l].pc = "reserving" /\ Mutating(x, l)
      /\ LensCounts(x.lens[l]) /\ x.tokens \in Int
  BY DEF Reserved, RuntimeInv, Usage, UsageSound, AllSound, Sound, Mutating
<1>2. CASE LedgerFailed(e, l)
  BY <1>1, <1>2, LedgerFailedKeeps
<1>3. ASSUME x.save["ledger"].phase = "stored"
      PROVE  /\ IsExec(a) /\ a.pc = x.pc /\ a.at = x.at /\ a.aborted = x.aborted /\ a.lens = x.lens
             /\ LRow(a) = x.save["ledger"].row
             /\ a.save["ledger"].phase = "none" /\ a.save["run"] = x.save["run"]
             /\ a.cost = x.cost /\ a.tokens = x.tokens
  <2>1. x.save["ledger"].stage = LensStage
    BY <1>1, <1>3 DEF LedgerSound, Sound
  <2> HIDE DEF x
  <2>2. QED
    BY <1>1, <2>1, AcceptedIs DEF Places, LRow
<1>4. CASE /\ x.save["ledger"].phase = "stored" /\ x.lens[l].error = "budget"
           /\ Does(e, Throws(a, l, "budget"))
  <2> HIDE DEF a
  <2>1. Restarted(Throws(a, l, "budget"), a, l, {"threw"})
    BY <1>3, <1>4, ThrowsIs
  <2>0. x.tokens = x.tokens + More(x.lens[l])
    BY <1>1, <1>4 DEF More
  <2>2. \A y : Restarted(y, a, l, {"threw"}) => Fine(x, y)
    BY <1>1, <1>3, <1>4, <2>0, SettledKeeps DEF Restarted, LensStep, LRow
  <2>3. QED
    BY <1>4, <2>1, <2>2, DoesKeeps
<1>5. CASE /\ x.save["ledger"].phase = "stored"
           /\ x.lens[l].error = "none"
           /\ called' = [called EXCEPT ![Call(x, l)] = @ + 1]
           /\ ex' = [ex EXCEPT ![e] = [a EXCEPT !.cost = @ + 1, !.tokens = @ + Reserve,
                                               !.lens[l].pc = "calling"]]
           /\ UNCHANGED <<row, holder, live, settled, faults>>
  <2> DEFINE c == a.cost + 1
             b == [a EXCEPT !.cost = c]
             t == b.tokens + Reserve
             w == [b EXCEPT !.tokens = t]
             n == [w.lens[l] EXCEPT !.pc = "calling"]
             y == With(w, l, n)
  <2>1. ex' = [ex EXCEPT ![e] = y]
    <3>1. [a EXCEPT !.cost = @ + 1, !.tokens = @ + Reserve, !.lens[l].pc = "calling"] = y
      BY DEF With
    <3>2. QED
      BY <1>5, <3>1
  <2> HIDE DEF a, c
  <2>2. /\ IsExec(b) /\ b.pc = x.pc /\ b.at = x.at /\ b.aborted = x.aborted /\ b.lens = x.lens
        /\ LRow(b) = x.save["ledger"].row
        /\ b.save["ledger"].phase = "none" /\ b.save["run"] = x.save["run"]
        /\ b.cost = x.cost + 1 /\ b.tokens = x.tokens
    BY <1>3, <1>5, CostIs DEF LRow, c
  <2>0. t = x.tokens + Reserve
    BY <2>2
  <2> HIDE DEF b, t
  <2>3. /\ IsExec(w) /\ w.pc = x.pc /\ w.at = x.at /\ w.aborted = x.aborted /\ w.lens = x.lens
        /\ LRow(w) = x.save["ledger"].row
        /\ w.save["ledger"].phase = "none" /\ w.save["run"] = x.save["run"]
        /\ w.cost = x.cost + 1 /\ w.tokens = x.tokens + Reserve
    BY <2>0, <2>2, TokensIs DEF LRow
  <2> HIDE DEF w
  <2>4. /\ IsLens(n) /\ n.pc = "calling" /\ LensCounts(n)
        /\ n.output = x.lens[l].output /\ n.transport = x.lens[l].transport
    <3>1. IsLens(w.lens[l])
      BY <2>3 DEF IsExec
    <3>2. QED
      BY <1>1, <2>3, <3>1, LensPcIs DEF LensCounts
  <2> HIDE DEF n
  <2>5. /\ IsExec(y)
        /\ y.pc = w.pc /\ y.at = w.at /\ y.aborted = w.aborted /\ y.memory = w.memory
        /\ y.save = w.save /\ y.cost = w.cost /\ y.tokens = w.tokens
        /\ y.lens[l] = n
        /\ \A k \in Lenses : k # l => y.lens[k] = w.lens[k]
    BY <2>3, <2>4, WithIs
  <2> HIDE DEF y
  <2>6. LensStep(x, y, l) /\ Reserving(x, l) /\ Call(y, l) = Call(x, l)
    BY <1>1, <1>5, <2>3, <2>4, <2>5 DEF LensStep, Reserving, Call
  <2>7. /\ y.lens[l].pc = "calling" /\ LRow(y) = x.save["ledger"].row /\ y.save["ledger"].phase = "none"
        /\ LensCounts(y.lens[l]) /\ y.lens[l].output = x.lens[l].output
        /\ y.lens[l].transport = x.lens[l].transport
        /\ y.cost = x.cost + 1 /\ y.tokens = x.tokens + Reserve
    BY <2>3, <2>4, <2>5 DEF LRow
  <2>8. QED
    BY <1>1, <1>5, <2>1, <2>6, <2>7, CalledKeeps
<1>6. QED
  BY <1>2, <1>4, <1>5 DEF Reserved

-----------------------------------------------------------------------------
(* Claims, crashes, the database and time. *)

LEMMA OffIs ==
    /\ IsExec(Off) /\ Off.pc = "off" /\ ~Off.aborted
    /\ \A l \in Lenses : Off.lens[l].pc = "idle" /\ Off.lens[l].error = "none"
    /\ \A p \in Places : Off.save[p].phase = "none"
    /\ LRow(Off).attempts = 0 /\ Known(LRow(Off)) = {}
    /\ LRow(Off) = NoRow /\ Off.cost = 0 /\ Off.tokens = 0
    /\ \A l \in Lenses : LensCounts(Off.lens[l])
<1>1. IsLens(IdleLens) /\ IdleLens.pc = "idle" /\ IdleLens.error = "none" /\ LensCounts(IdleLens)
  BY IdleLensIs
<1>2. IsSaving(NoSave) /\ NoSave.phase = "none"
  BY NoRowIs, PlanIs DEF NoSave, IsSaving
<1> DEFINE m == [s \in Stages |-> NoRow]
           f == [l \in Lenses |-> IdleLens]
           g == [p \in {"run", "ledger"} |-> NoSave]
<1>3. /\ m = [s \in Stages |-> m[s]] /\ \A s \in Stages : m[s] = NoRow
      /\ f = [l \in Lenses |-> f[l]] /\ \A l \in Lenses : f[l] = IdleLens
      /\ g = [p \in {"run", "ledger"} |-> g[p]] /\ \A p \in {"run", "ledger"} : g[p] = NoSave
  OBVIOUS
<1>4. Off = [pc |-> "off", at |-> 1, ceiling |-> 0, memory |-> m, cost |-> 0, tokens |-> 0,
             aborted |-> FALSE, outcome |-> "none", lens |-> f, save |-> g]
  BY DEF Off
<1> HIDE DEF m, f, g
<1>5. /\ Off.pc = "off" /\ Off.at = 1 /\ Off.ceiling = 0 /\ Off.memory = m /\ Off.cost = 0
      /\ Off.tokens = 0 /\ Off.aborted = FALSE /\ Off.outcome = "none" /\ Off.lens = f /\ Off.save = g
  BY <1>4
<1>6. 1 \in 1..Len(Plan)
  BY PlanIs
<1>7. IsExec(Off)
  BY <1>1, <1>2, <1>3, <1>4, <1>5, <1>6, NoRowIs DEF IsExec
<1>8. QED
  BY <1>1, <1>2, <1>3, <1>5, <1>7, NoRowIs, PlanIs DEF LRow, Places

\* An execution that has not begun, or crashed, or looks at its first stage.
LEMMA RestingSound ==
    ASSUME NEW y, IsExec(y), y.pc \in {"off", "enter", "crashed"}, ~y.aborted,
           \A l \in Lenses : y.lens[l].pc = "idle" /\ y.lens[l].error = "none",
           y.pc # "crashed" => \A p \in Places : y.save[p].phase = "none",
           LRow(y).attempts = 0 => Known(LRow(y)) = {}
    PROVE  /\ UndisturbedSound(y)
           /\ y.pc # "crashed" => RunSound(y) /\ LedgerSound(y)
           /\ (\A p \in Places : y.save[p].phase = "lost" => faults > 0) => StageSound(y)
           /\ ~Working(y) /\ \A c : ~Pending(y, c)
<1>1. ~Started(y)
  BY DEF Started
<1>2. UndisturbedSound(y)
  BY DEF UndisturbedSound, Undisturbed
<1>3. y.pc # "crashed" => RunSound(y) /\ LedgerSound(y)
  BY DEF RunSound, LedgerSound, Mutating, Reserving, Places
<1>4. (\A p \in Places : y.save[p].phase = "lost" => faults > 0) => StageSound(y)
  BY <1>1 DEF StageSound, Places
<1>5. ~Working(y) /\ \A c : ~Pending(y, c)
  BY <1>1 DEF Working, Pending, PendingAt, Reserving
<1>6. QED
  BY <1>2, <1>3, <1>4, <1>5

LEMMA NoRowPays ==
    WithinBudget(NoRow) /\ CostOf(NoRow) = 0 /\ TokensOf(NoRow) = 0 /\ NoRow.status # "running"
<1>1. IsFiniteSet(Known(NoRow)) /\ Known(NoRow) = {} /\ NoRow.status # "running"
  BY NoRowIs, FS_EmptySet
<1>2. Spent(NoRow) = 0 /\ CostOf(NoRow) = 0 /\ TokensOf(NoRow) = 0
  BY <1>1, SpentIs
<1>3. QED
  BY <1>1, <1>2, NumbersAre DEF WithinBudget

\* What such an execution has spent.
LEMMA RestingPays ==
    ASSUME NEW y, y.pc \in {"off", "enter", "crashed"},
           \A l \in Lenses : y.lens[l].pc = "idle" /\ LensCounts(y.lens[l]),
           y.cost \in Nat, y.tokens \in Int, Agrees(y), WithinBudget(LRow(y)), Paid(y, LRow(y), 0),
           y.save["run"].phase # "none" /\ y.save["run"].stage = LensStage =>
               WithinBudget(y.save["run"].row),
           y.save["ledger"].phase # "none" => WithinBudget(y.save["ledger"].row)
    PROVE  UsageSound(y)
<1>1. ~Working(y) /\ ~Undisturbed(y)
  BY DEF Working, Started, Undisturbed
<1>2. \A l \in Lenses : ~Mutating(y, l) /\ ~Reserving(y, l)
  BY DEF Mutating, Reserving
<1>3. CopiesWithin(y)
  BY <1>2 DEF CopiesWithin
<1>4. QED
  BY <1>1, <1>3 DEF UsageSound

LEMMA ClaimStep ==
    ASSUME RuntimeInv, NEW e \in Executions, NEW y, ex' = [ex EXCEPT ![e] = y],
           ~settled, holder' = e, UNCHANGED <<row, settled, called, faults>>,
           IsExec(y), y.pc = "enter", y.aborted = Off.aborted, y.lens = Off.lens,
           y.save = Off.save, y.memory = row,
           y.cost = CostOf(row[LensStage]), y.tokens = TokensOf(row[LensStage])
    PROVE  RuntimeInv'
<1>6. LRow(y) = row[LensStage] /\ (LRow(y).attempts = 0 => Known(LRow(y)) = {})
  BY DEF LRow, RuntimeInv, Shared, FreshRow
<1>7. Sound(y) /\ ~Working(y) /\ (\A d : ~Pending(y, d)) /\ \A p \in Places : y.save[p].phase = "none"
  <2>1. \A l \in Lenses : y.lens[l].pc = "idle" /\ y.lens[l].error = "none"
    BY OffIs
  <2>2. \A p \in Places : y.save[p].phase = "none"
    BY OffIs
  <2>3. ~y.aborted
    BY OffIs
  <2>4. QED
    BY <1>6, <2>1, <2>2, <2>3, RestingSound DEF Sound
<1>8. Quiet(ex[e], y)
  BY <1>7 DEF Quiet
<1>9. /\ Shape' /\ AllSound' /\ Shared'
      /\ \A d \in Calls : Committed(d)' => Committed(d)
      /\ \A d \in Executions : Working(ex[d])' => Working(ex[d])
      /\ ex'[e] = y /\ \A d \in Executions : d # e => ex'[d] = ex[d]
  <2>1. faults \in Nat /\ faults' \in Nat /\ faults' >= faults
    BY DEF RuntimeInv, Shape
  <2>2. Sound(y)'
    BY <1>7, <2>1, SoundStays
  <2>3. QED
    BY <1>8, <2>1, <2>2, SharedStays DEF RuntimeInv
<1>10. HolderSound'
  <2> SUFFICES \A z : z = y => Held(z)'
    BY <1>9 DEF HolderSound
  <2>1. LRow(y).status = "running" => CommittedIn(LRow(y))'
    BY <1>6, <1>9 DEF RuntimeInv, Shared, RunningRow, CommittedIn
  <2>2. y.save["run"].phase = "none" /\ y.save["ledger"].phase = "none"
    BY <1>7 DEF Places
  <2>3. row[LensStage]' = LRow(y)
    BY <1>6
  <2>4. QED
    BY <2>1, <2>2, <2>3 DEF Held
<1>11. Usage'
  <2>1. WithinBudget(LRow(y)) /\ y.cost = CostOf(LRow(y)) /\ y.tokens = TokensOf(LRow(y))
    BY <1>6 DEF RuntimeInv, Usage
  <2>2. y.cost \in Nat /\ y.tokens \in Nat /\ Spent(LRow(y)) \in Nat /\ Spent(LRow(y)) <= y.tokens
    BY <2>1, SpentIs DEF WithinBudget
  <2>3. Paid(y, LRow(y), 0) /\ Agrees(y)
    BY <2>1, <2>2 DEF Paid, Agrees
  <2>4. \A l \in Lenses : y.lens[l].pc = "idle" /\ LensCounts(y.lens[l])
    BY OffIs
  <2>5. y.save["run"].phase = "none" /\ y.save["ledger"].phase = "none"
    BY <1>7 DEF Places
  <2>6. UsageSound(y)
    BY <2>1, <2>2, <2>3, <2>4, <2>5, RestingPays
  <2>7. WithinBudget(row'[LensStage])
    BY DEF RuntimeInv, Usage
  <2>8. QED
    BY <1>7, <1>9, <2>6, <2>7, UsageStays DEF RuntimeInv
<1>12. QED
  BY <1>9, <1>10, <1>11 DEF RuntimeInv

LEMMA ClaimKeeps ==
    ASSUME RuntimeInv, NEW e \in Executions, Claim(e)
    PROVE  RuntimeInv'
<1> DEFINE a == [Off EXCEPT !.pc = "enter"]
           b == [a EXCEPT !.memory = row]
           k == CostOf(row[LensStage])
           c == [b EXCEPT !.cost = k]
           t == TokensOf(row[LensStage])
           y == [c EXCEPT !.tokens = t]
<1>0. ~settled /\ holder' = e /\ UNCHANGED <<row, settled, called, faults>>
  BY DEF Claim
<1>1. ex' = [ex EXCEPT ![e] = y]
  BY DEF Claim
<1>k. k = CostOf(row[LensStage]) /\ t = TokensOf(row[LensStage])
  OBVIOUS
<1> HIDE DEF k, t
<1>2. IsExec(a) /\ a.pc = "enter" /\ a.aborted = Off.aborted /\ a.lens = Off.lens /\ a.save = Off.save
  BY OffIs, PcIs
<1> HIDE DEF a
<1>3. IsExec(b) /\ b.pc = "enter" /\ b.aborted = Off.aborted /\ b.lens = Off.lens /\ b.save = Off.save
      /\ b.memory = row
  BY <1>2, MemoryIs DEF RuntimeInv, Shape, Rows
<1> HIDE DEF b
<1>4. IsExec(c) /\ c.pc = "enter" /\ c.aborted = Off.aborted /\ c.lens = Off.lens /\ c.save = Off.save
      /\ c.memory = row /\ c.cost = k
  BY <1>3, CostIs
<1> HIDE DEF c
<1>5. IsExec(y) /\ y.pc = "enter" /\ y.aborted = Off.aborted /\ y.lens = Off.lens /\ y.save = Off.save
      /\ y.memory = row /\ y.cost = k /\ y.tokens = t
  BY <1>4, TokensIs
<1> HIDE DEF y
<1>6. QED
  BY <1>0, <1>1, <1>5, <1>k, ClaimStep

LEMMA CrashStep ==
    ASSUME RuntimeInv, NEW e \in Executions, NEW y, ex' = [ex EXCEPT ![e] = y],
           UNCHANGED <<row, called, holder, settled>>,
           faults \in Nat, faults' \in Nat, faults' >= faults,
           ex[e].pc \notin {"off", "crashed"},
           IsExec(y), y.pc = "crashed", y.aborted = Off.aborted, y.lens = Off.lens,
           y.memory = Off.memory, y.save = ex[e].save,
           y.cost = 0, y.tokens = 0
    PROVE  RuntimeInv'
<1> DEFINE x == ex[e]
<1>1. Sound(x)
  BY DEF RuntimeInv, AllSound
<1>5. LRow(y) = LRow(Off)
  BY DEF LRow
<1>6. /\ \A l \in Lenses : y.lens[l].pc = "idle" /\ y.lens[l].error = "none"
      /\ ~y.aborted /\ LRow(y).attempts = 0 /\ Known(LRow(y)) = {}
  BY <1>5, OffIs
<1>7. /\ UndisturbedSound(y) /\ ~Working(y) /\ \A c : ~Pending(y, c)
      /\ (\A p \in Places : y.save[p].phase = "lost" => faults > 0) => StageSound(y)
  BY <1>6, RestingSound
<1>8. StageSound(y)
  BY <1>1, <1>5, <1>7 DEF Sound, StageSound, Places
<1>9. RunSound(y)
  BY <1>1, <1>5 DEF Sound, RunSound
<1>10. LedgerSound(y)
  BY <1>1, <1>5, <1>6 DEF Sound, LedgerSound, Mutating, Reserving
<1>11. Sound(y)' /\ Quiet(x, y)
  <2>1. Sound(y)
    BY <1>7, <1>8, <1>9, <1>10 DEF Sound
  <2>2. QED
    BY <1>7, <2>1, SoundStays DEF Quiet
<1>12. Held(x) => Held(y)
  BY <1>5, <1>6, <1>7 DEF Held, Reserving
<1>13. holder = e /\ ~settled => Held(y)
  BY <1>12 DEF RuntimeInv, HolderSound
<1>14. Pays(x, y)
  <2> SUFFICES ASSUME UsageSound(x) PROVE UsageSound(y)
    BY <1>7 DEF Pays
  <2>1. LRow(y) = NoRow /\ \A l \in Lenses : y.lens[l].pc = "idle" /\ LensCounts(y.lens[l])
    BY <1>5, OffIs
  <2>2. WithinBudget(LRow(y)) /\ Paid(y, LRow(y), 0) /\ Agrees(y)
    BY <2>1, NoRowPays DEF Paid, Agrees, AtWork
  <2>3. /\ y.save["run"].phase # "none" /\ y.save["run"].stage = LensStage =>
               WithinBudget(y.save["run"].row)
        /\ y.save["ledger"].phase # "none" => WithinBudget(y.save["ledger"].row)
    BY DEF UsageSound, CopiesWithin
  <2>4. y.cost \in Nat /\ y.tokens \in Int
    OBVIOUS
  <2>5. QED
    BY <2>1, <2>2, <2>3, <2>4, RestingPays
<1>15. QED
  BY <1>11, <1>13, <1>14, StepKeeps

LEMMA CrashKeeps ==
    ASSUME RuntimeInv, NEW e \in Executions, Crash(e)
    PROVE  RuntimeInv'
<1> DEFINE x == ex[e]
           a == [Off EXCEPT !.pc = "crashed"]
           f == x.save
           y == [a EXCEPT !.save = f]
<1>0. /\ UNCHANGED <<row, called, holder, settled>> /\ x.pc \notin {"off", "crashed"}
      /\ faults \in Nat /\ faults' \in Nat /\ faults' >= faults
  BY DEF Crash, RuntimeInv, Shape
<1>1. ex' = [ex EXCEPT ![e] = y] /\ Sound(x) /\ IsExec(x)
  BY DEF Crash, RuntimeInv, AllSound, Sound
<1> HIDE DEF x
<1>2. IsExec(a) /\ a.pc = "crashed" /\ a.aborted = Off.aborted /\ a.lens = Off.lens /\ a.memory = Off.memory
      /\ a.cost = 0 /\ a.tokens = 0
  BY OffIs, PcIs
<1> HIDE DEF a
<1>3. f = [p \in Places |-> f[p]] /\ \A p \in Places : IsSaving(f[p])
  BY <1>1 DEF IsExec, Places
<1> HIDE DEF f
<1>4. IsExec(y) /\ y.pc = "crashed" /\ y.aborted = Off.aborted /\ y.lens = Off.lens
      /\ y.memory = Off.memory /\ y.save = f /\ y.cost = 0 /\ y.tokens = 0
  BY <1>2, <1>3, SaveIs
<1> HIDE DEF y
<1>5. y.save = x.save
  BY <1>4 DEF f
<1>6. QED
  BY <1>0, <1>1, <1>4, <1>5, CrashStep DEF x

\* y is x with another phase of a save that was sent.
Answers(x, y, place, phase) ==
    /\ x.save[place].phase = "sent"
    /\ IsExec(y) /\ y.pc = x.pc /\ y.at = x.at /\ y.aborted = x.aborted /\ y.memory = x.memory
    /\ y.lens = x.lens /\ y.cost = x.cost /\ y.tokens = x.tokens
    /\ y.save[place].phase = phase /\ y.save[place].stage = x.save[place].stage
    /\ y.save[place].row = x.save[place].row
    /\ \A p \in Places : p # place => y.save[p] = x.save[p]

LEMMA AnswersIs ==
    ASSUME NEW x, IsExec(x), NEW place \in Places, NEW phase, x.save[place].phase = "sent"
    PROVE  Answers(x, [x EXCEPT !.save[place].phase = phase], place, phase)
<1> DEFINE v == x.save[place]
           w == [v EXCEPT !.phase = phase]
           f == [x.save EXCEPT ![place] = w]
           y == [x EXCEPT !.save = f]
<1>0. IsSaving(v) /\ \A p \in Places : IsSaving(x.save[p])
  BY DEF IsExec, Places
<1>1. w = [phase |-> phase, stage |-> v.stage, row |-> v.row]
  <2> HIDE DEF v
  <2>1. QED
    BY <1>0 DEF IsSaving
<1> HIDE DEF v, w
<1>2. w.phase = phase /\ w.stage = v.stage /\ w.row = v.row /\ IsSaving(w)
  BY <1>0, <1>1 DEF IsSaving
<1>3. /\ f[place] = w /\ f = [p \in Places |-> f[p]]
      /\ \A p \in Places : p # place => f[p] = x.save[p]
  BY DEF IsExec, Places
<1> HIDE DEF f
<1>4. \A p \in Places : IsSaving(f[p])
  BY <1>0, <1>2, <1>3
<1>5. /\ IsExec(y) /\ y.pc = x.pc /\ y.at = x.at /\ y.aborted = x.aborted /\ y.memory = x.memory
      /\ y.lens = x.lens /\ y.save = f /\ y.cost = x.cost /\ y.tokens = x.tokens
  BY <1>3, <1>4, SaveIs
<1>6. [x EXCEPT !.save[place].phase = phase] = y
  BY DEF f, w, v
<1> HIDE DEF y
<1>7. Answers(x, y, place, phase)
  BY <1>2, <1>3, <1>5 DEF Answers, v
<1>8. QED
  BY <1>6, <1>7

LEMMA AnswersSound ==
    ASSUME NEW x, NEW y, NEW place \in Places, NEW phase \in {"stored", "refused", "lost"},
           Answers(x, y, place, phase), Sound(x),
           faults \in Nat, faults' \in Nat, faults' >= faults, phase = "lost" => faults' > 0
    PROVE  /\ Sound(y)'
           /\ Stage(y) = Stage(x) /\ LRow(y) = LRow(x)
           /\ Started(y) <=> Started(x)
           /\ AllDone(y) <=> AllDone(x)
           /\ \A l \in Lenses : Call(y, l) = Call(x, l)
           /\ place = "run" \/ phase # "stored" => \A c : Pending(y, c) => Pending(x, c)
           /\ (Working(y) <=> Working(x))
                 \/ (place = "run" /\ phase = "stored" /\ x.pc = "starting" /\ AtLens(x))
<1>0. /\ Stage(y) = Stage(x) /\ (AtLens(y) <=> AtLens(x)) /\ LRow(y) = LRow(x)
      /\ (Started(y) <=> Started(x)) /\ (AllDone(y) <=> AllDone(x))
      /\ (SomeThrew(y) <=> SomeThrew(x))
      /\ \A l \in Lenses : Call(y, l) = Call(x, l)
  BY DEF Answers, Stage, AtLens, LRow, Started, AllDone, SomeThrew, Call
<1>1. Sound(x)'
  BY SoundStays
<1>2. \A p \in Places : /\ y.save[p].stage = x.save[p].stage /\ y.save[p].row = x.save[p].row
                        /\ y.save[p].phase = "none" <=> x.save[p].phase = "none"
  BY DEF Answers
<1>3. RunSound(y)
  <2>1. RunSound(x)
    BY DEF Sound
  <2>2. QED
    BY <1>0, <1>2, <2>1 DEF Answers, RunSound, Places
<1>4. LedgerSound(y)
  <2>1. LedgerSound(x)
    BY DEF Sound
  <2>2. QED
    BY <1>0, <1>2, <2>1 DEF Answers, LedgerSound, Mutating, Reserving, Places
<1>5. UndisturbedSound(y)'
  <2>1. UndisturbedSound(x)'
    BY <1>1 DEF Sound
  <2>2. Undisturbed(y) <=> Undisturbed(x)
    BY <1>0 DEF Answers, Undisturbed
  <2>3. \A c : InFlight(y, c) <=> InFlight(x, c)
    BY <1>0 DEF Answers, InFlight
  <2>4. \A l \in Lenses : Reserving(y, l) <=> Reserving(x, l)
    BY DEF Answers, Reserving
  <2>5. y.lens = x.lens /\ y.save["ledger"].row = x.save["ledger"].row
    BY <1>2 DEF Answers, Places
  <2>6. QED
    BY <1>0, <2>1, <2>2, <2>3, <2>4, <2>5 DEF UndisturbedSound, Accounted
<1>6. StageSound(y)'
  <2>1. StageSound(x)'
    BY <1>1 DEF Sound
  <2>2. \A p \in Places : y.save[p].phase = "lost" => faults' > 0
    BY <2>1 DEF StageSound, Answers, Places
  <2>3. QED
    BY <1>0, <2>1, <2>2 DEF StageSound, Answers, Places
<1>7. place = "run" \/ phase # "stored" => \A c : Pending(y, c) => Pending(x, c)
  BY <1>0 DEF Pending, PendingAt, Reserving, Answers, Places
<1>8. (Working(y) <=> Working(x)) \/ (place = "run" /\ phase = "stored" /\ x.pc = "starting" /\ AtLens(x))
  BY <1>0 DEF Working, Answers, Places
<1>9. Sound(y)'
  BY <1>3, <1>4, <1>5, <1>6 DEF Sound, Answers
<1>10. QED
  BY <1>0, <1>7, <1>8, <1>9

\* An answer leaves the usage alone; a stored start finds a ledger without calls.
LEMMA AnswersPays ==
    ASSUME NEW x, NEW y, NEW place \in Places, NEW phase \in {"stored", "refused", "lost"},
           Answers(x, y, place, phase), Sound(x), UsageSound(x)
    PROVE  UsageSound(y)
<1>1. /\ LRow(y) = LRow(x) /\ (AtLens(y) <=> AtLens(x)) /\ y.pc = x.pc /\ y.lens = x.lens
      /\ y.cost = x.cost /\ y.tokens = x.tokens
      /\ (Started(y) <=> Started(x)) /\ (SomeThrew(y) <=> SomeThrew(x))
      /\ \A l \in Lenses : Call(y, l) = Call(x, l)
  BY DEF Answers, Stage, AtLens, LRow, Started, SomeThrew, Call
<1>2. /\ y.save["run"].stage = x.save["run"].stage /\ y.save["run"].row = x.save["run"].row
      /\ y.save["run"].phase = "none" <=> x.save["run"].phase = "none"
      /\ y.save["ledger"].row = x.save["ledger"].row
      /\ y.save["ledger"].phase = "none" <=> x.save["ledger"].phase = "none"
  BY DEF Answers, Places
<1>3. Agrees(y)
  BY <1>1 DEF UsageSound, Agrees
<1>4. CopiesWithin(y)
  BY <1>1, <1>2 DEF UsageSound, CopiesWithin, Mutating, Reserving, Paid
<1>5. ASSUME Working(y), NEW l \in Lenses PROVE CopiesFollow(y, l)
  <2>1. CASE Working(x)
    <3>1. CopiesFollow(x, l)
      BY <2>1 DEF UsageSound
    <3>2. QED
      BY <1>1, <1>2, <3>1 DEF CopiesFollow
  <2>2. CASE ~Working(x)
    <3>1. x.pc = "starting" /\ AtLens(x) /\ ~Started(x)
      BY <1>1, <1>5, <2>2 DEF Working
    <3>2. /\ LRow(x).attempts = 0 /\ Known(LRow(x)) = {} /\ IsRow(LRow(x))
          /\ x.save["ledger"].phase = "none"
      BY <3>1, Unstarted, PlanIs DEF Sound, RunSound, StageSound, IsExec, LRow
    <3>3. Known(x.save["run"].row) = {}
      <4> DEFINE c == LRow(x)
      <4>1. x.save["run"].row = [c EXCEPT !.status = "running", !.attempts = @ + 1]
        BY <3>1 DEF Sound, RunSound
      <4>2. IsRow(c) /\ Known(c) = {}
        BY <3>2
      <4> HIDE DEF c
      <4>3. QED
        BY <4>1, <4>2, StartedRowIs DEF Known
    <3>4. QED
      BY <1>1, <1>2, <3>2, <3>3 DEF CopiesFollow, InMemory, Follows
  <2>3. QED
    BY <2>1, <2>2
<1>6. Undisturbed(y) => \A l \in Lenses : y.lens[l].pc \in InCalls => Call(y, l) \in Known(LRow(y))
  BY <1>1 DEF UsageSound, Undisturbed
<1>7. QED
  BY <1>1, <1>3, <1>4, <1>5, <1>6 DEF UsageSound

\* A request that comes to nothing.
LEMMA NothingStored ==
    ASSUME RuntimeInv, NEW e \in Executions, NEW y, ex' = [ex EXCEPT ![e] = y],
           UNCHANGED <<row, called, holder, settled>>,
           faults' \in Nat, faults' >= faults,
           NEW place \in Places, NEW phase \in {"refused", "lost"}, phase = "lost" => faults' > 0,
           Answers(ex[e], y, place, phase)
    PROVE  RuntimeInv'
<1> DEFINE x == ex[e]
<1>0. Sound(x) /\ faults \in Nat
  BY DEF RuntimeInv, AllSound, Shape
<1>1. /\ Sound(y)' /\ Stage(y) = Stage(x) /\ LRow(y) = LRow(x)
      /\ AllDone(y) <=> AllDone(x)
      /\ \A l \in Lenses : Call(y, l) = Call(x, l)
      /\ \A c : Pending(y, c) => Pending(x, c)
      /\ Working(y) <=> Working(x)
  BY <1>0, AnswersSound
<1>2. Quiet(x, y)
  BY <1>1 DEF Quiet, Final, Answers
<1>3. Held(x) => Held(y)
  <2>1. AtLens(y) <=> AtLens(x)
    BY <1>1 DEF AtLens
  <2>2. \A p \in Places : /\ y.save[p].stage = x.save[p].stage /\ y.save[p].row = x.save[p].row
                          /\ y.save[p].phase \in {"sent", "stored"} => y.save[p].phase = x.save[p].phase
                          /\ x.save[p].phase = "none" => y.save[p].phase = "none"
                          /\ x.save[p].phase = "stored" => y.save[p].phase = "stored"
    BY DEF Answers
  <2>3. QED
    BY <1>1, <2>1, <2>2 DEF Held, Reserving, Answers, Final, Places
<1>4. Pays(x, y)
  <2>1. UsageSound(x) => UsageSound(y)
    BY <1>0, AnswersPays
  <2>2. y.cost = x.cost
    BY DEF Answers
  <2>3. QED
    BY <2>1, <2>2 DEF Pays
<1>5. QED
  BY <1>1, <1>2, <1>3, <1>4, StepKeeps DEF RuntimeInv, HolderSound

LEMMA RequestLostKeeps ==
    ASSUME RuntimeInv, NEW e \in Executions, NEW place \in Places, RequestLost(e, place)
    PROVE  RuntimeInv'
<1> DEFINE x == ex[e]
           y == [x EXCEPT !.save[place].phase = "lost"]
<1>1. /\ UNCHANGED <<row, called, holder, settled>> /\ x.save[place].phase = "sent"
      /\ faults' \in Nat /\ faults' >= faults /\ faults' > 0 /\ IsExec(x)
  BY DEF RequestLost, RuntimeInv, Shape, AllSound, Sound
<1>2. ex' = [ex EXCEPT ![e] = y]
  BY DEF RequestLost
<1>3. Answers(x, y, place, "lost")
  BY <1>1, AnswersIs
<1> HIDE DEF y
<1>4. QED
  BY <1>1, <1>2, <1>3, NothingStored

\* The parts of the row's facts that a stored row changes.
LEMMA StoredShape ==
    ASSUME RuntimeInv, NEW e \in Executions, NEW y, ex' = [ex EXCEPT ![e] = y],
           UNCHANGED called, faults' \in Nat, faults' >= faults, Sound(y)',
           NEW s \in Stages, NEW r, IsRow(r), row' = [row EXCEPT ![s] = r]
    PROVE  /\ Shape' /\ AllSound'
           /\ ex'[e] = y /\ \A d \in Executions : d # e => ex'[d] = ex[d]
           /\ row'[s] = r /\ \A t \in Stages : t # s => row'[t] = row[t]
<1>1. /\ ex'[e] = y /\ \A d \in Executions : d # e => ex'[d] = ex[d]
      /\ ex' = [d \in Executions |-> ex'[d]]
  BY DEF RuntimeInv, Shape
<1>2. /\ row'[s] = r /\ \A t \in Stages : t # s => row'[t] = row[t]
      /\ row' = [t \in Stages |-> row'[t]]
  BY DEF RuntimeInv, Shape, Rows
<1>3. \A t \in Stages : IsRow(row'[t])
  BY <1>2 DEF RuntimeInv, Shape, Rows
<1>4. Shape'
  BY <1>1, <1>2, <1>3 DEF RuntimeInv, Shape, Rows
<1>5. AllSound'
  <2> SUFFICES ASSUME NEW d \in Executions PROVE Sound(ex[d])'
    BY DEF AllSound
  <2>1. \A z : Sound(z) => Sound(z)'
    BY SoundStays DEF RuntimeInv, Shape
  <2>2. CASE d = e
    BY <1>1, <2>2
  <2>3. CASE d # e
    <3>1. \A z : z = ex[d] => Sound(z)'
      BY <2>1 DEF RuntimeInv, AllSound
    <3>2. QED
      BY <1>1, <2>3, <3>1
  <2>4. QED
    BY <2>2, <2>3
<1>6. QED
  BY <1>1, <1>2, <1>4, <1>5

\* A checkpoint of the holder is stored.
Stored(e, y, place, phase) ==
    LET v == ex[e].save[place] IN
    /\ ex' = [ex EXCEPT ![e] = y] /\ row' = [row EXCEPT ![v.stage] = v.row]
    /\ holder = e /\ ~settled /\ UNCHANGED <<holder, settled, called>>
    /\ faults' \in Nat /\ faults' >= faults /\ (phase = "lost" => faults' > 0)
    /\ Answers(ex[e], y, place, phase)

LEMMA StoredIs ==
    ASSUME RuntimeInv, NEW e \in Executions, NEW y, NEW place \in Places,
           NEW phase \in {"stored", "lost"}, Stored(e, y, place, phase)
    PROVE  LET x == ex[e]
               v == x.save[place]
           IN
           /\ Shape' /\ AllSound' /\ Held(x) /\ Sound(x)
           /\ ex'[e] = y /\ \A d \in Executions : d # e => ex'[d] = ex[d]
           /\ v.stage \in Stages /\ IsRow(v.row)
           /\ row'[v.stage] = v.row /\ \A t \in Stages : t # v.stage => row'[t] = row[t]
           /\ Stage(y) = Stage(x) /\ LRow(y) = LRow(x) /\ (AtLens(y) <=> AtLens(x))
           /\ AllDone(y) <=> AllDone(x)
           /\ \A l \in Lenses : Call(y, l) = Call(x, l)
           /\ place = "run" \/ phase # "stored" => \A c : Pending(y, c) => Pending(x, c)
           /\ (Working(y) <=> Working(x))
                 \/ (place = "run" /\ phase = "stored" /\ x.pc = "starting" /\ AtLens(x))
           /\ UsageSound(y) /\ y.cost = x.cost /\ (v.stage = LensStage => WithinBudget(v.row))
<1> DEFINE x == ex[e]
           v == x.save[place]
<1>1. Sound(x) /\ faults \in Nat /\ Held(x)
  BY DEF RuntimeInv, AllSound, Shape, HolderSound, Stored
<1>2. v.stage \in Stages /\ IsRow(v.row)
  BY <1>1 DEF Sound, IsExec, IsSaving, Places
<1>3. /\ Sound(y)'
      /\ Stage(y) = Stage(x) /\ LRow(y) = LRow(x)
      /\ Started(y) <=> Started(x)
      /\ AllDone(y) <=> AllDone(x)
      /\ \A l \in Lenses : Call(y, l) = Call(x, l)
      /\ place = "run" \/ phase # "stored" => \A c : Pending(y, c) => Pending(x, c)
      /\ (Working(y) <=> Working(x))
            \/ (place = "run" /\ phase = "stored" /\ x.pc = "starting" /\ AtLens(x))
  BY <1>1, AnswersSound DEF Stored
<1>4. /\ Shape' /\ AllSound'
      /\ ex'[e] = y /\ \A d \in Executions : d # e => ex'[d] = ex[d]
      /\ row'[v.stage] = v.row /\ \A t \in Stages : t # v.stage => row'[t] = row[t]
  <2>1. /\ ex' = [ex EXCEPT ![e] = y] /\ row' = [row EXCEPT ![v.stage] = v.row]
        /\ UNCHANGED called /\ faults' \in Nat /\ faults' >= faults
    BY DEF Stored
  <2>2. RuntimeInv /\ Sound(y)' /\ v.stage \in Stages /\ IsRow(v.row)
    BY <1>2, <1>3
  <2> HIDE DEF v, x
  <2>3. QED
    BY ONLY <2>1, <2>2, StoredShape, e \in Executions
<1>5. UsageSound(y) /\ y.cost = x.cost /\ (v.stage = LensStage => WithinBudget(v.row))
  <2>1. UsageSound(x)
    BY DEF RuntimeInv, Usage
  <2>2. UsageSound(y)
    BY <1>1, <2>1, AnswersPays DEF Stored
  <2>3. v.phase = "sent" /\ y.cost = x.cost
    BY DEF Stored, Answers
  <2>4. v.stage = LensStage => WithinBudget(v.row)
    BY <2>1, <2>3 DEF UsageSound, CopiesWithin, Places
  <2>5. QED
    BY <2>2, <2>3, <2>4
<1>6. QED
  BY <1>1, <1>2, <1>3, <1>4, <1>5 DEF AtLens

\* A checkpoint of another stage.
LEMMA OtherStored ==
    ASSUME RuntimeInv, NEW e \in Executions, NEW y, NEW place \in Places,
           NEW phase \in {"stored", "lost"}, Stored(e, y, place, phase),
           ex[e].save[place].stage # LensStage
    PROVE  RuntimeInv'
<1> DEFINE x == ex[e]
<1>1. /\ Shape' /\ AllSound' /\ Held(x) /\ Sound(x)
      /\ ex'[e] = y /\ \A d \in Executions : d # e => ex'[d] = ex[d]
      /\ row'[LensStage] = row[LensStage]
      /\ LRow(y) = LRow(x) /\ (AtLens(y) <=> AtLens(x)) /\ (AllDone(y) <=> AllDone(x))
      /\ \A l \in Lenses : Call(y, l) = Call(x, l)
  BY StoredIs, PlanIs
<1>2. place = "run"
  BY <1>1 DEF Sound, LedgerSound, Stored, Answers, Places
<1>3. x.pc = "starting" => ~AtLens(x)
  BY <1>1, <1>2 DEF Sound, RunSound, AtLens
<1>4. (\A c : Pending(y, c) => Pending(x, c)) /\ (Working(y) <=> Working(x))
  BY <1>2, <1>3, StoredIs
<1>5. /\ \A d \in Executions, c \in Calls : Pending(ex'[d], c) => Pending(ex[d], c)
      /\ \A d \in Executions : Working(ex'[d]) => Working(ex[d])
      /\ \A d \in Executions : Working(ex'[d]) /\ Final(ex[d]) => Final(ex'[d])
      /\ \A d \in Executions : ex'[d].pc = "starting" => ex[d].pc = "starting"
  BY <1>1, <1>4 DEF Final, Stored, Answers
<1>6. \A c \in Calls : Committed(c)' => Committed(c)
  BY <1>5 DEF Committed, Stored
<1>7. Shared'
  <2>1. FreshRow'
    BY <1>1, <1>5 DEF RuntimeInv, Shared, FreshRow, Uncalled, Stored
  <2>2. StartsFresh'
    BY <1>5 DEF RuntimeInv, Shared, StartsFresh, Uncalled, Stored
  <2>3. OneWorks'
    BY <1>5 DEF RuntimeInv, Shared, OneWorks
  <2>4. Once'
    BY <1>5 DEF RuntimeInv, Shared, Once, Stored
  <2>5. RunningRow'
    BY <1>1, <1>6 DEF RuntimeInv, Shared, RunningRow, CommittedIn
  <2>6. CompletedRow'
    BY <1>1, <1>5, SMTT(30) DEF RuntimeInv, Shape, Shared, CompletedRow, AllFinal, AllAccounted, Accounted, Stored
  <2>7. QED
    BY <2>1, <2>2, <2>3, <2>4, <2>5, <2>6 DEF Shared
<1>8. HolderSound'
  <2> SUFFICES \A z : z = y => Held(z)'
    BY <1>1 DEF HolderSound, Stored
  <2>1. \A r : CommittedIn(r) => CommittedIn(r)'
    BY <1>6 DEF CommittedIn
  <2>2. y.save["run"].stage # LensStage /\ y.save["ledger"] = x.save["ledger"]
    BY <1>2 DEF Stored, Answers, Places
  <2>3. \A l \in Lenses : Reserving(y, l) <=> Reserving(x, l)
    BY DEF Stored, Answers, Reserving
  <2>4. y.pc = x.pc
    BY DEF Stored, Answers
  <2>5. QED
    BY <1>1, <1>6, <2>1, <2>2, <2>3, <2>4 DEF Held
<1>9. Usage'
  <2>1. UsageSound(y) /\ y.cost = x.cost /\ called' = called
    <3>1. UsageSound(y) /\ y.cost = x.cost
      BY StoredIs
    <3>2. QED
      BY <3>1 DEF Stored
  <2>2. WithinBudget(row'[LensStage])
    BY <1>1 DEF RuntimeInv, Usage
  <2>3. QED
    BY <1>1, <1>4, <2>1, <2>2, UsageStays DEF RuntimeInv
<1>10. QED
  BY <1>1, <1>7, <1>8, <1>9 DEF RuntimeInv

\* A checkpoint of the lens stage that run sent: its start, its end or its failure.
LEMMA RunStored ==
    ASSUME RuntimeInv, NEW e \in Executions, NEW y,
           NEW phase \in {"stored", "lost"}, Stored(e, y, "run", phase),
           ex[e].save["run"].stage = LensStage
    PROVE  RuntimeInv'
<1> DEFINE x == ex[e]
           r == x.save["run"].row
<1>0. "run" \in Places
  BY DEF Places
<1>1. /\ Shape' /\ AllSound' /\ Held(x) /\ Sound(x)
      /\ ex'[e] = y /\ \A d \in Executions : d # e => ex'[d] = ex[d]
      /\ row'[LensStage] = r /\ IsRow(r)
      /\ LRow(y) = LRow(x) /\ (AtLens(y) <=> AtLens(x)) /\ (AllDone(y) <=> AllDone(x))
      /\ \A l \in Lenses : Call(y, l) = Call(x, l)
      /\ \A c : Pending(y, c) => Pending(x, c)
      /\ (Working(y) <=> Working(x)) \/ (x.pc = "starting" /\ AtLens(x))
  BY <1>0, StoredIs
<1>2. /\ y.pc = x.pc /\ y.save["ledger"] = x.save["ledger"] /\ x.save["run"].phase = "sent"
      /\ y.save["run"].phase \in {"stored", "lost"} /\ called' = called
      /\ holder = e /\ holder' = e /\ ~settled
  BY DEF Stored, Answers, Places
<1>3. /\ r.status \in {"running", "completed", "failed"}
      /\ r.status = "running" => r.attempts = 1 /\ Known(r) = {}
      /\ r.status = "completed" => r.attempts > 0
      /\ r.attempts = 0 => Known(r) = {}
      /\ x.pc = "starting" /\ AtLens(x) => r.status = "running"
  <2>1. RunSound(x) /\ IsRow(LRow(x))
    BY <1>1, PlanIs DEF Sound, IsExec, LRow
  <2>2. x.pc = "starting" /\ AtLens(x) => r.status = "running"
    <3> DEFINE c == LRow(x)
    <3>1. x.pc = "starting" /\ AtLens(x) => r = [c EXCEPT !.status = "running", !.attempts = @ + 1]
      BY <2>1 DEF RunSound
    <3> HIDE DEF c, r
    <3>2. QED
      BY <2>1, <3>1, StartedRowIs DEF c
  <2>3. QED
    BY <1>2, <2>1, <2>2 DEF RunSound
<1>4. /\ \A d \in Executions, c \in Calls : Pending(ex'[d], c) => Pending(ex[d], c)
      /\ \A d \in Executions : d # e => (Working(ex'[d]) <=> Working(ex[d]))
      /\ \A d \in Executions : Final(ex[d]) => Final(ex'[d])
      /\ \A d \in Executions : ex'[d].pc = ex[d].pc
  BY <1>1, <1>2 DEF Final
<1>5. \A c \in Calls : Committed(c)' => Committed(c)
  BY <1>2, <1>4 DEF Committed
<1>6. ASSUME r.status = "running" \/ r.attempts = 0
      PROVE  Uncalled /\ (\A d \in Executions : ~Working(ex[d])) /\ \A c \in Calls : ~Committed(c)
  <2>1. row[LensStage].attempts = 0
    BY <1>1, <1>2, <1>6 DEF Held
  <2>2. Uncalled /\ \A d \in Executions : ~Working(ex[d])
    BY <2>1 DEF RuntimeInv, Shared, FreshRow
  <2>3. \A c \in Calls : ~Committed(c)
    BY <2>2, PendingWorks DEF Committed, Uncalled
  <2>4. QED
    BY <2>2, <2>3
<1>7. Shared'
  <2>1. FreshRow'
    BY <1>1, <1>2, <1>3, <1>4, <1>6 DEF FreshRow, Uncalled
  <2>2. StartsFresh'
    BY <1>1, <1>2, <1>3, <1>4, <1>6 DEF RuntimeInv, Shared, StartsFresh, Uncalled
  <2>3. OneWorks'
    BY <1>1, <1>3, <1>4, <1>6 DEF RuntimeInv, Shared, OneWorks
  <2>4. Once'
    BY <1>2, <1>4 DEF RuntimeInv, Shared, Once
  <2>5. RunningRow'
    BY <1>1, <1>5, <1>6 DEF RunningRow, CommittedIn
  <2>6. CompletedRow'
    <3> SUFFICES ASSUME r.status = "completed" PROVE CompletedRow'
      BY <1>1 DEF CompletedRow
    <3>1. /\ Working(x) => Final(x)
          /\ \A d \in Executions \ {holder} : ~Working(ex[d])
          /\ AllAccounted(r)
      BY <1>1, <1>2 DEF Held
    <3>2. AllFinal'
      BY <1>1, <1>2, <1>3, <1>4, <3>1 DEF AllFinal
    <3>4. \A q : q = r => AllAccounted(q)'
      BY <1>2, <3>1 DEF AllAccounted, Accounted, RuntimeInv, Shape, Stored
    <3>5. QED
      BY <1>1, <1>3, <3>2, <3>4 DEF CompletedRow
  <2>7. QED
    BY <2>1, <2>2, <2>3, <2>4, <2>5, <2>6 DEF Shared
<1>8. HolderSound'
  <2> SUFFICES \A z : z = y => Held(z)'
    BY <1>1, <1>2 DEF HolderSound
  <2>1. \A q : CommittedIn(q) => CommittedIn(q)'
    BY <1>5 DEF CommittedIn
  <2>2. \A l \in Lenses : Reserving(y, l) <=> Reserving(x, l)
    BY DEF Stored, Answers, Reserving
  <2>3. y.pc \notin {"off", "crashed", "ended"} => AtLens(y) /\ y.pc # "enter"
    BY <1>1, <1>2 DEF Sound, RunSound, AtLens
  <2>4. QED
    BY <1>1, <1>2, <1>5, <2>1, <2>2, <2>3 DEF Held
<1>9. Usage'
  <2>1. UsageSound(y) /\ y.cost = x.cost /\ WithinBudget(r)
    BY <1>0, StoredIs
  <2>2. Working(y) => Working(x) \/ Uncalled
    BY <1>1, <1>3, <1>6
  <2>3. WithinBudget(row'[LensStage])
    BY <1>1, <2>1
  <2>4. QED
    BY <1>1, <1>2, <2>1, <2>2, <2>3, UsageStays DEF RuntimeInv
<1>10. QED
  BY <1>1, <1>7, <1>8, <1>9 DEF RuntimeInv

\* A mutation of the ledger is stored.
LEMMA LedgerStored ==
    ASSUME RuntimeInv, NEW e \in Executions, NEW y,
           NEW phase \in {"stored", "lost"}, Stored(e, y, "ledger", phase),
           ex[e].save["ledger"].stage = LensStage
    PROVE  RuntimeInv'
<1> DEFINE x == ex[e]
           r == x.save["ledger"].row
<1>0. "ledger" \in Places /\ "run" \in Places
  BY DEF Places
<1>1. /\ Shape' /\ AllSound' /\ Held(x) /\ Sound(x)
      /\ ex'[e] = y /\ \A d \in Executions : d # e => ex'[d] = ex[d]
      /\ row'[LensStage] = r /\ IsRow(r)
      /\ LRow(y) = LRow(x) /\ (AtLens(y) <=> AtLens(x)) /\ (AllDone(y) <=> AllDone(x))
      /\ \A l \in Lenses : Call(y, l) = Call(x, l)
      /\ phase # "stored" => \A c : Pending(y, c) => Pending(x, c)
      /\ (Working(y) <=> Working(x))
  BY <1>0, StoredIs
<1>2. /\ y.pc = x.pc /\ y.lens = x.lens /\ y.save["run"] = x.save["run"]
      /\ x.save["ledger"].phase = "sent" /\ y.save["ledger"].phase = phase
      /\ y.save["ledger"].row = r /\ called' = called
      /\ holder = e /\ holder' = e /\ ~settled
  BY <1>0 DEF Stored, Answers
<1>3. r.attempts > 0 /\ r.status \in {"running", "failed"}
  BY <1>1, <1>2 DEF Sound, LedgerSound
<1>4. /\ \A d \in Executions : Working(ex'[d]) <=> Working(ex[d])
      /\ \A d \in Executions : ex'[d].pc = ex[d].pc
  BY <1>1, <1>2
<1>5. ASSUME NEW d \in Executions, NEW c \in Calls, Pending(ex'[d], c)
      PROVE  \/ Pending(ex[d], c)
             \/ d = e /\ phase = "stored" /\ ~Committed(c) /\ c \in Known(r)
  <2>1. CASE d # e
    BY <1>1, <1>5, <2>1
  <2>2. CASE d = e
    <3>1. PICK l \in Lenses : PendingAt(y, l, c)
      BY <1>1, <1>5, <2>2 DEF Pending
    <3>2. Reserving(x, l) /\ Call(x, l) = c
      BY <1>1, <1>2, <3>1 DEF PendingAt, Reserving
    <3>3. ~Committed(c) /\ c \in Known(r)
      BY <1>1, <1>2, <3>2 DEF Held, Sound, LedgerSound
    <3>4. phase = "stored"
      BY <1>2, <3>1 DEF PendingAt
    <3>5. QED
      BY <2>2, <3>3, <3>4
  <2>3. QED
    BY <2>1, <2>2
<1>6. \A c \in Calls : Committed(c)' => Committed(c) \/ (phase = "stored" /\ c \in Known(r))
  BY <1>2, <1>5 DEF Committed
<1>7. \A q : q = r /\ q.status = "running" => CommittedIn(q)'
  <2>1. r.status = "running" => CommittedIn(r)
    BY <1>1, <1>2 DEF Held
  <2>2. QED
    BY <1>6, <2>1 DEF CommittedIn
<1>8. Shared'
  <2>1. FreshRow'
    BY <1>1, <1>3 DEF FreshRow
  <2>2. StartsFresh'
    BY <1>2, <1>4 DEF RuntimeInv, Shared, StartsFresh, Uncalled
  <2>3. OneWorks'
    BY <1>4 DEF RuntimeInv, Shared, OneWorks
  <2>4. Once'
    <3>1. \A c \in Calls, d \in Executions : Pending(ex'[d], c) => called[c] = 0
      BY <1>5 DEF RuntimeInv, Shape, Shared, Once, Committed
    <3>2. QED
      BY <1>2, <3>1 DEF RuntimeInv, Shared, Once
  <2>5. RunningRow'
    BY <1>1, <1>7 DEF RunningRow
  <2>6. CompletedRow'
    BY <1>1, <1>3 DEF CompletedRow
  <2>7. QED
    BY <2>1, <2>2, <2>3, <2>4, <2>5, <2>6 DEF Shared
<1>9. HolderSound'
  <2> SUFFICES \A z : z = y => Held(z)'
    BY <1>1, <1>2 DEF HolderSound
  <2>1. phase = "lost" => \A q : CommittedIn(q) => CommittedIn(q)'
    BY <1>6 DEF CommittedIn
  <2>2. x.pc \notin {"off", "crashed"} => Started(x) /\ ~AllDone(x)
    BY <1>1, <1>2 DEF Sound, LedgerSound, Mutating, Started, AllDone, StageSound
  <2>3. x.pc \notin {"off", "crashed"} => AtLens(x) /\ x.pc # "enter"
    BY <1>1, <2>2 DEF Sound, StageSound
  <2>4. ~(/\ x.save["run"].phase = "sent" /\ x.save["run"].stage = LensStage
          /\ x.save["run"].row.attempts = 0 \/ x.save["run"].row.status = "running")
    BY <1>1, <1>2 DEF Held
  <2>5. x.save["run"].phase = "sent" /\ x.save["run"].stage = LensStage
            /\ x.save["run"].row.status = "completed"
        => /\ Working(y) => Final(y)
           /\ \A d \in Executions \ {holder} : ~Working(ex[d])
           /\ AllAccounted(x.save["run"].row)
    BY <1>1, <1>2 DEF Held, Final
  <2>6. \A q : AllAccounted(q) => AllAccounted(q)'
    BY <1>2 DEF AllAccounted, Accounted, RuntimeInv, Shape, Stored
  <2>7. /\ x.pc \notin {"off", "crashed"} /\ LRow(x).status = "running" => CommittedIn(LRow(x))
    BY <1>1, <1>2 DEF Held
  <2>8. y.save["ledger"].phase # "sent"
    BY <1>2
  <2>9. QED
    BY <1>1, <1>2, <1>4, <1>7, <2>1, <2>2, <2>3, <2>4, <2>5, <2>6, <2>7, <2>8 DEF Held
<1>10. Usage'
  <2>1. UsageSound(y) /\ y.cost = x.cost /\ WithinBudget(r)
    BY <1>0, StoredIs
  <2>2. WithinBudget(row'[LensStage])
    BY <1>1, <2>1
  <2>3. QED
    BY <1>1, <1>2, <2>1, <2>2, UsageStays DEF RuntimeInv
<1>11. QED
  BY <1>1, <1>8, <1>9, <1>10 DEF RuntimeInv

LEMMA StoreKeeps ==
    ASSUME RuntimeInv, NEW e \in Executions, NEW place \in Places, Store(e, place)
    PROVE  RuntimeInv'
<1> DEFINE x == ex[e]
           v == x.save[place]
           ok == Holds(e) /\ Storable(v.stage, v.row)
           y(phase) == [x EXCEPT !.save[place].phase = phase]
<1>1. /\ v.phase = "sent" /\ UNCHANGED <<holder, live, settled, called>>
      /\ row' = IF ok THEN [row EXCEPT ![v.stage] = v.row] ELSE row
      /\ \/ ex' = [ex EXCEPT ![e] = y(IF ok THEN "stored" ELSE "refused")] /\ faults' = faults
         \/ ok /\ faults' = faults + 1 /\ ex' = [ex EXCEPT ![e] = y("lost")]
  BY DEF Store
<1>2. IsExec(x) /\ v.stage \in Stages /\ faults \in Nat
  <2>1. IsExec(x) /\ faults \in Nat
    BY DEF RuntimeInv, AllSound, Sound, Shape
  <2> HIDE DEF x
  <2>2. QED
    BY <2>1 DEF IsExec, IsSaving, Places
<1>3. \A phase : Answers(x, y(phase), place, phase)
  <2> HIDE DEF x
  <2>1. QED
    BY <1>1, <1>2, AnswersIs
<1> HIDE DEF y
<1>4. CASE ~ok
  <2>1. /\ ex' = [ex EXCEPT ![e] = y("refused")] /\ row' = row
        /\ faults' \in Nat /\ faults' >= faults
    BY <1>1, <1>2, <1>4
  <2>2. QED
    BY <1>1, <1>3, <2>1, NothingStored
<1>5. CASE ok
  <2>1. holder = e /\ ~settled
    BY <1>5 DEF Holds
  <2>2. PICK phase \in {"stored", "lost"} :
            /\ ex' = [ex EXCEPT ![e] = y(phase)]
            /\ faults' \in Nat /\ faults' >= faults /\ (phase = "lost" => faults' > 0)
    BY <1>1, <1>2, <1>5
  <2>3. Stored(e, y(phase), place, phase)
    BY <1>1, <1>3, <1>5, <2>1, <2>2 DEF Stored
  <2>4. QED
    BY <2>3, OtherStored, RunStored, LedgerStored DEF Places
<1>6. QED
  BY <1>4, <1>5

LEMMA UsageSame ==
    ASSUME Usage, UNCHANGED <<row, ex, called>>
    PROVE  Usage'
<1>1. CalledSet' = CalledSet
  BY DEF CalledSet
<1>2. WithinBudget(row'[LensStage]) /\ \A e \in Executions : UsageSound(ex'[e])
  BY DEF Usage
<1>3. Counted'
  BY <1>1 DEF Usage, Counted
<1>4. QED
  BY <1>2, <1>3 DEF Usage

LEMMA SettleKeeps ==
    ASSUME RuntimeInv, NEW e \in Executions, Settle(e)
    PROVE  RuntimeInv'
<1>1. UNCHANGED <<row, ex, called, faults>> /\ settled'
  BY DEF Settle
<1>2. \A c : Committed(c)' <=> Committed(c)
  BY <1>1 DEF Committed
<1>3. Shape' /\ Shared'
  BY <1>1, <1>2 DEF RuntimeInv, Shape, Rows, Shared, FreshRow, StartsFresh, OneWorks, Once, RunningRow,
                    CompletedRow, CommittedIn, Uncalled, AllFinal, AllAccounted, Accounted
<1>4. AllSound'
  <2>1. \A z : Sound(z) => Sound(z)'
    BY <1>1, SoundStays DEF RuntimeInv, Shape
  <2> SUFFICES ASSUME NEW d \in Executions PROVE Sound(ex[d])'
    BY DEF AllSound
  <2>2. \A z : z = ex[d] => Sound(z)'
    BY <2>1 DEF RuntimeInv, AllSound
  <2>3. QED
    BY <1>1, <2>2
<1>5. HolderSound'
  BY <1>1 DEF HolderSound
<1>6. Usage'
  BY <1>1, UsageSame DEF RuntimeInv
<1>7. QED
  BY <1>3, <1>4, <1>5, <1>6 DEF RuntimeInv

\* Steps that touch nothing the invariant is about.
LEMMA QuietKeeps ==
    ASSUME RuntimeInv, UNCHANGED <<row, holder, settled, ex, called, faults>>
    PROVE  RuntimeInv'
<1>1. \A c : Committed(c)' <=> Committed(c)
  BY DEF Committed
<1>2. Shape' /\ Shared'
  BY <1>1 DEF RuntimeInv, Shape, Rows, Shared, FreshRow, StartsFresh, OneWorks, Once, RunningRow,
              CompletedRow, CommittedIn, Uncalled, AllFinal, AllAccounted, Accounted
<1>3. AllSound'
  <2>1. \A z : Sound(z) => Sound(z)'
    BY SoundStays DEF RuntimeInv, Shape
  <2> SUFFICES ASSUME NEW d \in Executions PROVE Sound(ex[d])'
    BY DEF AllSound
  <2>2. \A z : z = ex[d] => Sound(z)'
    BY <2>1 DEF RuntimeInv, AllSound
  <2>3. QED
    BY <2>2
<1>4. HolderSound'
  <2> SUFFICES ASSUME holder \in Executions, ~settled PROVE Held(ex[holder])'
    BY DEF HolderSound
  <2>1. \A z : Held(z) => Held(z)'
    BY <1>1, HeldStays DEF RuntimeInv, Shape
  <2>2. \A z : z = ex[holder] => Held(z)'
    BY <2>1 DEF RuntimeInv, HolderSound
  <2>3. QED
    BY <2>2
<1>5. Usage'
  BY UsageSame DEF RuntimeInv
<1>6. QED
  BY <1>2, <1>3, <1>4, <1>5 DEF RuntimeInv

-----------------------------------------------------------------------------
(* The invariant. *)

LEMMA InitSound == ASSUME Init PROVE RuntimeInv
<1>1. /\ row = [s \in Stages |-> NoRow] /\ ex = [e \in Executions |-> Off]
      /\ called = [c \in Calls |-> 0] /\ faults = 0 /\ holder = 0
  BY DEF Init
<1>2. /\ \A s \in Stages : row[s] = NoRow
      /\ \A e \in Executions : ex[e] = Off
      /\ \A c \in Calls : called[c] = 0
  BY <1>1
<1>3. IsExec(Off) /\ Sound(Off) /\ ~Working(Off) /\ \A c : ~Pending(Off, c)
  <2>1. \A p \in Places : Off.save[p].phase = "lost" => faults > 0
    BY OffIs
  <2>2. QED
    BY <2>1, OffIs, RestingSound DEF Sound
<1>4. Shape
  BY <1>1, <1>2, NoRowIs DEF Shape, Rows
<1>5. AllSound
  BY <1>2, <1>3 DEF AllSound
<1>6. row[LensStage] = NoRow
  BY <1>2, PlanIs
<1>7. Shared
  BY <1>2, <1>3, <1>6, NoRowIs
     DEF Shared, FreshRow, StartsFresh, OneWorks, Once, RunningRow, CompletedRow, Uncalled
<1>8. HolderSound
  <2>1. 0 \notin Executions
    BY StageRuntimeAssumption
  <2>2. QED
    BY <1>1, <2>1 DEF HolderSound
<1>9. Usage
  <2>1. WithinBudget(row[LensStage])
    BY <1>6, NoRowPays
  <2>2. UsageSound(Off)
    <3>1. Agrees(Off) /\ WithinBudget(LRow(Off)) /\ Paid(Off, LRow(Off), 0)
      BY OffIs, NoRowPays DEF Agrees, AtWork, Paid
    <3>2. Off.save["run"].phase = "none" /\ Off.save["ledger"].phase = "none"
      BY OffIs DEF Places
    <3>3. Off.cost \in Nat /\ Off.tokens \in Int
      BY OffIs
    <3>4. QED
      BY <3>1, <3>2, <3>3, OffIs, RestingPays
  <2>3. CalledSet = {}
    BY <1>2 DEF CalledSet
  <2>4. Counted
    <3>1. IsFiniteSet(CalledSet) /\ Cardinality(CalledSet) = 0
      BY <2>3, FS_EmptySet
    <3>2. QED
      BY <1>2, <1>3, <3>1, NumbersAre DEF Counted
  <2>5. QED
    BY <1>2, <2>1, <2>2, <2>4 DEF Usage
<1>10. QED
  BY <1>4, <1>5, <1>7, <1>8, <1>9 DEF RuntimeInv

LEMMA InvNext == ASSUME RuntimeInv, [Next]_vars PROVE RuntimeInv'
<1>1. CASE UNCHANGED vars
  BY <1>1, QuietKeeps DEF vars
<1>2. ASSUME NEW e \in Executions, Microtask(e) PROVE RuntimeInv'
  <2>1. CASE Enter(e)
    BY <2>1, EnterKeeps
  <2>2. CASE RunAllEnds(e)
    BY <2>2, RunAllEndsKeeps
  <2>3. ASSUME NEW l \in Lenses, TakeCard(e, l) \/ ReserveCall(e, l) \/ SettleCall(e, l)
        PROVE  RuntimeInv'
    BY <2>3, TakeCardKeeps, ReserveCallKeeps, SettleCallKeeps
  <2>4. QED
    BY <1>2, <2>1, <2>2, <2>3 DEF Microtask
<1>3. ASSUME NEW e \in Executions, Event(e) PROVE RuntimeInv'
  <2>1. CASE Operate(e)
    BY <2>1, OperatesKeeps
  <2>2. CASE TimeOut(e)
    BY <2>2, TimeOutKeeps
  <2>3. CASE RunSaved(e)
    BY <2>3, RunSavedKeeps
  <2>4. ASSUME NEW l \in Lenses, Reserved(e, l) \/ CallSettled(e, l) PROVE RuntimeInv'
    BY <2>4, ReservedKeeps, CallSettledKeeps
  <2>5. ASSUME NEW l \in Lenses, Answered(e, l) \/ Aborted(e, l) PROVE RuntimeInv'
    <3>1. PICK end, tokens : CallEnds(e, l, end, tokens) /\ (end = "aborted" => ex[e].aborted)
      BY <2>5 DEF Answered, Aborted
    <3>2. QED
      BY <3>1, CallEndsKeeps
  <2>6. QED
    BY <1>3, <2>1, <2>2, <2>3, <2>4, <2>5 DEF Event
<1>4. ASSUME NEW e \in Executions, Outside(e) PROVE RuntimeInv'
  BY <1>4, ClaimKeeps, SettleKeeps, CrashKeeps, StoreKeeps, RequestLostKeeps DEF Outside, Places
<1>5. CASE Expire
  BY <1>5, QuietKeeps DEF Expire
<1>6. QED
  BY <1>1, <1>2, <1>3, <1>4, <1>5 DEF Next

\* No provider call is ever made twice: not by an execution that reclaims the candidate,
\* not by one that goes on without its lease, and not after a lost answer.
THEOREM CalledOnceHolds == Spec => []CalledOnce
<1>1. RuntimeInv => CalledOnce
  BY DEF RuntimeInv, Shared, Once, CalledOnce
<1>2. QED
  BY InitSound, InvNext, <1>1, PTL DEF Spec

\* As long as the lens stage's durable checkpoint says running, every call that was made
\* is in its ledger.
THEOREM RunningLedgerCompleteHolds == Spec => []RunningLedgerComplete
<1>1. RuntimeInv => RunningLedgerComplete
  BY DEF RuntimeInv, Shared, RunningRow, RunningLedgerComplete, CommittedIn, Committed
<1>2. QED
  BY InitSound, InvNext, <1>1, PTL DEF Spec

\* A completed checkpoint of the lens stage accounts for every call, and no lens is at
\* work that could add one.
THEOREM CompletedIsSettledHolds == Spec => []CompletedIsSettled
<1>1. RuntimeInv => CompletedIsSettled
  BY DEF RuntimeInv, Shared, CompletedRow, CompletedIsSettled, AllAccounted, Accounted
<1>2. QED
  BY InitSound, InvNext, <1>1, PTL DEF Spec

LEMMA MaxIs ==
    ASSUME NEW a \in Int, NEW b \in Int
    PROVE  Max({a, b}) = IF a >= b THEN a ELSE b
<1> DEFINE m == IF a >= b THEN a ELSE b
<1>1. m \in {a, b} /\ \A y \in {a, b} : m >= y
  OBVIOUS
<1>2. \A x \in {a, b} : (\A y \in {a, b} : x >= y) => x = m
  OBVIOUS
<1> HIDE DEF m
<1>3. Max({a, b}) \in {a, b} /\ \A y \in {a, b} : Max({a, b}) >= y
  BY <1>1 DEF Max
<1>4. QED
  BY <1>2, <1>3 DEF m

\* What all executions called, and what the durable ledger enforces up to the reservations,
\* stays within the candidate's budget: no reset or lost save counts a call too little.
THEOREM BudgetHoldsAlways == Spec => []BudgetHolds
<1>1. RuntimeInv => BudgetHolds
  <2> SUFFICES ASSUME RuntimeInv PROVE BudgetHolds
    OBVIOUS
  <2> DEFINE r == row[LensStage]
             K == Known(r)
             f == [c \in K |-> r.ledger[c].tokens]
             a == [c \in K |-> Capped(r.ledger[c].tokens)]
             o == [c \in K |-> Max({r.ledger[c].tokens, Reserve}) - Reserve]
  <2>1. /\ WithinBudget(r) /\ Cardinality({c \in Calls : called[c] > 0}) <= MaxCost
    BY DEF RuntimeInv, Usage, Counted, CalledSet
  <2>2. IsFiniteSet(K) /\ Spent(r) <= MaxTokens /\ Spent(r) \in Nat /\ \A c \in K : r.ledger[c].tokens \in Nat
    BY <2>1, SpentIs DEF WithinBudget
  <2>3. \A c \in K : f[c] = r.ledger[c].tokens /\ a[c] = Capped(r.ledger[c].tokens)
                     /\ o[c] = Max({r.ledger[c].tokens, Reserve}) - Reserve
    OBVIOUS
  <2>4. DOMAIN f = K /\ DOMAIN a = K /\ DOMAIN o = K
    OBVIOUS
  <2>5. Total(a) = Spent(r) /\ Total(f) = TokensOf(r)
    BY DEF Spent, TokensOf
  <2>6. BudgetHolds <=> Cardinality({c \in Calls : called[c] > 0}) <= MaxCost
                        /\ TokensOf(r) <= MaxTokens + Total(o)
    BY DEF BudgetHolds
  <2> HIDE DEF f, a, o, K, r
  <2>7. \A c \in K : a[c] \in Int /\ o[c] \in Int /\ f[c] = a[c] + o[c]
    <3> SUFFICES ASSUME NEW c \in K PROVE a[c] \in Int /\ o[c] \in Int /\ f[c] = a[c] + o[c]
      OBVIOUS
    <3> DEFINE tokens == r.ledger[c].tokens
    <3>1. tokens \in Nat /\ f[c] = tokens /\ a[c] = Capped(tokens) /\ o[c] = Max({tokens, Reserve}) - Reserve
      BY <2>2, <2>3
    <3> HIDE DEF tokens
    <3>2. Max({tokens, Reserve}) = IF tokens >= Reserve THEN tokens ELSE Reserve
      BY <3>1, NumbersAre, MaxIs
    <3>3. QED
      BY <3>1, <3>2, NumbersAre DEF Capped
  <2>8. Total(f) = Total(a) + Total(o)
    BY <2>2, <2>4, <2>7, TotalAdds
  <2>9. Total(o) \in Int
    BY <2>2, <2>4, <2>7, TotalIsInt
  <2>10. QED
    BY <2>1, <2>2, <2>5, <2>6, <2>8, <2>9, NumbersAre
<1>2. QED
  BY InitSound, InvNext, <1>1, PTL DEF Spec

\* An execution's usage is what its copy of the ledger enforces until one of its lenses
\* throws or run ends, however its settlements overlap.
THEOREM UsageAgreesAlways == Spec => []UsageAgrees
<1>1. RuntimeInv => UsageAgrees
  BY DEF RuntimeInv, Usage, UsageSound, Agrees, AtWork, SomeThrew, LRow, UsageAgrees
<1>2. QED
  BY InitSound, InvNext, <1>1, PTL DEF Spec
=============================================================================
