----------------------- MODULE UnderwritingWorkerProofs -----------------------
(***************************************************************************)
(* Theorems about UnderwritingWorker, for any deals, reports, attempts,    *)
(* variants and faults.                                                    *)
(*                                                                         *)
(* An attempt's record is sound if what it remembers still agrees with the *)
(* tables (Good).  What one step does to the tables (RowsMove) leaves the  *)
(* record of every other attempt sound, because settled candidates do not  *)
(* change and an open transaction holds its row; the steps are then gone   *)
(* through one by one.                                                     *)
(***************************************************************************)
EXTENDS UnderwritingWorker, WellFoundedInduction, TLAPS

AtCandidate == {"claim", "execute", "checkpoint", "finalize", "note", "unavailable", "failed"}

\* What an attempt's record looks like at each of its steps.
Shaped(j) ==
    /\ j.pc \in AtCandidate \cup {"done"} => Len(j.plan) = Len(Ranked[j.on.print])
    /\ j.pc \in AtCandidate => /\ j.pos \in 1..Len(j.plan)
                               /\ j.plan[j.pos] \notin Settled
                               /\ \A k \in 1..Len(j.plan) : k < j.pos => j.plan[k] \in Settled
    /\ j.pc = "done" => \A k \in 1..Len(j.plan) : j.plan[k] \in Settled
    /\ j.pc \in {"checkpoint", "finalize"} => j.result \in Variants
    /\ Open(j) => j.pc \in {"claim", "finalize", "unavailable", "failed"}

-----------------------------------------------------------------------------
(* Control: where an attempt goes on. *)

LEMMA LeastExists ==
    ASSUME NEW T \in SUBSET Nat, T # {}
    PROVE  \E k \in T : \A l \in T : k <= l
<1> DEFINE R == OpToRel(<, Nat)
<1>1. IsWellFoundedOn(R, Nat)
  BY NatLessThanWellFounded
<1>2. \A x, y \in Nat : <<x, y>> \in R <=> x < y
  BY DEF OpToRel
<1> HIDE DEF R
<1>3. PICK x \in T : \A y \in T : <<y, x>> \notin R
  BY <1>1, WFMin
<1>4. ASSUME NEW y \in T PROVE x <= y
  <2>1. x \in Nat /\ y \in Nat
    OBVIOUS
  <2>2. ~(y < x)
    BY <1>2, <1>3, <2>1
  <2>3. QED BY <2>1, <2>2
<1>5. QED BY <1>4

LEMMA RankedType ==
    ASSUME NEW b \in Batches
    PROVE  /\ b.print \in Prints /\ Ranked[b.print] \in Seq(Deals)
           /\ Len(Ranked[b.print]) \in Nat
           /\ \A k \in 1..Len(Ranked[b.print]) : Ranked[b.print][k] \in Deals
           /\ Selected(b) \subseteq Deals
           /\ \A d : d \in Selected(b) <=>
                  \E k \in 1..Len(Ranked[b.print]) : d = Ranked[b.print][k]
           /\ \A k, l \in 1..Len(Ranked[b.print]) :
                  Ranked[b.print][k] = Ranked[b.print][l] => k = l
<1>1. b.print \in Prints
  BY DEF Batches
<1>2. Ranked[b.print] \in Seq(Deals)
  BY <1>1, UnderwritingRunsAssumption
<1>3. \A k \in 1..Len(Ranked[b.print]) : Ranked[b.print][k] \in Deals
  BY <1>2
<1>4. Len(Ranked[b.print]) \in Nat
  BY <1>2
<1>5. \A k, l \in 1..Len(Ranked[b.print]) : Ranked[b.print][k] = Ranked[b.print][l] => k = l
  BY <1>1, UnderwritingRunsAssumption
<1>6. QED BY <1>1, <1>2, <1>3, <1>4, <1>5 DEF Selected

LEMMA DealType ==
    ASSUME NEW j \in Job, Shaped(j), j.pc \in AtCandidate
    PROVE  Deal(j) \in Deals /\ Deal(j) \in Selected(j.on) /\ j.on \in Batches
<1>1. j.on \in Batches
  BY DEF Job
<1>2. j.pos \in 1..Len(Ranked[j.on.print])
  BY DEF Shaped
<1>3. QED BY <1>1, <1>2, RankedType DEF Deal

LEMMA RestartType ==
    ASSUME NEW j \in Job, NEW pc \in {"claim", "done"}, NEW p \in Nat
    PROVE  [j EXCEPT !.pc = pc, !.token = 0, !.result = NoVariant, !.pos = p] \in Job
<1> DEFINE k == [j EXCEPT !.pc = pc]
           l == [k EXCEPT !.token = 0]
           m == [l EXCEPT !.result = NoVariant]
<1>1. k \in Job
  BY DEF Job
<1>2. l \in Job
  <2> HIDE DEF k
  <2>1. QED BY <1>1 DEF Job
<1>3. m \in Job
  <2> HIDE DEF l
  <2>1. QED BY <1>2 DEF Job
<1>4. [m EXCEPT !.pos = p] \in Job
  <2> HIDE DEF m
  <2>1. QED BY <1>3 DEF Job
<1>5. QED BY <1>4

LEMMA EnterShape ==
    ASSUME NEW j \in Job, NEW i \in Nat \ {0}, Len(j.plan) = Len(Ranked[j.on.print]),
           j.tally = "none", \A k \in 1..Len(j.plan) : k < i => j.plan[k] \in Settled
    PROVE  /\ Enter(j, i) \in Job /\ Shaped(Enter(j, i))
           /\ Enter(j, i).pc \in {"claim", "done"} /\ Enter(j, i).tally = "none"
           /\ Enter(j, i).on = j.on /\ Enter(j, i).plan = j.plan
<1> DEFINE left == {k \in i..Len(j.plan) : j.plan[k] \notin Settled}
<1>1. j.plan \in Seq(CandidateStatus) /\ Len(j.plan) \in Nat
  BY DEF Job
<1>2. \A k \in 1..Len(j.plan) : k \notin i..Len(j.plan) => k < i
  BY <1>1
<1>3. i..Len(j.plan) \subseteq 1..Len(j.plan)
  BY <1>1
<1>4. CASE left = {}
  <2>1. Enter(j, i) = [j EXCEPT !.pc = "done", !.token = 0, !.result = NoVariant, !.pos = 0]
    BY <1>4 DEF Enter
  <2>2. \A k \in 1..Len(j.plan) : j.plan[k] \in Settled
    BY <1>2, <1>4
  <2>3. Enter(j, i) \in Job
    <3>1. [j EXCEPT !.pc = "done", !.token = 0, !.result = NoVariant, !.pos = 0] \in Job
      BY RestartType
    <3>2. QED BY <2>1, <3>1
  <2>4. /\ Enter(j, i).pc = "done" /\ Enter(j, i).tally = "none"
        /\ Enter(j, i).on = j.on /\ Enter(j, i).plan = j.plan
    BY <2>1 DEF Job
  <2>5. QED BY <2>2, <2>3, <2>4 DEF Shaped, Open, AtCandidate
<1>5. CASE left # {}
  <2> DEFINE p == CHOOSE k \in left : \A l \in left : k <= l
  <2>1. \E k \in left : \A l \in left : k <= l
    <3>1. left \in SUBSET Nat
      BY <1>1
    <3> HIDE DEF left
    <3>2. QED BY <1>5, <3>1, LeastExists
  <2>2. p \in left /\ \A l \in left : p <= l
    BY <2>1
  <2>3. Enter(j, i) = [j EXCEPT !.pc = "claim", !.token = 0, !.result = NoVariant, !.pos = p]
    BY <1>5 DEF Enter
  <2> HIDE DEF p
  <2>4. p \in 1..Len(j.plan) /\ j.plan[p] \notin Settled /\ p \in Nat
    BY <1>1, <1>3, <2>2
  <2>5. \A k \in 1..Len(j.plan) : k < p => j.plan[k] \in Settled
    <3> SUFFICES ASSUME NEW k \in 1..Len(j.plan), k < p PROVE j.plan[k] \in Settled
      OBVIOUS
    <3>1. k \notin left
      <4>1. ~(p <= k)
        BY <2>4
      <4>2. QED BY <2>2, <4>1
    <3>2. QED BY <1>2, <3>1
  <2>6. Enter(j, i) \in Job
    <3>1. [j EXCEPT !.pc = "claim", !.token = 0, !.result = NoVariant, !.pos = p] \in Job
      BY <2>4, RestartType
    <3>2. QED BY <2>3, <3>1
  <2>7. /\ Enter(j, i).pc = "claim" /\ Enter(j, i).tally = "none" /\ Enter(j, i).pos = p
        /\ Enter(j, i).on = j.on /\ Enter(j, i).plan = j.plan
    BY <2>3 DEF Job
  <2>8. QED BY <2>4, <2>5, <2>6, <2>7 DEF Shaped, Open, AtCandidate
<1>6. QED BY <1>4, <1>5

LEMMA ProcessedShape ==
    ASSUME NEW j \in Job, Shaped(j), j.pc \in AtCandidate, j.tally = "none", NEW s \in Settled
    PROVE  /\ Processed(j, s) \in Job /\ Shaped(Processed(j, s))
           /\ Processed(j, s).pc \in {"claim", "done"} /\ Processed(j, s).tally = "none"
           /\ Processed(j, s).on = j.on /\ Processed(j, s).plan = [j.plan EXCEPT ![j.pos] = s]
<1> DEFINE plan == [j.plan EXCEPT ![j.pos] = s]
           k == [j EXCEPT !.plan = plan]
<1>1. /\ j.plan \in Seq(CandidateStatus) /\ j.pos \in 1..Len(j.plan) /\ s \in CandidateStatus
      /\ Len(j.plan) = Len(Ranked[j.on.print])
  BY DEF Job, Shaped, CandidateStatus
<1>2. plan \in Seq(CandidateStatus) /\ Len(plan) = Len(j.plan) /\ plan[j.pos] = s
      /\ \A i \in 1..Len(j.plan) : i # j.pos => plan[i] = j.plan[i]
  BY <1>1
<1> HIDE DEF plan
<1>3. k \in Job /\ k.plan = plan /\ k.on = j.on /\ k.tally = "none"
  BY <1>2 DEF Job
<1>4. j.pos \in Nat /\ j.pos + 1 \in Nat \ {0}
  BY DEF Job
<1>5. \A i \in 1..Len(plan) : i < j.pos + 1 => plan[i] \in Settled
  <2>1. \A i \in 1..Len(j.plan) : i < j.pos => j.plan[i] \in Settled
    BY DEF Shaped
  <2> SUFFICES ASSUME NEW i \in 1..Len(plan), i < j.pos + 1 PROVE plan[i] \in Settled
    OBVIOUS
  <2>2. i \in 1..Len(j.plan)
    BY <1>2
  <2>3. CASE i = j.pos
    BY <1>2, <2>3
  <2>4. CASE i # j.pos
    <3>1. i < j.pos
      BY <1>4, <2>2, <2>4
    <3>2. QED BY <1>2, <2>1, <2>2, <2>4, <3>1
  <2>5. QED BY <2>3, <2>4
<1>6. Processed(j, s) = Enter(k, j.pos + 1)
  BY DEF Processed, plan
<1> HIDE DEF k
<1>7. Len(k.plan) = Len(Ranked[k.on.print])
  BY <1>1, <1>2, <1>3
<1>8. /\ Enter(k, j.pos + 1) \in Job /\ Shaped(Enter(k, j.pos + 1))
      /\ Enter(k, j.pos + 1).pc \in {"claim", "done"} /\ Enter(k, j.pos + 1).tally = "none"
      /\ Enter(k, j.pos + 1).on = k.on /\ Enter(k, j.pos + 1).plan = k.plan
  BY <1>3, <1>4, <1>5, <1>7, EnterShape
<1>9. QED BY <1>3, <1>6, <1>8 DEF plan

LEMMA ThrownShape ==
    ASSUME NEW j \in Job, Shaped(j), j.tally = "none"
    PROVE  /\ Thrown(j) \in Job /\ Shaped(Thrown(j))
           /\ Thrown(j).pc \in {"failed", "threw"} /\ Thrown(j).tally = "none"
           /\ Thrown(j).on = j.on /\ Thrown(j).plan = j.plan
           /\ Thrown(j).pc = "failed" => j.pc \in AtCandidate
<1>1. PICK pc \in {"failed", "threw"} :
          Thrown(j) = [j EXCEPT !.pc = pc] /\ (pc = "failed" => j.pc \in AtCandidate)
  BY DEF Thrown, AtCandidate
<1>2. [j EXCEPT !.pc = pc] \in Job
  BY DEF Job
<1>3. QED BY <1>1, <1>2 DEF Job, Shaped, Open, AtCandidate

-----------------------------------------------------------------------------
(* The tables. *)

\* Rows come and go together, a row that does not exist holds no checkpoint, and only
\* reruns are linked.
RowsGood ==
    /\ \A b \in Batches : Present(cand[b]) \in {{}, Selected(b)}
    /\ \A b \in Batches, d \in Deals :
           /\ cand[b][d].status = "absent" => cand[b][d].saved = NoVariant
           /\ cand[b][d].linked => b.nonce # NoNonce
    /\ ArtifactsOwned
    /\ FinalizedAsCheckpointed

Tables == RunsTypeOK /\ RowsGood

\* A row's life: settled once, completed for good, and a completed checkpoint stays.
RowStep(c, n) ==
    /\ c.status \in Settled => n.status = c.status
    /\ c.status = "completed" => n = c
    /\ c.status # "absent" => n.status # "absent" /\ n.linked = c.linked
    /\ c.saved \in Variants => n.saved = c.saved

\* What one step does to the tables.
RowsMove ==
    /\ \A b \in Batches, d \in Deals : RowStep(cand[b][d], cand'[b][d])
    /\ \A b \in Batches : Present(cand'[b]) \in {Present(cand[b]), Selected(b)}
    /\ \A b \in Batches : batch[b] # "absent" => batch'[b] # "absent"
    /\ ranked \subseteq ranked'

LEMMA NoRowMoves ==
    ASSUME UNCHANGED <<batch, ranked, cand>>
    PROVE  RowsMove /\ (Tables => Tables')
<1>1. cand' = cand /\ batch' = batch /\ ranked' = ranked
  OBVIOUS
<1>2. RowsMove
  BY <1>1 DEF RowsMove, RowStep
<1>3. RunsTypeOK => RunsTypeOK'
  BY <1>1 DEF RunsTypeOK
<1>4. RowsGood => RowsGood'
  BY <1>1 DEF RowsGood, ArtifactsOwned, FinalizedAsCheckpointed
<1>5. QED BY <1>2, <1>3, <1>4 DEF Tables

LEMMA AggregateType == \A rows : Aggregate(rows) \in Verdicts
BY DEF Aggregate, Verdicts

LEMMA InsertMoves ==
    ASSUME Tables, NEW b \in Batches, InsertBatch(b)
    PROVE  RowsMove /\ Tables'
<1>1. batch' \in [Batches -> {"absent", "queued"} \cup Verdicts]
      /\ \A c \in Batches : batch'[c] = IF c = b THEN "queued" ELSE batch[c]
  BY DEF InsertBatch, Tables, RunsTypeOK
<1>2. cand' = cand /\ ranked' = ranked
  BY DEF InsertBatch
<1>3. QED BY <1>1, <1>2 DEF RowsMove, RowStep, Tables, RunsTypeOK, RowsGood, ArtifactsOwned,
             FinalizedAsCheckpointed

LEMMA SelectMoves ==
    ASSUME Tables, NEW b \in Batches, batch[b] # "absent", SaveSelections(b)
    PROVE  RowsMove /\ Tables'
<1>1. Refreshed(b, batch[b], cand[b], TRUE) \in {"queued"} \cup Verdicts
  BY AggregateType DEF Refreshed, Tables, RunsTypeOK, Verdicts
<1>2. batch' \in [Batches -> {"absent", "queued"} \cup Verdicts]
      /\ batch'[b] # "absent" /\ \A c \in Batches : c # b => batch'[c] = batch[c]
  BY <1>1 DEF SaveSelections, Tables, RunsTypeOK, Verdicts
<1>3. cand' = cand /\ ranked' = ranked \cup {b}
  BY DEF SaveSelections
<1>4. QED BY <1>2, <1>3 DEF RowsMove, RowStep, Tables, RunsTypeOK, RowsGood, ArtifactsOwned,
             FinalizedAsCheckpointed

\* The rows of the selected deals that were absent are queued.
LEMMA CreateRows ==
    ASSUME Tables, NEW b \in Batches, CreateSelected(b)
    PROVE  /\ \A c \in Batches, d \in Deals :
                  cand'[c][d] = IF c = b /\ d \in Selected(b) /\ cand[b][d].status = "absent"
                                THEN QueuedRow(b, d) ELSE cand[c][d]
           /\ cand' \in [Batches -> [Deals -> Candidate]]
           /\ \A d \in Deals : /\ QueuedRow(b, d) \in Candidate
                               /\ QueuedRow(b, d).status = "queued"
                               /\ QueuedRow(b, d).source = "none"
                               /\ QueuedRow(b, d).saved = NoVariant
                               /\ QueuedRow(b, d).linked => b.nonce # NoNonce
<1> DEFINE rows == [d \in Deals |->
                      IF d \in Selected(b) /\ cand[b][d].status = "absent"
                      THEN QueuedRow(b, d) ELSE cand[b][d]]
<1>1. cand' = [cand EXCEPT ![b] = rows]
  BY DEF CreateSelected
<1>2. \A d \in Deals : /\ QueuedRow(b, d) \in Candidate
                       /\ QueuedRow(b, d).status = "queued"
                       /\ QueuedRow(b, d).source = "none"
                       /\ QueuedRow(b, d).saved = NoVariant
                       /\ QueuedRow(b, d).linked => b.nonce # NoNonce
  BY DEF QueuedRow, Absent, Candidate, CandidateStatus
<1>3. cand \in [Batches -> [Deals -> Candidate]]
  BY DEF Tables, RunsTypeOK
<1>4. \A d \in Deals : rows[d] \in Candidate
  BY <1>2, <1>3
<1>5. rows \in [Deals -> Candidate]
  BY <1>4
<1>6. cand' \in [Batches -> [Deals -> Candidate]]
  BY <1>1, <1>3, <1>5
<1>7. \A c \in Batches : cand'[c] = IF c = b THEN rows ELSE cand[c]
  BY <1>1, <1>3
<1>8. QED BY <1>2, <1>6, <1>7

LEMMA CreateMoves ==
    ASSUME Tables, NEW b \in Batches, batch[b] # "absent", CreateSelected(b)
    PROVE  RowsMove /\ Tables' /\ Present(cand'[b]) = Selected(b)
<1>1. /\ \A c \in Batches, d \in Deals :
             cand'[c][d] = IF c = b /\ d \in Selected(b) /\ cand[b][d].status = "absent"
                           THEN QueuedRow(b, d) ELSE cand[c][d]
      /\ cand' \in [Batches -> [Deals -> Candidate]]
      /\ \A d \in Deals : /\ QueuedRow(b, d).status = "queued"
                          /\ QueuedRow(b, d).source = "none"
                          /\ QueuedRow(b, d).saved = NoVariant
                          /\ QueuedRow(b, d).linked => b.nonce # NoNonce
  BY CreateRows
<1>2. Selected(b) \subseteq Deals
  BY RankedType
<1>3. \A c \in Batches : Present(cand[c]) \in {{}, Selected(c)}
  BY DEF Tables, RowsGood
<1>4. Present(cand'[b]) = Selected(b)
  <2>1. \A d \in Deals : d \in Selected(b) => cand'[b][d].status # "absent"
    BY <1>1
  <2>2. \A d \in Deals : d \notin Selected(b) => cand[b][d].status = "absent"
    BY <1>3 DEF Present
  <2>3. QED BY <1>1, <1>2, <2>1, <2>2 DEF Present
<1>5. \A c \in Batches : c # b => Present(cand'[c]) = Present(cand[c])
  BY <1>1 DEF Present
<1>6. \A c \in Batches, d \in Deals : RowStep(cand[c][d], cand'[c][d])
  <2> SUFFICES ASSUME NEW c \in Batches, NEW d \in Deals PROVE RowStep(cand[c][d], cand'[c][d])
    OBVIOUS
  <2>1. cand[c][d].status = "absent" => cand[c][d].saved \notin Variants
    BY UnderwritingRunsAssumption DEF Tables, RowsGood
  <2>2. QED BY <1>1, <2>1 DEF RowStep, Settled
<1>7. batch' \in [Batches -> {"absent", "queued"} \cup Verdicts]
      /\ batch'[b] # "absent" /\ \A c \in Batches : c # b => batch'[c] = batch[c]
  <2>1. \A rows, r : Refreshed(b, batch[b], rows, r) \in {"queued"} \cup Verdicts
    BY AggregateType DEF Refreshed, Tables, RunsTypeOK, Verdicts
  <2>2. QED BY <2>1 DEF CreateSelected, Tables, RunsTypeOK, Verdicts
<1>8. ranked' = ranked
  BY DEF CreateSelected
<1>9. RowsMove
  BY <1>3, <1>4, <1>5, <1>6, <1>7, <1>8 DEF RowsMove
<1>10. RunsTypeOK'
  BY <1>1, <1>7, <1>8 DEF Tables, RunsTypeOK
<1>11. ArtifactsOwned' /\ FinalizedAsCheckpointed'
  <2>1. \A c \in Batches, d \in Deals :
            /\ cand'[c][d] # cand[c][d] => /\ cand'[c][d].status = "queued"
                                           /\ cand'[c][d].source = "none"
            /\ cand[c][d].status = "completed" => cand'[c][d] = cand[c][d]
    BY <1>1
  <2>2. \A c \in Batches : Ordinary(c.print) \in Batches
    BY DEF Ordinary, Batches
  <2>3. FinalizedAsCheckpointed'
    BY <2>1 DEF Tables, RowsGood, FinalizedAsCheckpointed
  <2>4. ArtifactsOwned'
    <3> SUFFICES ASSUME NEW c \in Batches, NEW d \in Deals
                 PROVE  /\ cand'[c][d].status = "completed" <=> cand'[c][d].source # "none"
                        /\ cand'[c][d].source = "reused" =>
                               /\ c.nonce # NoNonce
                               /\ cand'[Ordinary(c.print)][d].status = "completed"
                               /\ cand'[Ordinary(c.print)][d].source = "own"
                               /\ cand'[Ordinary(c.print)][d].analysis = cand'[c][d].analysis
                        /\ cand'[c][d].source = "own" => \A o \in Batches \ {c} :
                               ~(/\ o.print = c.print /\ cand'[o][d].source = "own"
                                 /\ cand'[o][d].analysis = cand'[c][d].analysis)
      BY DEF ArtifactsOwned
    <3>1. /\ cand[c][d].status = "completed" <=> cand[c][d].source # "none"
          /\ cand[c][d].source = "reused" =>
                 /\ c.nonce # NoNonce
                 /\ cand[Ordinary(c.print)][d].status = "completed"
                 /\ cand[Ordinary(c.print)][d].source = "own"
                 /\ cand[Ordinary(c.print)][d].analysis = cand[c][d].analysis
          /\ cand[c][d].source = "own" => \A o \in Batches \ {c} :
                 ~(/\ o.print = c.print /\ cand[o][d].source = "own"
                   /\ cand[o][d].analysis = cand[c][d].analysis)
      BY DEF Tables, RowsGood, ArtifactsOwned
    <3>2. \A o \in Batches \ {c} : cand'[o][d].source = "own" => cand'[o][d] = cand[o][d]
      BY <2>1
    <3>3. CASE cand'[c][d] # cand[c][d]
      BY <2>1, <3>3
    <3>4. CASE cand'[c][d] = cand[c][d]
      BY <2>1, <2>2, <3>1, <3>2, <3>4
    <3>5. QED BY <3>3, <3>4
  <2>5. QED BY <2>3, <2>4
<1>12. RowsGood'
  <2>1. \A c \in Batches : Present(cand'[c]) \in {{}, Selected(c)}
    BY <1>3, <1>4, <1>5
  <2>2. \A c \in Batches, d \in Deals :
            /\ cand'[c][d].status = "absent" => cand'[c][d].saved = NoVariant
            /\ cand'[c][d].linked => c.nonce # NoNonce
    BY <1>1 DEF Tables, RowsGood
  <2>3. QED BY <1>11, <2>1, <2>2 DEF RowsGood, Selected
<1>13. QED BY <1>4, <1>9, <1>10, <1>12 DEF Tables

Rewritten(b, d, row) == cand' = [cand EXCEPT ![b][d] = row]

OnlyRow(b, d, row) ==
    /\ cand' \in [Batches -> [Deals -> Candidate]]
    /\ cand'[b][d] = row
    /\ \A c \in Batches, e \in Deals : ~(c = b /\ e = d) => cand'[c][e] = cand[c][e]
    /\ cand'[b] = [cand[b] EXCEPT ![d] = row]
    /\ \A c \in Batches : c # b => cand'[c] = cand[c]

LEMMA OneRowOf ==
    ASSUME RunsTypeOK, NEW b \in Batches, NEW d \in Deals, NEW row \in Candidate,
           Rewritten(b, d, row)
    PROVE  OnlyRow(b, d, row)
<1>1. cand \in [Batches -> [Deals -> Candidate]]
  BY DEF RunsTypeOK
<1>2. cand' = [cand EXCEPT ![b] = [cand[b] EXCEPT ![d] = row]]
  BY DEF Rewritten
<1>3. [cand[b] EXCEPT ![d] = row] \in [Deals -> Candidate]
  BY <1>1
<1>4. cand' \in [Batches -> [Deals -> Candidate]]
  BY <1>1, <1>2, <1>3
<1>5. cand'[b] = [cand[b] EXCEPT ![d] = row] /\ \A c \in Batches : c # b => cand'[c] = cand[c]
  BY <1>1, <1>2
<1>6. cand'[b][d] = row /\ \A e \in Deals : e # d => cand'[b][e] = cand[b][e]
  BY <1>1, <1>5
<1>7. \A c \in Batches, e \in Deals : ~(c = b /\ e = d) => cand'[c][e] = cand[c][e]
  <2> SUFFICES ASSUME NEW c \in Batches, NEW e \in Deals, ~(c = b /\ e = d)
               PROVE  cand'[c][e] = cand[c][e]
    OBVIOUS
  <2>1. CASE c = b
    BY <1>6, <2>1
  <2>2. CASE c # b
    BY <1>5, <2>2
  <2>3. QED BY <2>1, <2>2
<1>8. QED BY <1>4, <1>5, <1>6, <1>7 DEF OnlyRow

\* A row that is there is rewritten: it is completed, by a finalization that is possible,
\* or it has no artifacts.
LEMMA OneRowMoves ==
    ASSUME Tables, NEW b \in Batches, NEW d \in Deals, NEW row \in Candidate,
           Rewritten(b, d, row), ranked' = ranked,
           batch' \in [Batches -> {"absent", "queued"} \cup Verdicts],
           \A c \in Batches : batch[c] # "absent" => batch'[c] # "absent",
           cand[b][d].status \notin {"absent", "completed"}, RowStep(cand[b][d], row),
           \/ row.status # "completed" /\ row.source = "none"
           \/ /\ row.status = "completed" /\ row.saved = row.analysis
              /\ Finalizable(b, d, row.analysis)
              /\ row.source = IF Reusable(b, d, row.analysis) THEN "reused" ELSE "own"
    PROVE  RowsMove /\ Tables'
<1>1. /\ cand' \in [Batches -> [Deals -> Candidate]] /\ cand'[b][d] = row
      /\ \A c \in Batches, e \in Deals : ~(c = b /\ e = d) => cand'[c][e] = cand[c][e]
  <2>1. RunsTypeOK
    BY DEF Tables
  <2>2. OnlyRow(b, d, row)
    BY <2>1, OneRowOf
  <2>3. QED BY <2>2 DEF OnlyRow
<1>2. \A c \in Batches, e \in Deals : RowStep(cand[c][e], cand'[c][e])
  <2>1. \A c \in Batches, e \in Deals : RowStep(cand[c][e], cand[c][e])
    BY DEF RowStep
  <2>2. QED BY <1>1, <2>1
<1>3. row.status # "absent" /\ row.linked = cand[b][d].linked
  BY DEF RowStep
<1>4. \A c \in Batches : Present(cand'[c]) = Present(cand[c])
  BY <1>1, <1>3 DEF Present
<1>5. RowsMove
  BY <1>2, <1>4 DEF RowsMove
<1>6. RunsTypeOK'
  BY <1>1 DEF Tables, RunsTypeOK
<1>7. FinalizedAsCheckpointed'
  BY <1>1 DEF Tables, RowsGood, FinalizedAsCheckpointed
<1>8. \A c \in Batches : Ordinary(c.print) \in Batches /\ Ordinary(c.print).nonce = NoNonce
                         /\ Ordinary(c.print).print = c.print
  BY DEF Ordinary, Batches
<1>9. \A c \in Batches, e \in Deals :
          cand[c][e].status = "completed" => cand'[c][e] = cand[c][e]
  BY <1>1
<1>10. cand[b][d].source = "none"
  BY DEF Tables, RowsGood, ArtifactsOwned
<1>11. ASSUME row.source = "reused"
       PROVE  /\ b.nonce # NoNonce /\ cand[Ordinary(b.print)][d].status = "completed"
              /\ cand[Ordinary(b.print)][d].source = "own"
              /\ cand[Ordinary(b.print)][d].analysis = row.analysis
  BY <1>11 DEF Reusable, Tables, RowsGood
<1>12. ASSUME row.source = "own"
       PROVE  \A o \in Batches : ~(/\ o.print = b.print /\ cand[o][d].source = "own"
                                   /\ cand[o][d].analysis = row.analysis)
  <2>1. ~Taken(b, d, row.analysis)
    BY <1>12 DEF Finalizable
  <2>2. QED BY <2>1 DEF Taken, Tables, RowsGood, ArtifactsOwned
<1>13. ArtifactsOwned'
  <2> SUFFICES ASSUME NEW c \in Batches, NEW e \in Deals
               PROVE  /\ cand'[c][e].status = "completed" <=> cand'[c][e].source # "none"
                      /\ cand'[c][e].source = "reused" =>
                             /\ c.nonce # NoNonce
                             /\ cand'[Ordinary(c.print)][e].status = "completed"
                             /\ cand'[Ordinary(c.print)][e].source = "own"
                             /\ cand'[Ordinary(c.print)][e].analysis = cand'[c][e].analysis
                      /\ cand'[c][e].source = "own" => \A o \in Batches \ {c} :
                             ~(/\ o.print = c.print /\ cand'[o][e].source = "own"
                               /\ cand'[o][e].analysis = cand'[c][e].analysis)
    BY DEF ArtifactsOwned
  <2>1. cand'[c][e].status = "completed" <=> cand'[c][e].source # "none"
    BY <1>1 DEF Tables, RowsGood, ArtifactsOwned
  <2>2. CASE c = b /\ e = d
    <3>1. ASSUME row.source = "own", NEW o \in Batches \ {b}
          PROVE  ~(/\ o.print = b.print /\ cand'[o][d].source = "own"
                   /\ cand'[o][d].analysis = row.analysis)
      BY <1>1, <1>12, <3>1
    <3>2. QED BY <1>1, <1>8, <1>9, <1>11, <2>1, <2>2, <3>1
  <2>3. CASE ~(c = b /\ e = d)
    <3>1. cand'[c][e] = cand[c][e]
      BY <1>1, <2>3
    <3>2. /\ cand[c][e].source = "reused" =>
                 /\ c.nonce # NoNonce
                 /\ cand[Ordinary(c.print)][e].status = "completed"
                 /\ cand[Ordinary(c.print)][e].source = "own"
                 /\ cand[Ordinary(c.print)][e].analysis = cand[c][e].analysis
          /\ cand[c][e].source = "own" => \A o \in Batches \ {c} :
                 ~(/\ o.print = c.print /\ cand[o][e].source = "own"
                   /\ cand[o][e].analysis = cand[c][e].analysis)
      BY DEF Tables, RowsGood, ArtifactsOwned
    <3>3. ASSUME cand[c][e].source = "own", NEW o \in Batches \ {c}
          PROVE  ~(/\ o.print = c.print /\ cand'[o][e].source = "own"
                   /\ cand'[o][e].analysis = cand[c][e].analysis)
      <4>1. CASE o = b /\ e = d
        BY <1>1, <1>12, <3>3, <4>1
      <4>2. CASE ~(o = b /\ e = d)
        BY <1>1, <3>2, <3>3, <4>2
      <4>3. QED BY <4>1, <4>2
    <3>4. QED BY <1>8, <1>9, <2>1, <3>1, <3>2, <3>3
  <2>4. QED BY <2>2, <2>3
<1>14. RowsGood'
  <2>1. \A c \in Batches : Present(cand'[c]) \in {{}, Selected(c)}
    BY <1>4 DEF Tables, RowsGood
  <2>2. \A c \in Batches, e \in Deals :
            /\ cand'[c][e].status = "absent" => cand'[c][e].saved = NoVariant
            /\ cand'[c][e].linked => c.nonce # NoNonce
    BY <1>1, <1>3 DEF Tables, RowsGood
  <2>3. QED BY <1>7, <1>13, <2>1, <2>2 DEF RowsGood, Selected
<1>15. QED BY <1>5, <1>6, <1>14 DEF Tables

-----------------------------------------------------------------------------
(* What an attempt remembers, and the tables. *)

\* The batch, the rows and the settled candidates an attempt has seen are there.
Placed(j) ==
    /\ j.pc \in {"select", "create"} \cup AtCandidate \cup {"done"} => batch[j.on] # "absent"
    /\ j.pc \in {"create"} \cup AtCandidate \cup {"done"} => j.on \in ranked
    /\ j.pc \in AtCandidate \cup {"done"} =>
           /\ Present(cand[j.on]) = Selected(j.on)
           /\ \A i \in 1..Len(j.plan) :
                  j.plan[i] \in Settled => cand[j.on][Ranked[j.on.print][i]].status = j.plan[i]
    /\ j.pc = "finalize" => Row(j).saved = j.result

NewStatus(j) ==
    IF j.pc = "claim" THEN "running" ELSE IF j.pc = "finalize" THEN "completed" ELSE j.pc

\* The statuses its tally counts.
After(j) == [d \in Deals |->
    [status |-> IF d = Deal(j) THEN NewStatus(j) ELSE cand[j.on][d].status]]

\* An open transaction may still commit, and its tally is late at worst.
MayCommit(j) == Open(j) => Accepted(j) /\ (j.tally = "running" \/ j.tally = Aggregate(After(j)))

Good(j) == Shaped(j) /\ Placed(j) /\ MayCommit(j)

\* A step leaves an open transaction's row alone, and does not take its fingerprint.
Steady(j) == Open(j) =>
    /\ cand'[j.on][Deal(j)] = cand[j.on][Deal(j)]
    /\ j.pc = "finalize" /\ ~Taken(j.on, Deal(j), j.result) => ~Taken(j.on, Deal(j), j.result)'

LEMMA AggregateSame ==
    ASSUME NEW r, NEW q, \A d \in Deals : r[d].status = q[d].status
    PROVE  Aggregate(r) = Aggregate(q)
<1>1. Present(r) = Present(q)
  BY DEF Present
<1>2. \A T : AllIn(r, T) <=> AllIn(q, T)
  BY <1>1 DEF AllIn, Present
<1>3. QED BY <1>2 DEF Aggregate

LEMMA PlacedStays ==
    ASSUME NEW j \in Job, Shaped(j), Placed(j), RowsMove
    PROVE  Placed(j)'
<1>1. j.on \in Batches
  BY DEF Job
<1>2. ASSUME j.pc \in AtCandidate \cup {"done"}
      PROVE  /\ Present(cand'[j.on]) = Selected(j.on)
             /\ \A i \in 1..Len(j.plan) :
                    j.plan[i] \in Settled => cand'[j.on][Ranked[j.on.print][i]].status = j.plan[i]
  <2>1. \A i \in 1..Len(j.plan) : Ranked[j.on.print][i] \in Deals
    BY <1>1, <1>2, RankedType DEF Shaped
  <2>2. \A i \in 1..Len(j.plan) :
            j.plan[i] \in Settled => cand'[j.on][Ranked[j.on.print][i]].status = j.plan[i]
    BY <1>1, <1>2, <2>1 DEF Placed, RowsMove, RowStep
  <2>3. Present(cand[j.on]) = Selected(j.on)
    BY <1>2 DEF Placed
  <2>4. Present(cand'[j.on]) \in {Present(cand[j.on]), Selected(j.on)}
    BY <1>1 DEF RowsMove
  <2>5. QED BY <2>2, <2>3, <2>4
<1>3. ASSUME j.pc = "finalize" PROVE Row(j)'.saved = j.result
  <2>1. Deal(j) \in Deals /\ j.result \in Variants
    BY <1>3, DealType DEF Shaped, AtCandidate
  <2>2. cand[j.on][Deal(j)].saved = j.result
    BY <1>3 DEF Placed, Row
  <2>3. cand'[j.on][Deal(j)].saved = j.result
    BY <1>1, <2>1, <2>2 DEF RowsMove, RowStep
  <2>4. QED BY <2>3 DEF Row, Deal
<1>4. QED BY <1>1, <1>2, <1>3 DEF Placed, RowsMove

LEMMA OpenRow ==
    ASSUME RunsTypeOK, NEW j \in Job, Shaped(j),
           j.pc \in {"claim", "finalize", "unavailable", "failed"}
    PROVE  /\ j.on \in Batches /\ Deal(j) \in Deals /\ Row(j) = cand[j.on][Deal(j)]
           /\ Row(j) \in Candidate
           /\ NewRow(j) \in Candidate /\ NewRow(j).status = NewStatus(j)
           /\ Aggregate([cand[j.on] EXCEPT ![Deal(j)] = NewRow(j)]) = Aggregate(After(j))
<1>1. j.on \in Batches /\ Deal(j) \in Deals
  BY DealType DEF AtCandidate
<1>2. cand[j.on] \in [Deals -> Candidate] /\ Row(j) = cand[j.on][Deal(j)]
  BY <1>1 DEF RunsTypeOK, Row
<1>3. Row(j) \in Candidate
  BY <1>1, <1>2
<1>4. NewRow(j) \in Candidate /\ NewRow(j).status = NewStatus(j)
  <2>1. CASE j.pc = "claim"
    <3>1. NewRow(j) = ClaimedRow(Row(j))
      BY <2>1 DEF NewRow
    <3> DEFINE r1 == [Row(j) EXCEPT !.status = "running"]
               r2 == [r1 EXCEPT !.claims = @ + 1]
               r3 == [r2 EXCEPT !.fresh = TRUE]
    <3>2. r1 \in Candidate /\ r1.status = "running"
      BY <1>3 DEF Candidate, CandidateStatus
    <3> HIDE DEF r1
    <3>3. r2 \in Candidate /\ r2.status = "running"
      BY <3>2 DEF Candidate
    <3> HIDE DEF r2
    <3>4. r3 \in Candidate /\ r3.status = "running"
      BY <3>3 DEF Candidate
    <3>5. NewRow(j) = r3
      BY <3>1 DEF r1, r2, ClaimedRow
    <3>6. QED BY <2>1, <3>4, <3>5 DEF NewStatus
  <2>2. CASE j.pc = "finalize"
    <3>1. PICK s \in {"own", "reused"} :
              NewRow(j) = [Row(j) EXCEPT !.status = "completed", !.fresh = FALSE,
                                         !.analysis = j.result, !.source = s]
      BY <1>2, <2>2 DEF NewRow, FinalizedRow
    <3>2. j.result \in Variants
      BY <2>2 DEF Shaped
    <3> DEFINE r1 == [Row(j) EXCEPT !.status = "completed"]
               r2 == [r1 EXCEPT !.fresh = FALSE]
               r3 == [r2 EXCEPT !.analysis = j.result]
               r4 == [r3 EXCEPT !.source = s]
    <3>3. r1 \in Candidate /\ r1.status = "completed"
      BY <1>3 DEF Candidate, CandidateStatus, Settled
    <3> HIDE DEF r1
    <3>4. r2 \in Candidate /\ r2.status = "completed"
      BY <3>3 DEF Candidate
    <3> HIDE DEF r2
    <3>5. r3 \in Candidate /\ r3.status = "completed"
      BY <3>2, <3>4 DEF Candidate
    <3> HIDE DEF r3
    <3>6. r4 \in Candidate /\ r4.status = "completed"
      BY <3>5 DEF Candidate
    <3>7. NewRow(j) = r4
      BY <3>1 DEF r1, r2, r3
    <3>8. QED BY <2>2, <3>6, <3>7 DEF NewStatus
  <2>3. CASE j.pc \in {"unavailable", "failed"}
    <3>1. NewRow(j) = MarkedRow(Row(j), j.pc)
      BY <2>3 DEF NewRow
    <3>2. QED BY <1>3, <2>3, <3>1 DEF MarkedRow, Candidate, CandidateStatus, Settled, NewStatus
  <2>4. QED BY <2>1, <2>2, <2>3
<1>5. Aggregate([cand[j.on] EXCEPT ![Deal(j)] = NewRow(j)]) = Aggregate(After(j))
  <2>1. \A e \in Deals : [cand[j.on] EXCEPT ![Deal(j)] = NewRow(j)][e].status
                          = After(j)[e].status
    BY <1>1, <1>2, <1>4 DEF After
  <2>2. QED BY <2>1, AggregateSame
<1>6. QED BY <1>1, <1>2, <1>3, <1>4, <1>5

LEMMA AcceptedStays ==
    ASSUME RunsTypeOK, NEW j \in Job, Shaped(j), Open(j), Accepted(j), RowsMove, Steady(j)
    PROVE  Accepted(j)'
<1>1. /\ j.on \in Batches /\ Deal(j) \in Deals
      /\ j.pc \in {"claim", "finalize", "unavailable", "failed"}
  BY DealType DEF Shaped, AtCandidate
<1>2. Row(j)' = Row(j)
  BY <1>1 DEF Steady, Row, Deal
<1>3. CASE j.pc = "finalize"
  <2>1. Ordinary(j.on.print) \in Batches
    BY <1>1 DEF Ordinary, Batches
  <2>2. ASSUME Reusable(j.on, Deal(j), j.result) PROVE Reusable(j.on, Deal(j), j.result)'
    <3> DEFINE d == Deal(j)
    <3>1. cand'[j.on][d] = cand[j.on][d]
      BY DEF Steady
    <3>2. cand'[Ordinary(j.on.print)][d] = cand[Ordinary(j.on.print)][d]
      BY <1>1, <2>1, <2>2 DEF Reusable, RowsMove, RowStep
    <3>3. QED BY <2>2, <3>1, <3>2 DEF Reusable, Deal
  <2>3. Finalizable(j.on, Deal(j), j.result)'
    BY <1>3, <2>2 DEF Finalizable, Steady, Accepted
  <2>4. QED BY <1>2, <1>3, <2>3 DEF Accepted
<1>4. CASE j.pc # "finalize"
  BY <1>2, <1>4 DEF Accepted
<1>5. QED BY <1>3, <1>4

LEMMA TallyStays ==
    ASSUME Tables, NEW j \in Job, Shaped(j), Placed(j), Open(j), Accepted(j),
           RowsMove, Aggregate(After(j)) # "running"
    PROVE  Aggregate(After(j))' = Aggregate(After(j))
<1>1. j.pc \in {"claim", "finalize", "unavailable", "failed"} /\ j.pc \in AtCandidate
  BY DEF Shaped, AtCandidate
<1>2. j.on \in Batches /\ Deal(j) \in Deals
  BY <1>1, DealType
<1>3. \A d \in Present(After(j)) : After(j)[d].status \in Settled
  BY DEF Aggregate, AllIn
<1>4. Present(cand'[j.on]) = Present(cand[j.on])
  BY <1>1, <1>2 DEF Placed, RowsMove
<1>5. ASSUME NEW d \in Deals PROVE After(j)'[d].status = After(j)[d].status
  <2>1. CASE d = Deal(j)
    <3>1. After(j)'[d].status = NewStatus(j) /\ After(j)[d].status = NewStatus(j)
      BY <2>1 DEF After, NewStatus, Deal
    <3>2. QED BY <3>1
  <2>2. CASE d # Deal(j)
    <3>1. After(j)'[d].status = cand'[j.on][d].status /\ After(j)[d].status = cand[j.on][d].status
      BY <2>2 DEF After, Deal
    <3>2. cand[j.on][d].status = "absent" \/ cand[j.on][d].status \in Settled
      BY <1>3, <3>1 DEF Present
    <3>3. cand'[j.on][d].status = cand[j.on][d].status
      BY <1>2, <1>4, <3>2 DEF Present, RowsMove, RowStep
    <3>4. QED BY <3>1, <3>3
  <2>3. QED BY <2>1, <2>2
<1>6. \A r, q : (\A d \in Deals : r[d].status = q[d].status) => Aggregate(r) = Aggregate(q)
  BY AggregateSame
<1>7. Aggregate(After(j)') = Aggregate(After(j))
  BY <1>5, <1>6
<1>8. QED BY <1>7 DEF Aggregate, AllIn, Present

LEMMA GoodStays ==
    ASSUME Tables, NEW j \in Job, Good(j), RowsMove, Steady(j)
    PROVE  Good(j)'
<1>1. Shaped(j)'
  BY DEF Good, Shaped, Open
<1>2. Placed(j)'
  BY PlacedStays DEF Good
<1>3. ASSUME Open(j) PROVE Accepted(j)' /\ (j.tally = "running" \/ j.tally = Aggregate(After(j))')
  <2>1. Accepted(j)'
    BY <1>3, AcceptedStays DEF Good, MayCommit, Tables
  <2>2. CASE j.tally = "running"
    BY <2>1, <2>2
  <2>3. CASE j.tally = Aggregate(After(j)) /\ j.tally # "running"
    BY <1>3, <2>1, <2>3, TallyStays DEF Good, MayCommit
  <2>4. QED BY <1>3, <2>1, <2>2, <2>3 DEF Good, MayCommit
<1>4. QED BY <1>1, <1>2, <1>3 DEF Good, MayCommit, Open

-----------------------------------------------------------------------------
(* The invariant, and what a step has to show. *)

AttemptsGood == \A a \in Attempts, j \in Job : j = job[a] => Good(j)

\* Two open transactions work on different rows, and do not finalize the same analysis.
Apart(i, j) == Open(i) /\ Open(j) =>
    /\ ~SameRow(i, j)
    /\ ~(/\ i.pc = "finalize" /\ j.pc = "finalize" /\ i.on.print = j.on.print
         /\ Deal(i) = Deal(j) /\ i.result = j.result)

PairsApart == \A a, o \in Attempts : a # o => Apart(job[a], job[o])

Inv == JobTypeOK /\ Tables /\ AttemptsGood /\ PairsApart

LEMMA RowsApart ==
    ASSUME NEW i \in Job, NEW j \in Job, Shaped(i), Shaped(j), i.pc \in AtCandidate,
           j.pc \in AtCandidate, ~SameRow(i, j)
    PROVE  ~(i.on = j.on /\ Deal(i) = Deal(j))
<1> SUFFICES ASSUME i.on = j.on, Deal(i) = Deal(j) PROVE FALSE
  OBVIOUS
<1>1. i.pos \in 1..Len(Ranked[i.on.print]) /\ j.pos \in 1..Len(Ranked[i.on.print])
  BY DEF Shaped
<1>2. i.on \in Batches
  BY DEF Job
<1>3. i.pos = j.pos
  BY <1>1, <1>2, RankedType DEF Deal
<1>4. QED BY <1>3 DEF SameRow

LEMMA Advance ==
    ASSUME Inv, NEW a \in Attempts, NEW k \in Job, Go(a, k), faults' \in 0..MaxFaults,
           RowsMove, Tables', Good(k)',
           \A o \in Attempts \ {a} : Open(k) => Apart(k, job[o]),
           \A o \in Attempts \ {a} : \A j \in Job : j = job[o] => Steady(j)
    PROVE  Inv'
<1>1. job \in [Attempts -> Job] /\ job' = [job EXCEPT ![a] = k]
  BY DEF Inv, JobTypeOK, Go
<1>2. JobTypeOK'
  BY <1>1 DEF JobTypeOK
<1>3. \A o \in Attempts : job'[o] = IF o = a THEN k ELSE job[o]
  BY <1>1
<1>4. AttemptsGood'
  <2> SUFFICES ASSUME NEW o \in Attempts, NEW j \in Job, j = job'[o] PROVE Good(j)'
    BY DEF AttemptsGood
  <2>1. CASE o = a
    BY <1>3, <2>1
  <2>2. CASE o # a
    <3>1. j = job[o]
      BY <1>3, <2>2
    <3>2. Good(j) /\ Steady(j)
      BY <2>2, <3>1 DEF Inv, AttemptsGood
    <3>3. QED BY <3>2, GoodStays DEF Inv
  <2>3. QED BY <2>1, <2>2
<1>5. PairsApart'
  <2> SUFFICES ASSUME NEW p \in Attempts, NEW o \in Attempts, p # o
               PROVE  Apart(job'[p], job'[o])
    BY DEF PairsApart, Apart, Open, SameRow, Deal
  <2>1. \A i, j : Apart(i, j) <=> Apart(j, i)
    BY DEF Apart, SameRow
  <2>2. \A i, j : ~Open(i) => Apart(i, j)
    BY DEF Apart
  <2>3. CASE p = a
    BY <1>3, <2>2, <2>3
  <2>4. CASE o = a
    BY <1>3, <2>1, <2>2, <2>4
  <2>5. CASE p # a /\ o # a
    BY <1>3, <2>5 DEF Inv, PairsApart
  <2>6. QED BY <2>3, <2>4, <2>5
<1>6. QED BY <1>2, <1>4, <1>5 DEF Inv

\* Nothing is written: the attempt goes on with what it knew.
LEMMA Quiet ==
    ASSUME Inv, NEW a \in Attempts, NEW k \in Job, Good(k), k.tally = "none", Go(a, k),
           faults' \in 0..MaxFaults, UNCHANGED <<batch, ranked, cand>>
    PROVE  Inv'
<1>1. RowsMove /\ Tables'
  BY NoRowMoves DEF Inv
<1>2. \A j \in Job : Steady(j)
  <2>1. cand' = cand
    OBVIOUS
  <2>2. QED BY <2>1 DEF Steady, Taken
<1>3. Good(k)'
  BY <1>1, <1>2, GoodStays DEF Inv
<1>4. ~Open(k)
  BY DEF Open
<1>5. QED BY <1>1, <1>2, <1>3, <1>4, Advance

LEMMA GoodThrown ==
    ASSUME NEW j \in Job, Good(j), j.tally = "none"
    PROVE  Thrown(j) \in Job /\ Good(Thrown(j)) /\ Thrown(j).tally = "none"
<1>1. /\ Thrown(j) \in Job /\ Shaped(Thrown(j))
      /\ Thrown(j).pc \in {"failed", "threw"} /\ Thrown(j).tally = "none"
      /\ Thrown(j).on = j.on /\ Thrown(j).plan = j.plan
      /\ Thrown(j).pc = "failed" => j.pc \in AtCandidate
  BY ThrownShape DEF Good
<1>2. Placed(Thrown(j))
  BY <1>1 DEF Good, Placed, AtCandidate
<1>3. QED BY <1>1, <1>2 DEF Good, MayCommit, Open

LEMMA AttemptGood ==
    ASSUME Inv, NEW a \in Attempts
    PROVE  job[a] \in Job /\ Good(job[a]) /\ job[a].on \in Batches
BY DEF Inv, JobTypeOK, AttemptsGood, Job

LEMMA FaultsStay ==
    ASSUME Inv, faults' = faults \/ (faults < MaxFaults /\ faults' = faults + 1)
    PROVE  faults' \in 0..MaxFaults
BY UnderwritingWorkerAssumption DEF Inv, JobTypeOK

LEMMA AnswerKeeps ==
    ASSUME Inv, NEW a \in Attempts, job[a].tally = "none", NEW k \in Job, Good(k)',
           k.tally = "none", Answer(a, k), RowsMove, Tables',
           \A o \in Attempts \ {a} : \A j \in Job : j = job[o] => Steady(j)
    PROVE  Inv'
<1>1. faults' \in 0..MaxFaults
  BY FaultsStay DEF Answer
<1>2. CASE Go(a, k)
  <2>1. ~Open(k)
    BY DEF Open
  <2>2. QED BY <1>1, <1>2, <2>1, Advance
<1>3. CASE Go(a, Thrown(job[a]))
  <2>1. PICK t \in Job : t = Thrown(job[a]) /\ Good(t) /\ t.tally = "none"
    BY AttemptGood, GoodThrown
  <2>2. ~Open(t)
    BY <2>1 DEF Open
  <2>3. Good(t)'
    <3>1. Steady(t)
      BY <2>2 DEF Steady
    <3>2. QED BY <2>1, <3>1, GoodStays DEF Inv
  <2>4. Go(a, t)
    BY <1>3, <2>1
  <2>5. QED BY <1>1, <2>2, <2>3, <2>4, Advance
<1>4. QED BY <1>2, <1>3 DEF Answer

LEMMA RefusedKeeps ==
    ASSUME Inv, NEW a \in Attempts, job[a].tally = "none", Refused(a)
    PROVE  Inv'
<1>1. PICK t \in Job : t = Thrown(job[a]) /\ Good(t) /\ t.tally = "none"
  BY AttemptGood, GoodThrown
<1>2. Go(a, t) /\ UNCHANGED <<batch, ranked, cand, faults>>
  BY <1>1 DEF Refused
<1>3. QED BY <1>1, <1>2, Quiet, FaultsStay

-----------------------------------------------------------------------------
(* The steps before the candidates. *)

LEMMA BeginKeeps ==
    ASSUME Inv, NEW a \in Attempts, Begin(a)
    PROVE  Inv'
<1>1. PICK p \in Prints, f \in ForceChoices : Moves(a, Start(p, f))
  BY DEF Begin
<1>2. Start(p, f) \in Job
  BY UnderwritingWorkerAssumption DEF Start, Job, Ordinary, Batches
<1>3. /\ Start(p, f).pc = "look" /\ Start(p, f).tally = "none"
  BY DEF Start
<1>4. Good(Start(p, f))
  BY <1>3 DEF Good, Shaped, Placed, MayCommit, Open, AtCandidate
<1>5. Go(a, Start(p, f)) /\ UNCHANGED <<batch, ranked, cand, faults>>
  BY <1>1 DEF Moves
<1>6. QED BY <1>2, <1>3, <1>4, <1>5, Quiet, FaultsStay

LEMMA FoundShape ==
    ASSUME NEW a \in Attempts, NEW j \in Job, j.tally = "none"
    PROVE  /\ BatchFound(a, j) \in Job /\ BatchFound(a, j).tally = "none"
           /\ Shaped(BatchFound(a, j)) /\ BatchFound(a, j).on.print = j.on.print
           /\ \/ BatchFound(a, j).pc = "look"
              \/ (BatchFound(a, j).pc = "select" /\ BatchFound(a, j).on = j.on)
<1>1. CASE j.force /\ j.on.nonce = NoNonce
  <2> DEFINE on == [j.on EXCEPT !.nonce = a]
             k == [j EXCEPT !.pc = "look"]
  <2>1. on \in Batches /\ on.print = j.on.print
    BY UnderwritingWorkerAssumption DEF Job, Batches
  <2>2. k \in Job
    BY DEF Job
  <2>3. BatchFound(a, j) = [k EXCEPT !.on = on]
    BY <1>1 DEF BatchFound
  <2> HIDE DEF on
  <2>4. [k EXCEPT !.on = on] \in Job
    BY <2>1, <2>2 DEF Job
  <2>5. BatchFound(a, j).pc = "look" /\ BatchFound(a, j).tally = "none"
        /\ BatchFound(a, j).on = on
    BY <2>3 DEF Job
  <2>6. QED BY <2>1, <2>3, <2>4, <2>5 DEF Shaped, Open, AtCandidate
<1>2. CASE ~(j.force /\ j.on.nonce = NoNonce)
  <2>1. BatchFound(a, j) = [j EXCEPT !.pc = "select"]
    BY <1>2 DEF BatchFound
  <2>2. QED BY <2>1 DEF Job, Shaped, Open, AtCandidate
<1>3. QED BY <1>1, <1>2

LEMMA LookUpKeeps ==
    ASSUME Inv, NEW a \in Attempts, LookUp(a)
    PROVE  Inv'
<1>1. PICK j \in Job : j = job[a] /\ Good(j) /\ j.pc = "look" /\ j.tally = "none"
  BY AttemptGood DEF LookUp, Good, Shaped, Open
<1>2. CASE batch[j.on] # "absent"
  <2> DEFINE k == BatchFound(a, j)
  <2>1. /\ k \in Job /\ k.tally = "none" /\ Shaped(k)
        /\ k.pc = "look" \/ (k.pc = "select" /\ k.on = j.on)
    BY <1>1, FoundShape
  <2> HIDE DEF k
  <2>2. Good(k)
    BY <1>2, <2>1 DEF Good, Placed, MayCommit, Open, AtCandidate
  <2>3. Answer(a, k) /\ UNCHANGED <<batch, ranked, cand>>
    BY <1>1, <1>2, <2>1 DEF LookUp, k
  <2>4. RowsMove /\ Tables'
    BY <2>3, NoRowMoves DEF Inv
  <2>5. \A i \in Job : Steady(i)
    <3>1. cand' = cand
      BY <2>3
    <3>2. QED BY <3>1 DEF Steady, Taken
  <2>6. Good(k)'
    BY <2>1, <2>2, <2>4, <2>5, GoodStays DEF Inv
  <2>7. QED BY <1>1, <2>1, <2>3, <2>4, <2>5, <2>6, AnswerKeeps
<1>3. CASE batch[j.on] = "absent"
  <2>1. PICK k \in Job : k = [j EXCEPT !.pc = "insert"] /\ k.pc = "insert" /\ k.tally = "none"
    <3>1. [j EXCEPT !.pc = "insert"] \in Job
      BY DEF Job
    <3>2. [j EXCEPT !.pc = "insert"].pc = "insert" /\ [j EXCEPT !.pc = "insert"].tally = "none"
      BY <1>1 DEF Job
    <3>3. QED BY <3>1, <3>2
  <2>2. Good(k)
    BY <2>1 DEF Good, Shaped, Placed, MayCommit, Open, AtCandidate
  <2>3. Go(a, k) /\ UNCHANGED <<batch, ranked, cand, faults>>
    BY <1>1, <1>3, <2>1 DEF LookUp, Moves
  <2>4. QED BY <2>1, <2>2, <2>3, Quiet, FaultsStay
<1>4. QED BY <1>2, <1>3

LEMMA SteadyIfSame ==
    ASSUME cand' = cand, NEW j \in Job
    PROVE  Steady(j)
BY DEF Steady, Taken

LEMMA InsertKeeps ==
    ASSUME Inv, NEW a \in Attempts, Insert(a)
    PROVE  Inv'
<1>1. PICK j \in Job : j = job[a] /\ Good(j) /\ j.pc = "insert" /\ j.tally = "none"
  BY AttemptGood DEF Insert, Good, Shaped, Open
<1>2. CASE batch[j.on] # "absent"
  BY <1>1, <1>2, RefusedKeeps DEF Insert
<1>3. CASE batch[j.on] = "absent"
  <2> DEFINE k == BatchFound(a, j)
  <2>1. /\ k \in Job /\ k.tally = "none" /\ Shaped(k)
        /\ k.pc = "look" \/ (k.pc = "select" /\ k.on = j.on)
    BY <1>1, FoundShape
  <2> HIDE DEF k
  <2>2. InsertBatch(j.on) /\ Answer(a, k)
    BY <1>1, <1>3 DEF Insert, k
  <2>3. RowsMove /\ Tables'
    BY <1>1, <2>2, InsertMoves DEF Inv, Job
  <2>4. cand' = cand /\ batch'[j.on] # "absent"
    BY <2>2 DEF InsertBatch, Inv, Tables, RunsTypeOK, Job
  <2>5. Good(k)'
    <3>1. Shaped(k)'
      BY <2>1 DEF Shaped, Open
    <3>2. Placed(k)'
      BY <2>1, <2>4 DEF Placed, AtCandidate
    <3>3. QED BY <2>1, <3>1, <3>2 DEF Good, MayCommit, Open
  <2>6. \A i \in Job : Steady(i)
    BY <2>4, SteadyIfSame
  <2>7. QED BY <1>1, <2>1, <2>2, <2>3, <2>5, <2>6, AnswerKeeps
<1>4. QED BY <1>2, <1>3

LEMMA SelectKeeps ==
    ASSUME Inv, NEW a \in Attempts, Select(a)
    PROVE  Inv'
<1>1. PICK j \in Job : j = job[a] /\ Good(j) /\ j.pc = "select" /\ j.tally = "none"
  BY AttemptGood DEF Select, Good, Shaped, Open
<1> DEFINE k == [j EXCEPT !.pc = "create"]
<1>2. k \in Job /\ k.pc = "create" /\ k.tally = "none" /\ k.on = j.on
  BY <1>1 DEF Job
<1> HIDE DEF k
<1>3. SaveSelections(j.on) /\ Answer(a, k)
  BY <1>1 DEF Select, k
<1>4. j.on \in Batches /\ batch[j.on] # "absent"
  BY <1>1 DEF Job, Good, Placed
<1>5. RowsMove /\ Tables'
  BY <1>3, <1>4, SelectMoves DEF Inv
<1>6. cand' = cand /\ j.on \in ranked'
  BY <1>3 DEF SaveSelections
<1>7. Good(k)'
  <2>1. batch'[j.on] # "absent"
    BY <1>4, <1>5 DEF RowsMove
  <2>2. Shaped(k)'
    BY <1>2 DEF Shaped, Open, AtCandidate
  <2>3. Placed(k)'
    BY <1>2, <1>6, <2>1 DEF Placed, AtCandidate
  <2>4. QED BY <1>2, <2>2, <2>3 DEF Good, MayCommit, Open
<1>8. \A i \in Job : Steady(i)
  BY <1>6, SteadyIfSame
<1>9. QED BY <1>1, <1>2, <1>3, <1>5, <1>7, <1>8, AnswerKeeps

LEMMA CreateGoes ==
    ASSUME Inv, NEW a \in Attempts, NEW j \in Job, j = job[a], Create(a)
    PROVE  /\ Good(j) /\ j.pc = "create" /\ j.tally = "none"
           /\ j.on \in Batches /\ batch[j.on] # "absent" /\ j.on \in ranked
           /\ CreateSelected(j.on)
           /\ \E k \in Job :
                  /\ Answer(a, k) /\ Shaped(k) /\ k.pc \in {"claim", "done"} /\ k.tally = "none"
                  /\ k.on = j.on
                  /\ \A i \in 1..Len(k.plan) :
                         cand'[j.on][Ranked[j.on.print][i]].status = k.plan[i]
<1>1. Good(j) /\ j.pc = "create" /\ j.tally = "none"
  BY AttemptGood DEF Create, Good, Shaped, Open
<1>2. j.on \in Batches /\ batch[j.on] # "absent" /\ j.on \in ranked /\ CreateSelected(j.on)
  BY <1>1 DEF Job, Good, Placed, Create
<1>3. cand' \in [Batches -> [Deals -> Candidate]]
  BY <1>2, CreateRows DEF Inv
<1> DEFINE r == Ranked[j.on.print]
<1>4. PICK plan \in Seq(CandidateStatus) : /\ plan = [i \in 1..Len(r) |-> cand'[j.on][r[i]].status]
                                           /\ Len(plan) = Len(r)
  <2>1. \A i \in 1..Len(r) : cand'[j.on][r[i]].status \in CandidateStatus
    BY <1>2, <1>3, RankedType DEF Candidate
  <2>2. Len(r) \in Nat
    BY <1>2, RankedType
  <2> HIDE DEF r
  <2>3. [i \in 1..Len(r) |-> cand'[j.on][r[i]].status] \in [1..Len(r) -> CandidateStatus]
    BY <2>1
  <2> DEFINE f == [i \in 1..Len(r) |-> cand'[j.on][r[i]].status]
  <2>4. f \in [1..Len(r) -> CandidateStatus]
    BY <2>3
  <2> HIDE DEF f
  <2>5. f \in Seq(CandidateStatus) /\ Len(f) = Len(r)
    BY <2>2, <2>4
  <2>6. QED BY <2>5 DEF f
<1> DEFINE l == [j EXCEPT !.plan = plan]
           k == Enter(l, 1)
<1>5. l \in Job /\ l.plan = plan /\ l.on = j.on /\ l.tally = "none"
  BY <1>1 DEF Job
<1>6. Answer(a, k)
  BY <1>4 DEF Create
<1>7. /\ k \in Job /\ Shaped(k) /\ k.pc \in {"claim", "done"} /\ k.tally = "none"
      /\ k.on = j.on /\ k.plan = plan
  <2> HIDE DEF l
  <2>1. \A i \in 1..Len(l.plan) : i < 1 => l.plan[i] \in Settled
    OBVIOUS
  <2>2. Len(l.plan) = Len(Ranked[l.on.print])
    BY <1>4, <1>5
  <2>3. 1 \in Nat \ {0}
    OBVIOUS
  <2>4. /\ k \in Job /\ Shaped(k) /\ k.pc \in {"claim", "done"} /\ k.tally = "none"
        /\ k.on = l.on /\ k.plan = l.plan
    BY <1>5, <2>1, <2>2, <2>3, EnterShape
  <2>5. QED BY <1>5, <2>4
<1> HIDE DEF k, l
<1>8. \A i \in 1..Len(k.plan) : cand'[j.on][Ranked[j.on.print][i]].status = k.plan[i]
  <2>1. \A i \in 1..Len(r) : cand'[j.on][r[i]].status = plan[i]
    BY <1>4
  <2>2. Len(k.plan) = Len(r) /\ k.plan = plan
    BY <1>4, <1>7
  <2>3. QED BY <2>1, <2>2
<1>9. QED BY <1>1, <1>2, <1>6, <1>7, <1>8

LEMMA CreateKeeps ==
    ASSUME Inv, NEW a \in Attempts, Create(a)
    PROVE  Inv'
<1>1. PICK j \in Job : j = job[a] /\ Good(j) /\ j.pc = "create" /\ j.tally = "none"
  BY AttemptGood DEF Create, Good, Shaped, Open
<1>2. j.on \in Batches /\ batch[j.on] # "absent" /\ j.on \in ranked /\ CreateSelected(j.on)
  BY <1>1 DEF Job, Good, Placed, Create
<1>3. RowsMove /\ Tables' /\ Present(cand'[j.on]) = Selected(j.on)
  BY <1>2, CreateMoves DEF Inv
<1>4. /\ \A c \in Batches, d \in Deals :
             cand'[c][d] = IF c = j.on /\ d \in Selected(j.on) /\ cand[j.on][d].status = "absent"
                           THEN QueuedRow(j.on, d) ELSE cand[c][d]
      /\ cand' \in [Batches -> [Deals -> Candidate]]
      /\ \A d \in Deals : QueuedRow(j.on, d).status = "queued"
  BY <1>2, CreateRows DEF Inv
<1>5. PICK k \in Job :
          /\ Answer(a, k) /\ Shaped(k) /\ k.pc \in {"claim", "done"} /\ k.tally = "none"
          /\ k.on = j.on
          /\ \A i \in 1..Len(k.plan) :
                 cand'[j.on][Ranked[j.on.print][i]].status = k.plan[i]
  BY <1>1, CreateGoes
<1>6. Good(k)'
  <2>1. Shaped(k)'
    BY <1>5 DEF Shaped, Open
  <2>2. batch'[j.on] # "absent" /\ j.on \in ranked'
    BY <1>2, <1>3 DEF RowsMove
  <2>3. Placed(k)'
    BY <1>3, <1>5, <2>2 DEF Placed, Selected, Present, AtCandidate
  <2>4. QED BY <1>5, <2>1, <2>3 DEF Good, MayCommit, Open
<1>7. ASSUME NEW o \in Attempts, NEW i \in Job, i = job[o] PROVE Steady(i)
  <2>1. Good(i)
    BY <1>7, AttemptGood
  <2>2. SUFFICES ASSUME Open(i)
                 PROVE  /\ cand'[i.on][Deal(i)] = cand[i.on][Deal(i)]
                        /\ ~Taken(i.on, Deal(i), i.result) => ~Taken(i.on, Deal(i), i.result)'
    BY DEF Steady
  <2>3. i.on \in Batches /\ Deal(i) \in Deals
    BY <2>1, <2>2, DealType DEF Good, Shaped, AtCandidate
  <2>4. cand[i.on][Deal(i)].status # "absent"
    BY <2>1, <2>2 DEF Good, MayCommit, Accepted, Claimable, Markable, Holds, Row
  <2>5. cand'[i.on][Deal(i)] = cand[i.on][Deal(i)]
    BY <1>4, <2>3, <2>4
  <2>6. \A c \in Batches, d \in Deals :
            cand'[c][d].status = "completed" => cand'[c][d] = cand[c][d]
    BY <1>4
  <2>7. ~Taken(i.on, Deal(i), i.result) => ~Taken(i.on, Deal(i), i.result)'
    BY <2>3, <2>6 DEF Taken, Deal
  <2>8. QED BY <2>5, <2>7
<1>8. QED BY <1>1, <1>3, <1>5, <1>6, <1>7, AnswerKeeps

-----------------------------------------------------------------------------
(* The steps at a candidate. *)

LEMMA AtClosed ==
    ASSUME Inv, NEW a \in Attempts, NEW j \in Job, j = job[a], ~Open(j), j.pc \in AtCandidate
    PROVE  /\ Good(j) /\ j.tally = "none" /\ j.on \in Batches /\ Deal(j) \in Deals
           /\ batch[j.on] # "absent" /\ j.on \in ranked
           /\ Present(cand[j.on]) = Selected(j.on)
           /\ cand[j.on][Deal(j)].status # "absent"
<1>1. Good(j) /\ j.tally = "none" /\ j.on \in Batches
  BY AttemptGood DEF Open
<1>2. Deal(j) \in Deals /\ Deal(j) \in Selected(j.on)
  BY <1>1, DealType DEF Good
<1>3. batch[j.on] # "absent" /\ j.on \in ranked /\ Present(cand[j.on]) = Selected(j.on)
  BY <1>1 DEF Good, Placed
<1>4. cand[j.on][Deal(j)].status # "absent"
  BY <1>2, <1>3 DEF Present
<1>5. QED BY <1>1, <1>2, <1>3, <1>4

LEMMA ExecuteKeeps ==
    ASSUME Inv, NEW a \in Attempts, Execute(a)
    PROVE  Inv'
<1>1. PICK j \in Job : j = job[a] /\ Good(j) /\ j.pc = "execute" /\ j.tally = "none"
  BY AttemptGood DEF Execute, Good, Shaped, Open
<1>2. ASSUME NEW v \in Variants, Moves(a, [j EXCEPT !.pc = "checkpoint", !.result = v])
      PROVE  Inv'
  <2> DEFINE l == [j EXCEPT !.pc = "checkpoint"]
             k == [l EXCEPT !.result = v]
  <2>1. l \in Job /\ l.pc = "checkpoint" /\ l.tally = "none" /\ l.on = j.on /\ l.plan = j.plan
        /\ l.pos = j.pos
    BY <1>1 DEF Job
  <2>2. Moves(a, k)
    BY <1>2
  <2> HIDE DEF l
  <2>3. /\ k \in Job /\ k.pc = "checkpoint" /\ k.tally = "none" /\ k.on = j.on /\ k.plan = j.plan
        /\ k.pos = j.pos /\ k.result \in Variants
    BY <2>1 DEF Job
  <2> HIDE DEF k
  <2>4. Good(k)
    BY <1>1, <2>3, SMTT(30) DEF Good, Shaped, Placed, MayCommit, Open, AtCandidate
  <2>5. QED BY <2>2, <2>3, <2>4, Quiet, FaultsStay DEF Moves
<1>3. ASSUME NEW pc \in {"unavailable", "note"}, Moves(a, [j EXCEPT !.pc = pc])
      PROVE  Inv'
  <2> DEFINE k == [j EXCEPT !.pc = pc]
  <2>1. k \in Job /\ k.pc = pc /\ k.tally = "none" /\ k.on = j.on /\ k.plan = j.plan
        /\ k.pos = j.pos
    BY <1>1 DEF Job
  <2>2. Moves(a, k)
    BY <1>3
  <2> HIDE DEF k
  <2>3. Good(k)
    BY <1>1, <2>1 DEF Good, Shaped, Placed, MayCommit, Open, AtCandidate
  <2>4. QED BY <2>1, <2>2, <2>3, Quiet, FaultsStay DEF Moves
<1>4. QED BY <1>1, <1>2, <1>3 DEF Execute

LEMMA LostKeeps ==
    ASSUME Inv, NEW a \in Attempts, RequestLost(a) \/ Crash(a)
    PROVE  Inv'
<1>1. PICK j \in Job : j = job[a] /\ Good(j) /\ j.tally = "none"
  BY AttemptGood DEF RequestLost, Waits, Crash, Open
<1>2. faults' \in 0..MaxFaults /\ UNCHANGED <<batch, ranked, cand>>
  BY FaultsStay DEF RequestLost, Crash
<1>3. CASE RequestLost(a)
  <2> DEFINE k == Thrown(j)
  <2>1. k \in Job /\ Good(k) /\ k.tally = "none"
    BY <1>1, GoodThrown
  <2>2. Go(a, k)
    BY <1>1, <1>3 DEF RequestLost
  <2> HIDE DEF k
  <2>3. QED BY <1>2, <2>1, <2>2, Quiet
<1>4. CASE Crash(a)
  <2> DEFINE k == [j EXCEPT !.pc = "threw"]
  <2>1. k \in Job /\ k.pc = "threw" /\ k.tally = "none"
    BY <1>1 DEF Job
  <2>2. Go(a, k)
    BY <1>1, <1>4 DEF Crash
  <2> HIDE DEF k
  <2>3. Good(k)
    BY <2>1 DEF Good, Shaped, Placed, MayCommit, Open, AtCandidate
  <2>4. QED BY <1>2, <2>1, <2>2, <2>3, Quiet
<1>5. QED BY <1>3, <1>4

LEMMA RejectKeeps ==
    ASSUME Inv, NEW a \in Attempts, Reject(a)
    PROVE  Inv'
<1>1. job[a].tally = "none" /\ Refused(a)
  BY DEF Reject, Open
<1>2. QED BY <1>1, RefusedKeeps

\* One row is written: every other open transaction keeps its own.
LEMMA OneRowSteady ==
    ASSUME Tables, NEW b \in Batches, NEW d \in Deals, NEW row \in Candidate,
           Rewritten(b, d, row), NEW i \in Job, Good(i),
           Open(i) => ~(i.on = b /\ Deal(i) = d),
           Open(i) /\ i.pc = "finalize" =>
               ~(/\ row.status = "completed" /\ row.source = "own" /\ i.on.print = b.print
                 /\ Deal(i) = d /\ i.result = row.analysis)
    PROVE  Steady(i)
<1>1. SUFFICES ASSUME Open(i)
               PROVE  /\ cand'[i.on][Deal(i)] = cand[i.on][Deal(i)]
                      /\ i.pc = "finalize" /\ ~Taken(i.on, Deal(i), i.result) =>
                             ~Taken(i.on, Deal(i), i.result)'
  BY DEF Steady
<1>2. i.on \in Batches /\ Deal(i) \in Deals
  BY <1>1, DealType DEF Good, Shaped, AtCandidate
<1>3. OnlyRow(b, d, row)
  BY OneRowOf DEF Tables
<1>4. cand'[i.on][Deal(i)] = cand[i.on][Deal(i)]
  BY <1>1, <1>2, <1>3 DEF OnlyRow
<1>5. ASSUME i.pc = "finalize", ~Taken(i.on, Deal(i), i.result)
      PROVE  ~Taken(i.on, Deal(i), i.result)'
  <2> SUFFICES ASSUME NEW o \in Batches, o.print = i.on.print
               PROVE  ~(/\ cand'[o][Deal(i)].status = "completed"
                        /\ cand'[o][Deal(i)].source = "own"
                        /\ cand'[o][Deal(i)].analysis = i.result)
    BY DEF Taken, Deal
  <2>1. CASE o = b /\ Deal(i) = d
    BY <1>1, <1>3, <1>5, <2>1 DEF OnlyRow
  <2>2. CASE ~(o = b /\ Deal(i) = d)
    <3>1. cand'[o][Deal(i)] = cand[o][Deal(i)]
      BY <1>2, <1>3, <2>2 DEF OnlyRow
    <3>2. QED BY <1>5, <3>1 DEF Taken
  <2>3. QED BY <2>1, <2>2
<1>6. QED BY <1>4, <1>5

LEMMA SaveKeeps ==
    ASSUME Inv, NEW a \in Attempts, NEW v \in Variants \cup {"failed"}, NEW next,
           \/ job[a].pc = "checkpoint" /\ v = job[a].result /\ next = "finalize"
           \/ job[a].pc = "note" /\ next = "failed",
           SaveFinalization(a, v, next)
    PROVE  Inv'
<1>1. PICK j \in Job : j = job[a] /\ Good(j) /\ j.pc \in {"checkpoint", "note"} /\ ~Open(j)
                       /\ j.pc \in AtCandidate
  BY AttemptGood DEF Good, Shaped, Open, AtCandidate
<1>2. CASE Refused(a)
  BY <1>1, <1>2, RefusedKeeps DEF Open
<1>3. CASE ~Refused(a)
  <2>1. /\ j.tally = "none" /\ j.on \in Batches /\ Deal(j) \in Deals
        /\ batch[j.on] # "absent" /\ Present(cand[j.on]) = Selected(j.on)
    BY <1>1, AtClosed
  <2> DEFINE c == cand[j.on][Deal(j)]
             row == [c EXCEPT !.saved = v]
             k == [j EXCEPT !.pc = next]
  <2>2. c \in Candidate
    BY <2>1 DEF Inv, Tables, RunsTypeOK
  <2>3. /\ Holds(c, j.token) /\ Savable(c, v) /\ ~Locked(a)
        /\ Rewritten(j.on, Deal(j), row) /\ UNCHANGED <<batch, ranked>> /\ Answer(a, k)
    BY <1>1, <1>3, <2>1 DEF SaveFinalization, Rewritten, SavedRow, Row, Inv, Tables, RunsTypeOK
  <2>4. c.status = "running" /\ c.source = "none"
    BY <2>1, <2>3 DEF Holds, Inv, Tables, RowsGood, ArtifactsOwned
  <2>5. /\ row \in Candidate /\ row.status = "running" /\ row.source = "none" /\ row.saved = v
        /\ row.linked = c.linked
    BY <2>2, <2>4 DEF Candidate
  <2>6. RowStep(c, row)
    BY <2>3, <2>4, <2>5 DEF RowStep, Settled, Savable
  <2>7. /\ k \in Job /\ k.pc = next /\ next \in {"finalize", "failed"} /\ k.tally = "none"
        /\ k.on = j.on /\ k.plan = j.plan /\ k.pos = j.pos /\ k.result = j.result
    BY <1>1, <2>1 DEF Job
  <2> HIDE DEF c, row, k
  <2>8. RowsMove /\ Tables'
    <3>1. batch' \in [Batches -> {"absent", "queued"} \cup Verdicts]
          /\ \A b \in Batches : batch[b] # "absent" => batch'[b] # "absent"
      BY <2>3 DEF Inv, Tables, RunsTypeOK
    <3>2. QED BY <2>1, <2>3, <2>4, <2>5, <2>6, <3>1, OneRowMoves DEF c, Inv
  <2>9. OnlyRow(j.on, Deal(j), row)
    BY <2>1, <2>3, <2>5, OneRowOf DEF Inv, Tables
  <2>10. Good(k)'
    <3>1. Shaped(k)'
      BY <1>1, <2>7 DEF Good, Shaped, Open, AtCandidate
    <3>2. Placed(j)'
      BY <1>1, <2>8, PlacedStays DEF Good
    <3>3. next = "finalize" => row.saved = j.result
      BY <1>1, <2>5
    <3>4. next = "finalize" => Row(k)'.saved = k.result
      BY <2>7, <2>9, <3>3 DEF Row, Deal, OnlyRow
    <3>5. Placed(k)'
      BY <1>1, <2>7, <3>2, <3>4 DEF Placed, AtCandidate
    <3>6. QED BY <2>7, <3>1, <3>5 DEF Good, MayCommit, Open
  <2>11. ASSUME NEW o \in Attempts \ {a}, NEW i \in Job, i = job[o] PROVE Steady(i)
    <3>1. Good(i)
      BY <2>11, AttemptGood
    <3>2. ASSUME Open(i) PROVE ~(i.on = j.on /\ Deal(i) = Deal(j))
      <4>1. ~SameRow(i, j)
        BY <1>1, <2>3, <2>11, <3>2 DEF Locked
      <4>2. i.pc \in AtCandidate
        BY <3>1, <3>2 DEF Good, Shaped, AtCandidate
      <4>3. QED BY <1>1, <3>1, <4>1, <4>2, RowsApart DEF Good
    <3>3. QED BY <2>1, <2>3, <2>5, <3>1, <3>2, OneRowSteady DEF Inv
  <2>12. QED BY <1>1, <2>1, <2>3, <2>7, <2>8, <2>10, <2>11, AnswerKeeps
<1>4. QED BY <1>2, <1>3

-----------------------------------------------------------------------------
(* The transactions in two steps. *)

LEMMA TallyKeeps ==
    ASSUME Inv, NEW a \in Attempts, Tally(a)
    PROVE  Inv'
<1>1. PICK j \in Job : /\ j = job[a] /\ Good(j) /\ ~Open(j)
                       /\ j.pc \in {"claim", "finalize", "unavailable", "failed"}
                       /\ j.pc \in AtCandidate
  BY AttemptGood DEF Tally, AtCandidate
<1> DEFINE t == Aggregate([cand[j.on] EXCEPT ![Deal(j)] = NewRow(j)])
<1>2. PICK tally \in Verdicts : tally = t
  BY AggregateType
<1> DEFINE k == [j EXCEPT !.tally = tally]
<1>3. Moves(a, k) /\ ~Locked(a) /\ ~IndexBusy(a) /\ Accepted(j)
  BY <1>1, <1>2 DEF Tally
<1>4. tally = Aggregate(After(j))
  <2>1. t = Aggregate(After(j))
    BY <1>1, OpenRow DEF Inv, Tables, Good
  <2>2. QED BY <1>2, <2>1
<1> HIDE DEF t
<1>5. /\ k \in Job /\ k.pc = j.pc /\ k.on = j.on /\ k.plan = j.plan /\ k.pos = j.pos
      /\ k.token = j.token /\ k.result = j.result /\ k.tally = tally /\ Open(k)
  BY DEF Job, Open, Verdicts
<1> HIDE DEF k
<1>6. Shaped(k) /\ Placed(k)
  BY <1>1, <1>5, SMTT(30) DEF Good, Shaped, Placed, Open, Row, Deal
<1>7. Accepted(k)
  BY <1>3, <1>5 DEF Accepted, Row, Deal
<1>8. After(k) = After(j)
  BY <1>5 DEF After, NewStatus, Deal
<1>9. Good(k)
  BY <1>4, <1>5, <1>6, <1>7, <1>8 DEF Good, MayCommit
<1>10. ASSUME NEW o \in Attempts \ {a} PROVE Apart(k, job[o])
  <2>1. SUFFICES ASSUME Open(job[o])
                 PROVE  /\ ~SameRow(k, job[o])
                        /\ ~(/\ k.pc = "finalize" /\ job[o].pc = "finalize"
                             /\ k.on.print = job[o].on.print
                             /\ Deal(k) = Deal(job[o]) /\ k.result = job[o].result)
    BY DEF Apart
  <2>2. ~SameRow(k, job[o])
    BY <1>1, <1>3, <1>5, <2>1 DEF Locked, SameRow
  <2>3. ~(/\ k.pc = "finalize" /\ job[o].pc = "finalize"
          /\ k.on.print = job[o].on.print
          /\ Deal(k) = Deal(job[o]) /\ k.result = job[o].result)
    BY <1>1, <1>3, <1>5, <2>1 DEF IndexBusy, Deal
  <2>4. QED BY <2>2, <2>3
<1>11. Go(a, k) /\ UNCHANGED <<batch, ranked, cand, faults>>
  BY <1>3 DEF Moves
<1>12. RowsMove /\ Tables'
  BY <1>11, NoRowMoves DEF Inv
<1>13. \A i \in Job : Steady(i)
  BY <1>11, SteadyIfSame
<1>14. Good(k)'
  BY <1>5, <1>9, <1>12, <1>13, GoodStays DEF Inv
<1>15. faults' \in 0..MaxFaults
  BY <1>11, FaultsStay
<1>16. QED BY <1>5, <1>10, <1>11, <1>12, <1>13, <1>14, <1>15, Advance

\* What a commit writes.
LEMMA CommitMoves ==
    ASSUME Tables, NEW j \in Job, Good(j), Open(j),
           SetCandidate(j.on, Deal(j), NewRow(j), j.tally)
    PROVE  /\ RowsMove /\ Tables'
           /\ Rewritten(j.on, Deal(j), NewRow(j)) /\ OnlyRow(j.on, Deal(j), NewRow(j))
           /\ Row(j).status \in {"queued", "running"}
           /\ NewRow(j).status = NewStatus(j)
           /\ NewRow(j).status = "completed" => NewRow(j).analysis = j.result
           /\ \A c \in Batches : batch'[c] = IF c = j.on THEN j.tally ELSE batch[c]
<1>1. /\ j.pc \in {"claim", "finalize", "unavailable", "failed"} /\ Accepted(j)
      /\ j.tally \in Verdicts
  BY DEF Good, Shaped, MayCommit, Job, Open
<1>2. /\ j.on \in Batches /\ Deal(j) \in Deals /\ Row(j) = cand[j.on][Deal(j)]
      /\ Row(j) \in Candidate
      /\ NewRow(j) \in Candidate /\ NewRow(j).status = NewStatus(j)
  BY <1>1, OpenRow DEF Good, Tables
<1>3. Row(j).status \in {"queued", "running"}
  BY <1>1 DEF Accepted, Claimable, Holds, Markable
<1>4. Row(j).source = "none"
  BY <1>2, <1>3 DEF Tables, RowsGood, ArtifactsOwned
<1>5. Rewritten(j.on, Deal(j), NewRow(j)) /\ ranked' = ranked
      /\ batch' = [batch EXCEPT ![j.on] = j.tally]
  BY DEF SetCandidate, Rewritten
<1>6. batch' \in [Batches -> {"absent", "queued"} \cup Verdicts]
      /\ \A c \in Batches : batch'[c] = IF c = j.on THEN j.tally ELSE batch[c]
  BY <1>1, <1>2, <1>5 DEF Tables, RunsTypeOK
<1>7. \A c \in Batches : batch[c] # "absent" => batch'[c] # "absent"
  BY <1>1, <1>6 DEF Verdicts
<1>8. NewRow(j).linked = Row(j).linked /\ NewRow(j).saved = Row(j).saved
  <2>1. CASE j.pc = "claim"
    BY <1>2, <2>1 DEF NewRow, ClaimedRow, Candidate
  <2>2. CASE j.pc = "finalize"
    BY <1>2, <2>2 DEF NewRow, FinalizedRow, Candidate
  <2>3. CASE j.pc \notin {"claim", "finalize"}
    BY <1>2, <2>3 DEF NewRow, MarkedRow, Candidate
  <2>4. QED BY <2>1, <2>2, <2>3
<1>9. RowStep(Row(j), NewRow(j))
  BY <1>1, <1>2, <1>3, <1>8 DEF RowStep, Settled, NewStatus
<1>10. ASSUME j.pc = "finalize"
       PROVE  /\ NewRow(j).analysis = j.result /\ NewRow(j).saved = j.result
              /\ NewRow(j).status = "completed" /\ Finalizable(j.on, Deal(j), j.result)
              /\ NewRow(j).source = IF Reusable(j.on, Deal(j), j.result) THEN "reused" ELSE "own"
  <2>1. NewRow(j).analysis = j.result
        /\ NewRow(j).source = IF Reusable(j.on, Deal(j), j.result) THEN "reused" ELSE "own"
    BY <1>2, <1>10 DEF NewRow, FinalizedRow, Candidate
  <2>2. NewRow(j).saved = j.result
    BY <1>8, <1>10 DEF Good, Placed
  <2>3. QED BY <1>1, <1>2, <1>10, <2>1, <2>2 DEF Accepted, NewStatus
<1>11. ASSUME j.pc # "finalize"
       PROVE  NewRow(j).status # "completed" /\ NewRow(j).source = "none"
  <2>1. NewRow(j).status # "completed"
    BY <1>1, <1>2, <1>11 DEF NewStatus
  <2>2. CASE j.pc = "claim"
    BY <1>2, <1>4, <2>1, <2>2 DEF NewRow, ClaimedRow, Candidate
  <2>3. CASE j.pc # "claim"
    <3>1. NewRow(j) = MarkedRow(Row(j), j.pc)
      BY <1>11, <2>3 DEF NewRow
    <3>2. MarkedRow(Row(j), j.pc).source = Row(j).source
      BY <1>2 DEF MarkedRow, Candidate
    <3>3. QED BY <1>4, <2>1, <3>1, <3>2
  <2>4. QED BY <2>1, <2>2, <2>3
<1> DEFINE row == NewRow(j)
<1>12. \/ row.status # "completed" /\ row.source = "none"
       \/ /\ row.status = "completed" /\ row.saved = row.analysis
          /\ Finalizable(j.on, Deal(j), row.analysis)
          /\ row.source = IF Reusable(j.on, Deal(j), row.analysis) THEN "reused" ELSE "own"
  BY <1>10, <1>11
<1>13. RowsMove /\ Tables'
  <2>1. cand[j.on][Deal(j)].status \notin {"absent", "completed"}
        /\ RowStep(cand[j.on][Deal(j)], row)
    BY <1>2, <1>3, <1>9
  <2>2. row \in Candidate /\ Rewritten(j.on, Deal(j), row)
    BY <1>2, <1>5
  <2> HIDE DEF row
  <2>3. QED BY <1>2, <1>5, <1>6, <1>7, <1>12, <2>1, <2>2, OneRowMoves
<1>14. OnlyRow(j.on, Deal(j), NewRow(j))
  BY <1>2, <1>5, OneRowOf DEF Tables
<1>15. QED BY <1>2, <1>3, <1>5, <1>6, <1>10, <1>11, <1>13, <1>14

LEMMA ReturnsGood ==
    ASSUME Tables, NEW j \in Job, Good(j), Open(j), NEW c \in Job,
           c = [j EXCEPT !.tally = "none"], Good(c),
           SetCandidate(j.on, Deal(j), NewRow(j), j.tally)
    PROVE  \E k \in Job : k = Returns(c) /\ k.tally = "none" /\ Good(k)'
<1>1. /\ RowsMove /\ Row(j).status \in {"queued", "running"}
      /\ OnlyRow(j.on, Deal(j), NewRow(j)) /\ NewRow(j).status = NewStatus(j)
  BY CommitMoves
<1>2. /\ c.pc = j.pc /\ c.on = j.on /\ c.plan = j.plan /\ c.pos = j.pos /\ c.tally = "none"
      /\ Deal(c) = Deal(j) /\ Row(c) = Row(j)
  BY DEF Job, Deal, Row
<1>3. j.pc \in {"claim", "finalize", "unavailable", "failed"} /\ c.pc \in AtCandidate
  BY <1>2 DEF Good, Shaped, AtCandidate
<1>4. Placed(c)' /\ Shaped(c)
  BY <1>1, PlacedStays DEF Good
<1>5. CASE j.pc = "claim"
  <2> DEFINE l == [c EXCEPT !.pc = "execute"]
             k == [l EXCEPT !.token = Row(j).claims + 1]
  <2>1. Row(j).claims + 1 \in Nat
    <3>1. Row(j) \in Candidate
      BY <1>3, OpenRow DEF Tables, Good
    <3>2. QED BY <3>1 DEF Candidate
  <2>2. l \in Job /\ l.pc = "execute" /\ l.on = c.on /\ l.plan = c.plan /\ l.pos = c.pos
        /\ l.tally = "none"
    BY <1>2 DEF Job
  <2>3. Returns(c) = k
    BY <1>2, <1>5 DEF Returns
  <2> HIDE DEF l
  <2>4. k \in Job /\ k.pc = "execute" /\ k.on = c.on /\ k.plan = c.plan /\ k.pos = c.pos
        /\ k.tally = "none"
    BY <2>1, <2>2 DEF Job
  <2>5. PICK m \in Job : m = k
    BY <2>4
  <2>6. Good(m)'
    BY <1>2, <1>3, <1>4, <2>4, <2>5, SMTT(30) DEF Good, Shaped, Placed, MayCommit, Open, AtCandidate
  <2>7. m = Returns(c) /\ m.tally = "none"
    BY <2>3, <2>4, <2>5
  <2>8. QED BY <2>6, <2>7
<1>6. CASE j.pc # "claim"
  <2> DEFINE s == IF j.pc = "finalize" THEN "completed" ELSE j.pc
  <2>1. s \in Settled /\ s = NewStatus(j)
    BY <1>3, <1>6 DEF Settled, NewStatus
  <2>2. Returns(c) = Processed(c, s)
    BY <1>2, <1>6 DEF Returns
  <2> HIDE DEF s
  <2>3. PICK k \in Job : k = Processed(c, s)
    BY <1>2, <1>3, <1>4, <2>1, ProcessedShape
  <2>4. /\ Shaped(k) /\ k.pc \in {"claim", "done"} /\ k.tally = "none"
        /\ k.on = c.on /\ k.plan = [c.plan EXCEPT ![c.pos] = s]
    BY <1>2, <1>3, <1>4, <2>1, <2>3, ProcessedShape, ZenonT(30)
  <2>5. /\ c.on \in Batches /\ Deal(c) \in Deals /\ Deal(c) = Ranked[c.on.print][c.pos]
        /\ c.plan \in Seq(CandidateStatus) /\ c.pos \in 1..Len(c.plan)
    <3>1. c.on \in Batches /\ Deal(c) \in Deals
      BY <1>3, <1>4, DealType
    <3>2. c.plan \in Seq(CandidateStatus) /\ c.pos \in 1..Len(c.plan)
      BY <1>3, <1>4 DEF Job, Shaped
    <3>3. QED BY <3>1, <3>2 DEF Deal
  <2>6. /\ DOMAIN k.plan = 1..Len(c.plan) /\ Len(k.plan) = Len(c.plan) /\ k.plan[c.pos] = s
        /\ \A i \in 1..Len(c.plan) : i # c.pos => k.plan[i] = c.plan[i]
    BY <2>4, <2>5
  <2>7. cand'[c.on][Ranked[c.on.print][c.pos]].status = s
    BY <1>1, <1>2, <2>1, <2>5 DEF OnlyRow
  <2>8. \A i \in 1..Len(k.plan) :
            k.plan[i] \in Settled => cand'[k.on][Ranked[k.on.print][i]].status = k.plan[i]
    <3> SUFFICES ASSUME NEW i \in 1..Len(k.plan), k.plan[i] \in Settled
                 PROVE  cand'[k.on][Ranked[k.on.print][i]].status = k.plan[i]
      OBVIOUS
    <3>1. CASE i = c.pos
      BY <2>4, <2>6, <2>7, <3>1
    <3>2. CASE i # c.pos
      BY <1>3, <1>4, <2>4, <2>6, <3>2 DEF Placed
    <3>3. QED BY <3>1, <3>2
  <2>9. Placed(k)'
    BY <1>3, <1>4, <2>4, <2>8 DEF Placed, AtCandidate
  <2>10. Shaped(k)'
    BY <2>4 DEF Shaped, Open
  <2>11. Good(k)'
    BY <2>4, <2>9, <2>10 DEF Good, MayCommit, Open
  <2>12. QED BY <2>2, <2>3, <2>4, <2>11
<1>7. QED BY <1>5, <1>6

LEMMA CommitKeeps ==
    ASSUME Inv, NEW a \in Attempts, Commit(a)
    PROVE  Inv'
<1>1. PICK j \in Job : j = job[a] /\ Good(j) /\ Open(j)
  BY AttemptGood DEF Commit
<1>2. SetCandidate(j.on, Deal(j), NewRow(j), j.tally)
  BY <1>1 DEF Commit
<1>3. PICK c \in Job : c = [j EXCEPT !.tally = "none"]
  BY DEF Job
<1>4. /\ Go(a, Returns(c)) \/ Go(a, Thrown(c))
      /\ faults' \in 0..MaxFaults
  BY <1>1, <1>3, FaultsStay DEF Commit
<1>5. /\ c.pc = j.pc /\ c.on = j.on /\ c.plan = j.plan /\ c.pos = j.pos /\ c.tally = "none"
      /\ c.result = j.result
  BY <1>3 DEF Job
<1>6. Good(c)
  BY <1>1, <1>5, SMTT(30) DEF Good, Shaped, Placed, MayCommit, Open, Row, Deal
<1>7. /\ RowsMove /\ Tables'
      /\ Rewritten(j.on, Deal(j), NewRow(j))
      /\ NewRow(j).status = NewStatus(j)
      /\ NewRow(j).status = "completed" => NewRow(j).analysis = j.result
  BY <1>1, <1>2, CommitMoves DEF Inv
<1>8. ASSUME NEW o \in Attempts \ {a}, NEW i \in Job, i = job[o] PROVE Steady(i)
  <2>1. Good(i)
    BY <1>8, AttemptGood
  <2>2. j.on \in Batches /\ Deal(j) \in Deals /\ NewRow(j) \in Candidate
    BY <1>1, OpenRow DEF Inv, Tables, Good, Shaped
  <2>3. Apart(i, j)
    BY <1>1, <1>8 DEF Inv, PairsApart
  <2>4. ASSUME Open(i) PROVE ~(i.on = j.on /\ Deal(i) = Deal(j))
    <3>1. ~SameRow(i, j) /\ i.pc \in AtCandidate /\ j.pc \in AtCandidate
      BY <1>1, <2>1, <2>3, <2>4 DEF Apart, Good, Shaped, AtCandidate
    <3>2. QED BY <1>1, <2>1, <3>1, RowsApart DEF Good
  <2>5. ASSUME Open(i), i.pc = "finalize", NewRow(j).status = "completed"
        PROVE  ~(i.on.print = j.on.print /\ Deal(i) = Deal(j) /\ i.result = NewRow(j).analysis)
    <3>1. j.pc = "finalize"
      BY <1>1, <1>7, <2>5 DEF NewStatus, Good, Shaped
    <3>2. QED BY <1>1, <1>7, <2>3, <2>5, <3>1 DEF Apart
  <2>6. QED BY <1>7, <2>1, <2>2, <2>4, <2>5, OneRowSteady DEF Inv
<1>9. CASE Go(a, Returns(c))
  <2>1. PICK k \in Job : k = Returns(c) /\ k.tally = "none" /\ Good(k)'
    BY <1>1, <1>2, <1>3, <1>6, ReturnsGood DEF Inv
  <2>2. Go(a, k) /\ ~Open(k)
    BY <1>9, <2>1 DEF Open
  <2>3. QED BY <1>4, <1>7, <1>8, <2>1, <2>2, Advance
<1>10. CASE Go(a, Thrown(c))
  <2>1. PICK k \in Job : k = Thrown(c) /\ k.tally = "none" /\ Good(k)
    BY <1>5, <1>6, GoodThrown
  <2>2. Go(a, k) /\ ~Open(k)
    BY <1>10, <2>1 DEF Open
  <2>3. Good(k)'
    BY <1>7, <2>1, <2>2, GoodStays DEF Inv, Steady
  <2>4. QED BY <1>4, <1>7, <1>8, <2>2, <2>3, Advance
<1>11. QED BY <1>4, <1>9, <1>10

LEMMA ExpireKeeps ==
    ASSUME Inv, NEW b \in Batches, NEW d \in Deals, Expire(b, d)
    PROVE  Inv'
<1> DEFINE c == cand[b][d]
           row == [c EXCEPT !.fresh = FALSE]
<1>1. /\ c.status = "running" /\ c.fresh /\ cand' = [cand EXCEPT ![b][d].fresh = FALSE]
      /\ UNCHANGED <<batch, ranked, job, faults>>
      /\ \A a \in Attempts : Open(job[a]) => ~(job[a].on = b /\ Deal(job[a]) = d)
  BY DEF Expire, ExpireLease
<1>2. c \in Candidate
  BY DEF Inv, Tables, RunsTypeOK
<1>3. Rewritten(b, d, row)
  BY <1>1 DEF Rewritten
<1>4. c.source = "none"
  BY <1>1 DEF Inv, Tables, RowsGood, ArtifactsOwned
<1>5. /\ row \in Candidate /\ row.status = "running" /\ row.source = "none"
      /\ row.saved = c.saved /\ row.linked = c.linked
  BY <1>1, <1>2, <1>4 DEF Candidate
<1> HIDE DEF row
<1>6. RowStep(c, row)
  BY <1>1, <1>5 DEF RowStep, Settled
<1>7. RowsMove /\ Tables'
  <2>1. batch' \in [Batches -> {"absent", "queued"} \cup Verdicts]
        /\ \A e \in Batches : batch[e] # "absent" => batch'[e] # "absent"
    BY <1>1 DEF Inv, Tables, RunsTypeOK
  <2>2. QED BY <1>1, <1>3, <1>5, <1>6, <2>1, OneRowMoves DEF Inv
<1>8. ASSUME NEW a \in Attempts, NEW i \in Job, i = job[a] PROVE Steady(i)
  <2>1. Good(i)
    BY <1>8, AttemptGood
  <2>2. QED BY <1>1, <1>3, <1>5, <1>8, <2>1, OneRowSteady DEF Inv
<1>9. AttemptsGood'
  <2> SUFFICES ASSUME NEW a \in Attempts, NEW j \in Job, j = job'[a] PROVE Good(j)'
    BY DEF AttemptsGood
  <2>1. j = job[a]
    BY <1>1
  <2>2. Good(j) /\ Steady(j)
    BY <1>8, <2>1 DEF Inv, AttemptsGood
  <2>3. QED BY <1>7, <2>2, GoodStays DEF Inv
<1>10. PairsApart'
  BY <1>1 DEF Inv, PairsApart, Apart, Open, SameRow, Deal
<1>11. JobTypeOK'
  BY <1>1 DEF Inv, JobTypeOK
<1>12. QED BY <1>7, <1>9, <1>10, <1>11 DEF Inv

-----------------------------------------------------------------------------
(* Theorems. *)

LEMMA InvInit == ASSUME Init PROVE Inv
<1>1. /\ batch = [b \in Batches |-> "absent"] /\ ranked = {} /\ faults = 0
      /\ cand = [b \in Batches |-> [d \in Deals |-> Absent]]
      /\ job = [a \in Attempts |-> NotStarted]
  BY DEF Init, RunsInit
<1>2. Absent \in Candidate
  BY DEF Absent, Candidate, CandidateStatus
<1>3. RunsTypeOK
  BY <1>1, <1>2 DEF RunsTypeOK
<1>4. RowsGood
  <2>1. \A b \in Batches, d \in Deals : cand[b][d] = Absent
    BY <1>1
  <2>2. /\ Absent.status = "absent" /\ Absent.source = "none" /\ Absent.saved = NoVariant
        /\ ~Absent.linked
    BY DEF Absent
  <2>3. \A b \in Batches : Present(cand[b]) = {}
    BY <2>1, <2>2 DEF Present
  <2>4. ArtifactsOwned /\ FinalizedAsCheckpointed
    BY <2>1, <2>2 DEF ArtifactsOwned, FinalizedAsCheckpointed
  <2>5. QED BY <2>1, <2>2, <2>3, <2>4 DEF RowsGood
<1>5. NotStarted \in Job /\ NotStarted.pc = "off" /\ NotStarted.tally = "none"
  <2> DEFINE p == CHOOSE p \in Prints : TRUE
             s == Start(p, FALSE)
  <2>1. p \in Prints
    BY UnderwritingRunsAssumption
  <2> HIDE DEF p
  <2>2. s \in Job /\ s.tally = "none"
    BY <2>1 DEF Start, Job, Ordinary, Batches
  <2>3. NotStarted = [s EXCEPT !.pc = "off"]
    BY DEF NotStarted, p
  <2> HIDE DEF s
  <2>4. QED BY <2>2, <2>3 DEF Job
<1>6. Good(NotStarted)
  BY <1>5 DEF Good, Shaped, Placed, MayCommit, Open, AtCandidate
<1>7. JobTypeOK
  BY <1>1, <1>5, UnderwritingWorkerAssumption DEF JobTypeOK
<1>8. AttemptsGood /\ PairsApart
  BY <1>1, <1>5, <1>6 DEF AttemptsGood, PairsApart, Apart, Open
<1>9. QED BY <1>3, <1>4, <1>7, <1>8 DEF Inv, Tables

LEMMA InvNext == ASSUME Inv, [Next]_vars PROVE Inv'
<1>1. CASE UNCHANGED vars
  <2>1. UNCHANGED <<batch, ranked, cand, job, faults>>
    BY <1>1 DEF vars
  <2>2. RowsMove /\ Tables'
    BY <2>1, NoRowMoves DEF Inv
  <2>3. AttemptsGood'
    <3> SUFFICES ASSUME NEW a \in Attempts, NEW j \in Job, j = job'[a] PROVE Good(j)'
      BY DEF AttemptsGood
    <3>1. Good(j) /\ Steady(j)
      BY <2>1, SteadyIfSame DEF Inv, AttemptsGood
    <3>2. QED BY <2>2, <3>1, GoodStays DEF Inv
  <2>4. JobTypeOK' /\ PairsApart'
    BY <2>1 DEF Inv, JobTypeOK, PairsApart, Apart, Open, SameRow, Deal
  <2>5. QED BY <2>2, <2>3, <2>4 DEF Inv
<1>2. ASSUME NEW a \in Attempts, Begin(a) \/ Step(a) \/ RequestLost(a) \/ Crash(a)
      PROVE  Inv'
  <2>1. CASE Begin(a)
    BY <2>1, BeginKeeps
  <2>2. CASE LookUp(a)
    BY <2>2, LookUpKeeps
  <2>3. CASE Insert(a)
    BY <2>3, InsertKeeps
  <2>4. CASE Select(a)
    BY <2>4, SelectKeeps
  <2>5. CASE Create(a)
    BY <2>5, CreateKeeps
  <2>6. CASE Tally(a)
    BY <2>6, TallyKeeps
  <2>7. CASE Commit(a)
    BY <2>7, CommitKeeps
  <2>8. CASE Reject(a)
    BY <2>8, RejectKeeps
  <2>9. CASE Execute(a)
    BY <2>9, ExecuteKeeps
  <2>10. CASE Checkpoint(a)
    <3>1. job[a].pc = "checkpoint" /\ SaveFinalization(a, job[a].result, "finalize")
      BY <2>10 DEF Checkpoint
    <3>2. job[a].result \in Variants
      BY <3>1, AttemptGood DEF Good, Shaped
    <3>3. QED BY <3>1, <3>2, SaveKeeps
  <2>11. CASE Note(a)
    <3>1. job[a].pc = "note" /\ SaveFinalization(a, "failed", "failed")
      BY <2>11 DEF Note
    <3>2. QED BY <3>1, SaveKeeps
  <2>12. CASE RequestLost(a) \/ Crash(a)
    BY <2>12, LostKeeps
  <2>13. QED BY <1>2, <2>1, <2>2, <2>3, <2>4, <2>5, <2>6, <2>7, <2>8, <2>9, <2>10, <2>11,
                <2>12 DEF Step
<1>3. ASSUME NEW b \in Batches, NEW d \in Deals, Expire(b, d) PROVE Inv'
  BY <1>3, ExpireKeeps
<1>4. QED BY <1>1, <1>2, <1>3 DEF Next

LEMMA InvAlways == Spec => []Inv
<1>1. Init => Inv
  BY InvInit
<1>2. Inv /\ [Next]_vars => Inv'
  BY InvNext
<1>3. QED BY <1>1, <1>2, PTL DEF Spec

\* The tables and the attempts' records have their types in every reachable state.
THEOREM UnderwritingTypeCorrect == Spec => []TypeOK
<1>1. Inv => TypeOK
  BY DEF Inv, Tables, TypeOK
<1>2. QED BY <1>1, InvAlways, PTL

\* A completed candidate has artifacts of its own or its completed parent's, and no two
\* candidates own the artifacts of one analysis (finalize_or_reuse_underwriting_run).
THEOREM ArtifactsOwnedHolds == Spec => []ArtifactsOwned
<1>1. Inv => ArtifactsOwned
  BY DEF Inv, Tables, RowsGood
<1>2. QED BY <1>1, InvAlways, PTL

\* What a candidate was finalized with is what its finalization checkpoint holds
\* (processCandidate saves it before it finalizes; a completed one is immutable).
THEOREM FinalizedAsCheckpointedHolds == Spec => []FinalizedAsCheckpointed
<1>1. Inv => FinalizedAsCheckpointed
  BY DEF Inv, Tables, RowsGood
<1>2. QED BY <1>1, InvAlways, PTL

-----------------------------------------------------------------------------
(* The promise. *)

OutcomesOf(rows) == [d \in Deals |-> Outcome(rows[d].status)]

\* The tally of the rows is the truth about their outcomes.
LEMMA TallyIsTruth ==
    ASSUME NEW rows, \A d \in Deals : rows[d].status \in CandidateStatus
    PROVE  Shown(Aggregate(rows)) = Promise!Truth(OutcomesOf(rows))
<1> DEFINE results == {OutcomesOf(rows)[d] : d \in Deals} \ {"none"}
<1>1. \A d \in Deals : OutcomesOf(rows)[d] = Outcome(rows[d].status)
  BY DEF OutcomesOf
<1>2. \A r : r \in results <=> \E d \in Present(rows) : r = Outcome(rows[d].status)
  BY <1>1 DEF Present, Outcome, Settled
<1>3. Promise!Truth(OutcomesOf(rows)) =
          IF "pending" \in results THEN "open"
          ELSE IF results \subseteq {"completed"} THEN "completed"
          ELSE IF "completed" \notin results THEN "failed"
          ELSE "partial"
  BY DEF Promise!Truth
<1> HIDE DEF results
<1>4. \A d \in Present(rows) :
          /\ rows[d].status \in Settled => Outcome(rows[d].status) = rows[d].status
          /\ rows[d].status \notin Settled => Outcome(rows[d].status) = "pending"
  BY DEF Present, Outcome, Settled
<1>5. "pending" \in results <=> ~AllIn(rows, Settled)
  BY <1>2, <1>4 DEF AllIn, Settled
<1>6. ASSUME AllIn(rows, Settled)
      PROVE  /\ results \subseteq {"completed"} <=> AllIn(rows, {"completed"})
             /\ "completed" \notin results <=> AllIn(rows, {"unavailable", "failed"})
  BY <1>2, <1>4, <1>6 DEF AllIn, Settled
<1>7. QED BY <1>3, <1>5, <1>6 DEF Aggregate, Shown

\* Only the outcomes' owner batch is published anew.
Shows(b, s) == \A c \in Batches : batch'[c] = IF c = b THEN s ELSE batch[c]

LEMMA PublishIs ==
    ASSUME Tables', NEW b \in Batches, NEW s, Shows(b, s),
           s \in {"queued", "running"} \/ s = Aggregate(cand'[b])
    PROVE  Promise!Publish(b)
<1>1. outcomeOf'[b] = OutcomesOf(cand'[b])
  BY DEF outcomeOf, OutcomesOf
<1>2. \A d \in Deals : cand'[b][d].status \in CandidateStatus
  BY DEF Tables, RunsTypeOK, Candidate
<1>3. \A rows : (\A d \in Deals : rows[d].status \in CandidateStatus) =>
          Shown(Aggregate(rows)) = Promise!Truth(OutcomesOf(rows))
  BY TallyIsTruth
<1>4. Shown(s) \in {"open", Promise!Truth(outcomeOf'[b])}
  BY <1>1, <1>2, <1>3 DEF Shown
<1>5. publishedOf' = [publishedOf EXCEPT ![b] = Shown(s)]
  BY DEF Shows, publishedOf
<1>6. QED BY <1>4, <1>5 DEF Promise!Publish

\* The status of every row is what it was, for the promise.
OutcomesKept == \A b \in Batches, d \in Deals :
    Outcome(cand'[b][d].status) = Outcome(cand[b][d].status)

PromiseStutters == UNCHANGED <<outcomeOf, publishedOf>>

PromiseStep == Promise!Next \/ PromiseStutters

LEMMA KeptOutcomes ==
    ASSUME OutcomesKept
    PROVE  outcomeOf' = outcomeOf
<1>1. \A b \in Batches : [d \in Deals |-> Outcome(cand'[b][d].status)]
                         = [d \in Deals |-> Outcome(cand[b][d].status)]
  BY DEF OutcomesKept
<1>2. QED BY <1>1 DEF outcomeOf

LEMMA QuietPromise ==
    ASSUME OutcomesKept, batch' = batch
    PROVE  PromiseStep
<1>1. outcomeOf' = outcomeOf
  BY KeptOutcomes
<1>2. publishedOf' = publishedOf
  BY DEF publishedOf
<1>3. QED BY <1>1, <1>2 DEF PromiseStep, PromiseStutters

LEMMA ShowPromise ==
    ASSUME Tables', OutcomesKept, NEW b \in Batches, NEW s, Shows(b, s),
           s \in {"queued", "running"} \/ s = Aggregate(cand'[b])
    PROVE  PromiseStep
<1>1. outcomeOf' = outcomeOf
  BY KeptOutcomes
<1>2. Promise!Show(b)
  BY <1>1, PublishIs DEF Promise!Show
<1>3. QED BY <1>2 DEF PromiseStep, Promise!Next

LEMMA InsertPromise ==
    ASSUME Inv, Inv', NEW b \in Batches, InsertBatch(b)
    PROVE  PromiseStep
<1>1. OutcomesKept
  BY DEF InsertBatch, OutcomesKept
<1>2. Shows(b, "queued")
  BY DEF InsertBatch, Shows, Inv, Tables, RunsTypeOK
<1>3. QED BY <1>1, <1>2, ShowPromise DEF Inv

\* With its ranks saved, a batch shows its tally, or its rows are still to come.
LEMMA RefreshedIs ==
    ASSUME NEW b \in Batches, NEW old, NEW rows
    PROVE  \/ Refreshed(b, old, rows, TRUE) = Aggregate(rows)
           \/ /\ Refreshed(b, old, rows, TRUE) = old
              /\ Present(rows) = {} /\ Selected(b) # {}
<1>1. Present(rows) = {} => Aggregate(rows) = "completed"
  BY DEF Aggregate, AllIn
<1>2. QED BY <1>1 DEF Refreshed

LEMMA SelectPromise ==
    ASSUME Inv, Inv', NEW b \in Batches, SaveSelections(b)
    PROVE  PromiseStep
<1>1. cand' = cand
  BY DEF SaveSelections
<1>2. OutcomesKept
  BY <1>1 DEF OutcomesKept
<1>3. Shows(b, Refreshed(b, batch[b], cand[b], TRUE))
  BY DEF SaveSelections, Shows, Inv, Tables, RunsTypeOK
<1>4. CASE Refreshed(b, batch[b], cand[b], TRUE) = Aggregate(cand[b])
  BY <1>1, <1>2, <1>3, <1>4, ShowPromise DEF Inv
<1>5. CASE Refreshed(b, batch[b], cand[b], TRUE) = batch[b]
  <2>1. batch' = batch
    <3>1. batch' = [batch EXCEPT ![b] = batch[b]]
      BY <1>5 DEF SaveSelections
    <3>2. QED BY <3>1 DEF Inv, Tables, RunsTypeOK
  <2>2. QED BY <1>2, <2>1, QuietPromise
<1>6. QED BY <1>4, <1>5, RefreshedIs

LEMMA CreateShows ==
    ASSUME Inv, NEW b \in Batches, batch[b] # "absent", b \in ranked, CreateSelected(b)
    PROVE  Shows(b, Aggregate(cand'[b]))
<1>1. Tables
  BY DEF Inv
<1>2. Present(cand'[b]) = Selected(b)
  BY <1>1, CreateMoves
<1>3. batch' = [batch EXCEPT ![b] = Refreshed(b, batch[b], cand'[b], TRUE)]
  BY DEF CreateSelected, Inv, Tables, RunsTypeOK
<1>4. Refreshed(b, batch[b], cand'[b], TRUE) = Aggregate(cand'[b])
  BY <1>2, RefreshedIs
<1>5. QED BY <1>3, <1>4 DEF Shows, Inv, Tables, RunsTypeOK

LEMMA CreatePromise ==
    ASSUME Inv, Inv', NEW b \in Batches, batch[b] # "absent", b \in ranked, CreateSelected(b)
    PROVE  PromiseStep
<1>1. Tables
  BY DEF Inv
<1>2. /\ \A c \in Batches, d \in Deals :
             cand'[c][d] = IF c = b /\ d \in Selected(b) /\ cand[b][d].status = "absent"
                           THEN QueuedRow(b, d) ELSE cand[c][d]
      /\ \A d \in Deals : QueuedRow(b, d).status = "queued"
  BY <1>1, CreateRows
<1>4. Shows(b, Aggregate(cand'[b]))
  BY CreateShows
<1>5. Promise!Publish(b)
  BY <1>4, PublishIs DEF Inv
<1>6. publishedOf[b] # "none"
  BY DEF publishedOf, Shown, Settled, Inv, Tables, RunsTypeOK, Verdicts
<1>7. outcomeOf' = [outcomeOf EXCEPT ![b] =
          [d \in Deals |-> IF d \in Selected(b) /\ @[d] = "none" THEN "pending" ELSE @[d]]]
  <2>1. \A c \in Batches, d \in Deals :
            Outcome(cand'[c][d].status) =
                IF c = b /\ d \in Selected(b) /\ Outcome(cand[b][d].status) = "none"
                THEN "pending" ELSE Outcome(cand[c][d].status)
    BY <1>2 DEF Outcome, Settled
  <2>2. \A c \in Batches :
            [d \in Deals |-> Outcome(cand'[c][d].status)] =
                IF c = b
                THEN [d \in Deals |-> IF d \in Selected(b) /\ outcomeOf[b][d] = "none"
                                      THEN "pending" ELSE outcomeOf[b][d]]
                ELSE outcomeOf[c]
    BY <2>1 DEF outcomeOf
  <2>3. QED BY <2>2 DEF outcomeOf
<1>8. Promise!Propose(b)
  <2>1. Selected(b) \in SUBSET Deals
    BY RankedType
  <2>2. QED BY <1>5, <1>6, <1>7, <2>1 DEF Promise!Propose
<1>9. QED BY <1>8 DEF PromiseStep, Promise!Next

LEMMA CommitPromise ==
    ASSUME Inv, Inv', NEW a \in Attempts, Commit(a)
    PROVE  PromiseStep
<1>1. PICK j \in Job : j = job[a] /\ Good(j) /\ Open(j)
  BY AttemptGood DEF Commit
<1>2. /\ OnlyRow(j.on, Deal(j), NewRow(j)) /\ Row(j).status \in {"queued", "running"}
      /\ NewRow(j).status = NewStatus(j)
      /\ \A c \in Batches : batch'[c] = IF c = j.on THEN j.tally ELSE batch[c]
  BY <1>1, CommitMoves DEF Commit, Inv
<1>3. /\ j.pc \in {"claim", "finalize", "unavailable", "failed"}
      /\ j.on \in Batches /\ Deal(j) \in Deals /\ Row(j) = cand[j.on][Deal(j)]
  BY <1>1, OpenRow DEF Inv, Tables, Good, Shaped
<1>4. \A b \in Batches, d \in Deals :
          cand'[b][d].status = IF b = j.on /\ d = Deal(j) THEN NewStatus(j) ELSE cand[b][d].status
  BY <1>2, <1>3 DEF OnlyRow
<1>5. Aggregate(cand'[j.on]) = Aggregate(After(j))
  <2>1. \A d \in Deals : cand'[j.on][d].status = After(j)[d].status
    BY <1>3, <1>4 DEF After
  <2>2. QED BY <2>1, AggregateSame
<1>6. Shows(j.on, j.tally) /\ (j.tally \in {"queued", "running"} \/ j.tally = Aggregate(cand'[j.on]))
  BY <1>1, <1>2, <1>5 DEF Shows, Good, MayCommit
<1>7. CASE j.pc = "claim"
  <2>1. OutcomesKept
    BY <1>2, <1>3, <1>4, <1>7 DEF OutcomesKept, Outcome, NewStatus, Settled
  <2>2. QED BY <1>3, <1>6, <2>1, ShowPromise DEF Inv
<1>8. CASE j.pc # "claim"
  <2>1. NewStatus(j) \in Promise!Outcomes /\ Outcome(NewStatus(j)) = NewStatus(j)
    BY <1>3, <1>8 DEF NewStatus, Promise!Outcomes, Outcome, Settled
  <2>2. outcomeOf[j.on][Deal(j)] = "pending"
    BY <1>2, <1>3 DEF outcomeOf, Outcome, Settled
  <2>3. outcomeOf' = [outcomeOf EXCEPT ![j.on][Deal(j)] = NewStatus(j)]
    <3>1. \A b \in Batches, d \in Deals :
              Outcome(cand'[b][d].status) = IF b = j.on /\ d = Deal(j) THEN NewStatus(j)
                                            ELSE Outcome(cand[b][d].status)
      BY <1>4, <2>1
    <3>2. \A b \in Batches :
              [d \in Deals |-> Outcome(cand'[b][d].status)] =
                  IF b = j.on THEN [outcomeOf[b] EXCEPT ![Deal(j)] = NewStatus(j)]
                  ELSE outcomeOf[b]
      BY <3>1 DEF outcomeOf
    <3>3. QED BY <3>2 DEF outcomeOf
  <2>4. Promise!Publish(j.on)
    BY <1>3, <1>6, PublishIs DEF Inv
  <2>5. Promise!Settle(j.on, Deal(j))
    BY <2>1, <2>2, <2>3, <2>4 DEF Promise!Settle
  <2>6. QED BY <1>3, <2>5 DEF PromiseStep, Promise!Next
<1>9. QED BY <1>7, <1>8

LEMMA SaveWrites ==
    ASSUME Inv, NEW a \in Attempts, NEW j \in Job, j = job[a], Good(j), NEW v, NEW next,
           j.pc \in {"checkpoint", "note"}, SaveFinalization(a, v, next)
    PROVE  /\ batch' = batch
           /\ \A b \in Batches, d \in Deals : cand'[b][d].status = cand[b][d].status
           /\ \A b \in Batches : b # j.on => cand'[b] = cand[b]
<1>1. j.on \in Batches /\ Deal(j) \in Deals
  BY DealType DEF Good, AtCandidate
<1>2. /\ cand' = cand \/ cand' = [cand EXCEPT ![j.on][Deal(j)] = SavedRow(@, v)]
      /\ batch' = batch
  BY DEF SaveFinalization, Refused
<1>3. cand \in [Batches -> [Deals -> Candidate]]
  BY DEF Inv, Tables, RunsTypeOK
<1>4. \A c \in Candidate : SavedRow(c, v).status = c.status
  BY DEF SavedRow, Candidate
<1>5. CASE cand' = cand
  BY <1>2, <1>5
<1>6. CASE cand' = [cand EXCEPT ![j.on][Deal(j)] = SavedRow(@, v)]
  <2> DEFINE row == SavedRow(cand[j.on][Deal(j)], v)
  <2>1. row.status = cand[j.on][Deal(j)].status
    BY <1>1, <1>3, <1>4
  <2>2. cand' = [cand EXCEPT ![j.on][Deal(j)] = row]
    BY <1>6
  <2> HIDE DEF row
  <2>3. \A b \in Batches, d \in Deals :
            cand'[b][d] = IF b = j.on /\ d = Deal(j) THEN row ELSE cand[b][d]
    BY <1>1, <1>3, <2>2
  <2>4. \A b \in Batches : b # j.on => cand'[b] = cand[b]
    BY <1>1, <1>3, <2>2
  <2>5. QED BY <1>2, <2>1, <2>3, <2>4
<1>7. QED BY <1>2, <1>5, <1>6

LEMMA SavePromise ==
    ASSUME Inv, NEW a \in Attempts, NEW v, NEW next, job[a].pc \in {"checkpoint", "note"},
           SaveFinalization(a, v, next)
    PROVE  PromiseStep
<1>1. PICK j \in Job : j = job[a] /\ Good(j)
  BY AttemptGood
<1>2. /\ batch' = batch
      /\ \A b \in Batches, d \in Deals : cand'[b][d].status = cand[b][d].status
  BY <1>1, SaveWrites
<1>3. QED BY <1>2, QuietPromise DEF OutcomesKept

LEMMA PromiseSteps == ASSUME Inv, Inv', [Next]_vars PROVE PromiseStep
<1>1. ASSUME UNCHANGED <<batch, ranked, cand>> PROVE PromiseStep
  BY <1>1, QuietPromise DEF OutcomesKept
<1>2. ASSUME NEW a \in Attempts, Begin(a) \/ Step(a) \/ RequestLost(a) \/ Crash(a)
      PROVE  PromiseStep
  <2>1. PICK j \in Job : j = job[a] /\ Good(j) /\ j.on \in Batches
    BY AttemptGood
  <2>2. CASE Begin(a) \/ LookUp(a) \/ Tally(a) \/ Reject(a) \/ Execute(a) \/ RequestLost(a)
             \/ Crash(a)
    BY <1>1, <2>2 DEF Begin, LookUp, Tally, Reject, Refused, Execute, RequestLost, Crash, Moves
  <2>3. CASE Insert(a)
    <3>1. CASE Refused(a)
      BY <1>1, <3>1 DEF Refused
    <3>2. CASE InsertBatch(j.on)
      BY <2>1, <3>2, InsertPromise
    <3>3. QED BY <2>1, <2>3, <3>1, <3>2 DEF Insert
  <2>4. CASE Select(a)
    BY <2>1, <2>4, SelectPromise DEF Select
  <2>5. CASE Create(a)
    BY <2>1, <2>5, CreatePromise DEF Create, Good, Placed
  <2>6. CASE Commit(a)
    BY <2>6, CommitPromise
  <2>7. CASE Checkpoint(a) \/ Note(a)
    BY <2>7, SavePromise DEF Checkpoint, Note
  <2>8. QED BY <1>2, <2>2, <2>3, <2>4, <2>5, <2>6, <2>7 DEF Step
<1>3. ASSUME NEW b \in Batches, NEW d \in Deals, Expire(b, d) PROVE PromiseStep
  <2>1. cand' = [cand EXCEPT ![b][d].fresh = FALSE] /\ batch' = batch
    BY <1>3 DEF Expire, ExpireLease
  <2>2. OutcomesKept
    BY <2>1 DEF OutcomesKept, Inv, Tables, RunsTypeOK, Candidate
  <2>3. QED BY <2>1, <2>2, QuietPromise
<1>4. CASE UNCHANGED vars
  BY <1>1, <1>4 DEF vars
<1>5. QED BY <1>2, <1>3, <1>4 DEF Next

\* The orchestrator and the stored functions keep the promise of UnderwritingPromise:
\* a candidate is settled once, and a batch shows a verdict only when it is the true one,
\* although two transactions of one batch count without seeing each other's row.
THEOREM PromiseRefined == Spec => PromiseSpec
<1>1. Init => Promise!Init
  <2> SUFFICES ASSUME Init PROVE Promise!Init
    OBVIOUS
  <2>1. batch = [b \in Batches |-> "absent"]
        /\ cand = [b \in Batches |-> [d \in Deals |-> Absent]]
    BY DEF Init, RunsInit
  <2>2. \A b \in Batches, d \in Deals : Outcome(cand[b][d].status) = "none"
    BY <2>1 DEF Outcome, Absent
  <2>3. outcomeOf = [b \in Batches |-> [d \in Deals |-> "none"]]
    BY <2>2 DEF outcomeOf
  <2>4. publishedOf = [b \in Batches |-> "none"]
    BY <2>1 DEF publishedOf, Shown
  <2>5. QED BY <2>3, <2>4 DEF Promise!Init
<1>2. Inv /\ Inv' /\ [Next]_vars => [Promise!Next]_(Promise!vars)
  BY PromiseSteps DEF PromiseStep, PromiseStutters, Promise!vars
<1>3. QED BY <1>1, <1>2, InvAlways, PTL DEF Spec, PromiseSpec, Promise!Spec

-----------------------------------------------------------------------------
(* An attempt that is alone with its report leaves the batch showing the truth. *)

Working == AtCandidate \cup {"done"}

\* Another attempt has been at a batch of the same report.
Accompanied(a, j) ==
    \E o \in Attempts \ {a} : job[o].pc # "off" /\ job[o].on.print = j.on.print

\* The batch shows its tally, and an open transaction's tally is not late.
Exact(j) ==
    /\ j.pc \in Working => batch[j.on] = Aggregate(cand[j.on])
    /\ Open(j) => j.tally = Aggregate(After(j))

SoloExact == \A a \in Attempts, j \in Job : j = job[a] => Accompanied(a, j) \/ Exact(j)

\* Where a step may lead.
Follows(j, k) ==
    /\ k.pc # "off" /\ k.on.print = j.on.print
    /\ k.pc \in Working => k.on = j.on

\* What a step of an attempt may write, and that it keeps its own batch's status exact.
Exactly(a, j, k) ==
    /\ Follows(j, k)
    /\ \A b \in Batches : b # j.on => batch'[b] = batch[b] /\ cand'[b] = cand[b]
    /\ Exact(j) => Exact(k)'

LEMMA ExactStays ==
    ASSUME Inv, NEW j \in Job, NEW k \in Job, Follows(j, k), k.tally = "none",
           k.pc \in Working => j.pc \in Working, batch' = batch,
           \A b \in Batches, d \in Deals : cand'[b][d].status = cand[b][d].status,
           Exact(j)
    PROVE  Exact(k)'
<1>1. ASSUME k.pc \in Working PROVE batch'[k.on] = Aggregate(cand'[k.on])
  <2>1. k.on = j.on /\ j.on \in Batches /\ batch[j.on] = Aggregate(cand[j.on])
    BY <1>1 DEF Follows, Exact, Job
  <2>2. Aggregate(cand'[j.on]) = Aggregate(cand[j.on])
    BY <2>1, AggregateSame
  <2>3. QED BY <2>1, <2>2
<1>2. Aggregate(cand[k.on])' = Aggregate(cand'[k.on])
  BY DEF Aggregate, AllIn, Present
<1>3. QED BY <1>1, <1>2 DEF Exact, Open

\* A step that writes nothing.
LEMMA QuietExactly ==
    ASSUME Inv, NEW a \in Attempts, NEW j \in Job, NEW k \in Job, Follows(j, k), k.tally = "none",
           k.pc \in Working => j.pc \in Working, UNCHANGED <<batch, ranked, cand>>
    PROVE  Exactly(a, j, k)
<1>1. batch' = batch /\ cand' = cand
  OBVIOUS
<1>2. Exact(j) => Exact(k)'
  BY <1>1, ExactStays
<1>3. QED BY <1>1, <1>2 DEF Exactly

LEMMA ThrownFollows ==
    ASSUME NEW j \in Job, Good(j), j.tally = "none", NEW k, k = Thrown(j)
    PROVE  /\ k \in Job /\ Follows(j, k) /\ k.tally = "none"
           /\ k.pc \in Working => j.pc \in Working
<1>1. /\ k \in Job /\ k.pc \in {"failed", "threw"} /\ k.tally = "none" /\ k.on = j.on
      /\ k.pc = "failed" => j.pc \in AtCandidate
  BY ThrownShape DEF Good
<1>2. QED BY <1>1 DEF Follows, Working, AtCandidate

LEMMA RefusedExactly ==
    ASSUME Inv, NEW a \in Attempts, NEW j \in Job, j = job[a], j.tally = "none",
           NEW k \in Job, k = job'[a], Refused(a)
    PROVE  Exactly(a, j, k)
<1>1. k = Thrown(j) /\ UNCHANGED <<batch, ranked, cand>> /\ Good(j)
  BY AttemptGood DEF Refused, Go, Inv, JobTypeOK
<1>2. QED BY <1>1, ThrownFollows, QuietExactly

\* The answer of a function that wrote arrives or is lost.
LEMMA AnswerExactly ==
    ASSUME Inv, NEW a \in Attempts, NEW j \in Job, j = job[a], j.tally = "none",
           NEW k \in Job, k = job'[a], NEW l \in Job, Answer(a, l), Follows(j, l),
           Exact(j) => Exact(l)', j.pc \notin Working,
           \A b \in Batches : b # j.on => batch'[b] = batch[b] /\ cand'[b] = cand[b]
    PROVE  Exactly(a, j, k)
<1>1. k = l \/ k = Thrown(j)
  BY DEF Answer, Go, Inv, JobTypeOK
<1>2. CASE k = l
  BY <1>2 DEF Exactly
<1>3. CASE k = Thrown(j)
  <2>1. Follows(j, k) /\ k.tally = "none" /\ k.pc \notin Working
    BY <1>3, ThrownFollows, AttemptGood
  <2>2. Exact(k)'
    BY <2>1 DEF Exact, Open
  <2>3. QED BY <2>1, <2>2 DEF Exactly
<1>4. QED BY <1>1, <1>2, <1>3

LEMMA LookUpExactly ==
    ASSUME Inv, NEW a \in Attempts, NEW j \in Job, j = job[a], NEW k \in Job, k = job'[a],
           LookUp(a) \/ Insert(a)
    PROVE  Exactly(a, j, k)
<1>1. Good(j) /\ j.tally = "none" /\ j.pc \in {"look", "insert"} /\ j.pc \notin Working
      /\ job \in [Attempts -> Job] /\ j.on \in Batches
  BY AttemptGood DEF LookUp, Insert, Good, Shaped, Open, Working, AtCandidate, Inv, JobTypeOK
<1> DEFINE l == BatchFound(a, j)
<1>2. /\ l \in Job /\ l.tally = "none" /\ l.on.print = j.on.print
      /\ l.pc \in {"look", "select"}
  BY <1>1, FoundShape
<1> HIDE DEF l
<1>3. Follows(j, l) /\ Exact(l)'
  BY <1>2 DEF Follows, Exact, Open, Working, AtCandidate
<1>4. CASE Refused(a)
  BY <1>1, <1>4, RefusedExactly
<1>5. CASE Answer(a, l) /\ (UNCHANGED <<batch, ranked, cand>> \/ InsertBatch(j.on))
  <2>1. \A b \in Batches : b # j.on => batch'[b] = batch[b] /\ cand'[b] = cand[b]
    BY <1>1, <1>5 DEF InsertBatch, Inv, Tables, RunsTypeOK
  <2>2. QED BY <1>1, <1>2, <1>3, <1>5, <2>1, AnswerExactly
<1>6. CASE Moves(a, [j EXCEPT !.pc = "insert"])
  <2>1. k = [j EXCEPT !.pc = "insert"] /\ UNCHANGED <<batch, ranked, cand>>
    BY <1>1, <1>6 DEF Moves, Go
  <2>2. k.pc = "insert" /\ k.on = j.on /\ k.tally = "none"
    BY <1>1, <2>1 DEF Job
  <2>3. QED BY <2>1, <2>2, QuietExactly DEF Follows, Working, AtCandidate
<1>7. QED BY <1>4, <1>5, <1>6 DEF LookUp, Insert, l

LEMMA SelectExactly ==
    ASSUME Inv, NEW a \in Attempts, NEW j \in Job, j = job[a], NEW k \in Job, k = job'[a], Select(a)
    PROVE  Exactly(a, j, k)
<1>1. Good(j) /\ j.tally = "none" /\ j.pc = "select" /\ j.pc \notin Working /\ j.on \in Batches
  BY AttemptGood DEF Select, Good, Shaped, Open, Working, AtCandidate
<1> DEFINE l == [j EXCEPT !.pc = "create"]
<1>2. l \in Job /\ l.pc = "create" /\ l.on = j.on /\ l.tally = "none"
  BY <1>1 DEF Job
<1>3. Answer(a, l) /\ SaveSelections(j.on)
  BY DEF Select
<1> HIDE DEF l
<1>4. Follows(j, l) /\ Exact(l)'
  BY <1>2 DEF Follows, Exact, Open, Working, AtCandidate
<1>5. \A b \in Batches : b # j.on => batch'[b] = batch[b] /\ cand'[b] = cand[b]
  BY <1>1, <1>3 DEF SaveSelections, Inv, Tables, RunsTypeOK
<1>6. QED BY <1>1, <1>2, <1>3, <1>4, <1>5, AnswerExactly

LEMMA CreateExactly ==
    ASSUME Inv, NEW a \in Attempts, NEW j \in Job, j = job[a], NEW k \in Job, k = job'[a], Create(a)
    PROVE  Exactly(a, j, k)
<1>1. /\ j.pc = "create" /\ j.tally = "none" /\ j.pc \notin Working
      /\ j.on \in Batches /\ batch[j.on] # "absent" /\ j.on \in ranked
      /\ CreateSelected(j.on)
  BY CreateGoes DEF Working, AtCandidate
<1>2. PICK l \in Job : /\ Answer(a, l) /\ l.pc \in {"claim", "done"} /\ l.tally = "none"
                      /\ l.on = j.on
  BY CreateGoes
<1>3. batch'[j.on] = Aggregate(cand'[j.on])
  BY <1>1, CreateShows DEF Shows
<1>4. Follows(j, l) /\ Exact(l)'
  <2>1. Aggregate(cand[l.on])' = Aggregate(cand'[l.on])
    BY DEF Aggregate, AllIn, Present
  <2>2. QED BY <1>2, <1>3, <2>1 DEF Follows, Exact, Open
<1>5. \A b \in Batches : b # j.on => batch'[b] = batch[b] /\ cand'[b] = cand[b]
  BY <1>1 DEF CreateSelected, Inv, Tables, RunsTypeOK
<1>6. QED BY <1>1, <1>2, <1>4, <1>5, AnswerExactly

LEMMA ControlExactly ==
    ASSUME Inv, NEW a \in Attempts, NEW j \in Job, j = job[a], NEW k \in Job, k = job'[a],
           Execute(a) \/ RequestLost(a) \/ Crash(a) \/ Reject(a)
    PROVE  Exactly(a, j, k)
<1>1. /\ Good(j) /\ j.tally = "none" /\ job \in [Attempts -> Job]
      /\ UNCHANGED <<batch, ranked, cand>>
  BY AttemptGood DEF Execute, RequestLost, Waits, Crash, Reject, Refused, Moves, Good, Shaped, Open,
     Inv, JobTypeOK
<1>2. CASE RequestLost(a) \/ Reject(a)
  <2>1. k = Thrown(j)
    BY <1>1, <1>2 DEF RequestLost, Reject, Refused, Go
  <2>2. QED BY <1>1, <2>1, ThrownFollows, QuietExactly
<1>3. CASE Crash(a)
  <2>1. k = [j EXCEPT !.pc = "threw"]
    BY <1>1, <1>3 DEF Crash, Go
  <2>2. k.pc = "threw" /\ k.on = j.on /\ k.tally = "none"
    BY <1>1, <2>1 DEF Job
  <2>3. QED BY <1>1, <2>2, QuietExactly DEF Follows, Working, AtCandidate
<1>4. CASE Execute(a)
  <2>1. /\ j.pc = "execute"
        /\ \/ \E v \in Variants : k = [j EXCEPT !.pc = "checkpoint", !.result = v]
           \/ k = [j EXCEPT !.pc = "unavailable"]
           \/ k = [j EXCEPT !.pc = "note"]
    BY <1>1, <1>4 DEF Execute, Moves, Go
  <2>2. k.pc \in {"checkpoint", "unavailable", "note"} /\ k.on = j.on /\ k.tally = "none"
    BY <1>1, <2>1 DEF Job
  <2>3. QED BY <1>1, <2>1, <2>2, QuietExactly DEF Follows, Working, AtCandidate
<1>5. QED BY <1>2, <1>3, <1>4

LEMMA SaveExactly ==
    ASSUME Inv, NEW a \in Attempts, NEW j \in Job, j = job[a], NEW k \in Job, k = job'[a],
           Checkpoint(a) \/ Note(a)
    PROVE  Exactly(a, j, k)
<1>1. PICK v, next : /\ j.pc \in {"checkpoint", "note"} /\ next \in {"finalize", "failed"}
                     /\ SaveFinalization(a, v, next)
  BY DEF Checkpoint, Note
<1>2. Good(j) /\ j.tally = "none" /\ j.pc \in Working /\ job \in [Attempts -> Job]
  BY <1>1, AttemptGood DEF Good, Shaped, Open, Working, AtCandidate, Inv, JobTypeOK
<1>3. /\ batch' = batch
      /\ \A b \in Batches, d \in Deals : cand'[b][d].status = cand[b][d].status
      /\ \A b \in Batches : b # j.on => cand'[b] = cand[b]
  BY <1>1, <1>2, SaveWrites
<1>4. k = Thrown(j) \/ k = [j EXCEPT !.pc = next]
  BY <1>1, <1>2 DEF SaveFinalization, Refused, Answer, Go
<1>5. Follows(j, k) /\ k.tally = "none"
  <2>1. CASE k = Thrown(j)
    BY <1>2, <2>1, ThrownFollows
  <2>2. CASE k = [j EXCEPT !.pc = next]
    BY <1>1, <1>2, <2>2 DEF Job, Follows
  <2>3. QED BY <1>4, <2>1, <2>2
<1>6. Exact(j) => Exact(k)'
  BY <1>2, <1>3, <1>5, ExactStays
<1>7. QED BY <1>3, <1>5, <1>6 DEF Exactly

LEMMA TallyExactly ==
    ASSUME Inv, NEW a \in Attempts, NEW j \in Job, j = job[a], NEW k \in Job, k = job'[a], Tally(a)
    PROVE  Exactly(a, j, k)
<1>1. /\ Good(j) /\ j.pc \in AtCandidate /\ job \in [Attempts -> Job]
      /\ j.pc \in {"claim", "finalize", "unavailable", "failed"}
      /\ UNCHANGED <<batch, ranked, cand>>
  BY AttemptGood DEF Tally, Moves, AtCandidate, Inv, JobTypeOK
<1> DEFINE t == Aggregate([cand[j.on] EXCEPT ![Deal(j)] = NewRow(j)])
<1>2. k = [j EXCEPT !.tally = t]
  BY <1>1 DEF Tally, Moves, Go
<1>3. t = Aggregate(After(j))
  BY <1>1, OpenRow DEF Inv, Tables, Good
<1> HIDE DEF t
<1>4. k.pc = j.pc /\ k.on = j.on /\ k.pos = j.pos /\ k.tally = t
  BY <1>2 DEF Job
<1>5. After(k)' = After(j)
  BY <1>1, <1>4 DEF After, NewStatus, Deal
<1>6. Aggregate(After(k))' = Aggregate(After(k)') /\ Aggregate(cand[k.on])' = Aggregate(cand'[k.on])
  BY DEF Aggregate, AllIn, Present
<1>7. Exact(j) => Exact(k)'
  BY <1>1, <1>3, <1>4, <1>5, <1>6 DEF Exact, Open, Working
<1>8. QED BY <1>1, <1>4, <1>7 DEF Exactly, Follows, AtCandidate

LEMMA CommitExactly ==
    ASSUME Inv, NEW a \in Attempts, NEW j \in Job, j = job[a], NEW k \in Job, k = job'[a], Commit(a)
    PROVE  Exactly(a, j, k)
<1>1. /\ Good(j) /\ Open(j) /\ job \in [Attempts -> Job]
      /\ SetCandidate(j.on, Deal(j), NewRow(j), j.tally)
  BY AttemptGood DEF Commit, Inv, JobTypeOK
<1>2. PICK c \in Job : c = [j EXCEPT !.tally = "none"]
  BY DEF Job
<1>3. k = Returns(c) \/ k = Thrown(c)
  BY <1>1, <1>2 DEF Commit, Go
<1>4. /\ c.pc = j.pc /\ c.on = j.on /\ c.plan = j.plan /\ c.pos = j.pos /\ c.tally = "none"
      /\ c.result = j.result
  BY <1>2 DEF Job
<1>5. Good(c)
  BY <1>1, <1>4, ZenonT(30) DEF Good, Shaped, Placed, MayCommit, Open, Row, Deal
<1>6. /\ j.pc \in {"claim", "finalize", "unavailable", "failed"} /\ j.pc \in AtCandidate
      /\ j.on \in Batches /\ Deal(j) \in Deals
  BY <1>1, OpenRow DEF Inv, Tables, Good, Shaped, AtCandidate
<1>7. Follows(j, k) /\ k.tally = "none"
  <2>1. CASE k = Thrown(c)
    BY <1>4, <1>5, <2>1, ThrownFollows DEF Follows
  <2>2. CASE k = Returns(c) /\ j.pc = "claim"
    <3>1. k = [c EXCEPT !.pc = "execute", !.token = Row(c).claims + 1]
      BY <1>4, <2>2 DEF Returns
    <3>2. k.pc = "execute" /\ k.on = c.on /\ k.tally = "none"
      BY <1>4, <3>1 DEF Job
    <3>3. QED BY <1>4, <3>2 DEF Follows
  <2>3. CASE k = Returns(c) /\ j.pc # "claim"
    <3>1. PICK s \in Settled : k = Processed(c, s)
      BY <1>4, <1>6, <2>3 DEF Returns, Settled
    <3>2. Shaped(c) /\ c.pc \in AtCandidate
      BY <1>4, <1>5, <1>6 DEF Good
    <3>3. /\ Processed(c, s).pc \in {"claim", "done"} /\ Processed(c, s).on = c.on
          /\ Processed(c, s).tally = "none"
      BY <1>4, <3>2, ProcessedShape
    <3>4. QED BY <1>4, <3>1, <3>3 DEF Follows
  <2>4. QED BY <1>3, <2>1, <2>2, <2>3
<1>8. /\ OnlyRow(j.on, Deal(j), NewRow(j)) /\ NewRow(j).status = NewStatus(j)
      /\ \A b \in Batches : batch'[b] = IF b = j.on THEN j.tally ELSE batch[b]
  BY <1>1, CommitMoves DEF Inv
<1>9. Aggregate(cand'[j.on]) = Aggregate(After(j))
  <2>1. \A d \in Deals : cand'[j.on][d].status = After(j)[d].status
    BY <1>6, <1>8 DEF OnlyRow, After
  <2>2. QED BY <2>1, AggregateSame
<1>10. Aggregate(cand[k.on])' = Aggregate(cand'[k.on])
  BY DEF Aggregate, AllIn, Present
<1>11. Exact(j) => Exact(k)'
  BY <1>1, <1>6, <1>7, <1>8, <1>9, <1>10 DEF Exact, Open, Follows
<1>12. QED BY <1>7, <1>8, <1>11 DEF Exactly, OnlyRow

\* Every step of an attempt that has begun.
LEMMA StepExactly ==
    ASSUME Inv, NEW a \in Attempts, NEW j \in Job, j = job[a], NEW k \in Job, k = job'[a],
           Step(a) \/ RequestLost(a) \/ Crash(a)
    PROVE  Exactly(a, j, k) /\ j.pc # "off"
<1>1. CASE LookUp(a) \/ Insert(a)
  BY <1>1, LookUpExactly DEF LookUp, Insert
<1>2. CASE Select(a)
  BY <1>2, SelectExactly DEF Select
<1>3. CASE Create(a)
  BY <1>3, CreateExactly DEF Create
<1>4. CASE Tally(a)
  BY <1>4, TallyExactly DEF Tally
<1>5. CASE Commit(a)
  <2>1. j.pc # "off"
    BY <1>5, AttemptGood DEF Commit, Good, Shaped
  <2>2. QED BY <1>5, <2>1, CommitExactly
<1>6. CASE Checkpoint(a) \/ Note(a)
  BY <1>6, SaveExactly DEF Checkpoint, Note
<1>7. CASE Execute(a) \/ RequestLost(a) \/ Crash(a) \/ Reject(a)
  <2>1. j.pc # "off"
    BY <1>7 DEF Execute, RequestLost, Waits, Crash, Reject
  <2>2. QED BY <1>7, <2>1, ControlExactly
<1>8. QED BY <1>1, <1>2, <1>3, <1>4, <1>5, <1>6, <1>7 DEF Step

LEMMA SoloStep ==
    ASSUME Inv, Inv', SoloExact, NEW a \in Attempts, Step(a) \/ RequestLost(a) \/ Crash(a)
    PROVE  SoloExact'
<1>1. PICK i \in Job : i = job[a] /\ i.on \in Batches
  BY AttemptGood
<1>2. PICK k \in Job : k = job'[a]
  BY DEF Inv, JobTypeOK
<1>3. /\ Exactly(a, i, k) /\ i.pc # "off"
      /\ \A o \in Attempts : o # a => job'[o] = job[o]
  <2>1. \E l : Go(a, l)
    BY DEF Step, LookUp, Insert, Select, Create, Tally, Commit, Reject, Execute, Checkpoint, Note,
       RequestLost, Crash, SaveFinalization, Answer, Refused, Moves
  <2>2. \A o \in Attempts : o # a => job'[o] = job[o]
    BY <2>1 DEF Go, Inv, JobTypeOK
  <2>3. QED BY <1>1, <1>2, <2>2, StepExactly
<1>4. SUFFICES ASSUME NEW o \in Attempts, NEW j \in Job, j = job'[o], ~Accompanied(o, j)'
               PROVE  Exact(j)'
  BY DEF SoloExact
<1>5. CASE o = a
  <2>1. j = k
    BY <1>2, <1>4, <1>5
  <2>2. ~Accompanied(a, i)
    BY <1>3, <1>4, <1>5, <2>1 DEF Accompanied, Exactly, Follows
  <2>3. Exact(i)
    BY <1>1, <2>2 DEF SoloExact
  <2>4. QED BY <1>3, <2>1, <2>3 DEF Exactly
<1>6. CASE o # a
  <2>1. j = job[o] /\ j.on \in Batches
    BY <1>3, <1>4, <1>6, AttemptGood
  <2>2. k.on.print # j.on.print /\ k.on.print = i.on.print /\ k.pc # "off"
    BY <1>2, <1>3, <1>4, <1>6 DEF Accompanied, Exactly, Follows
  <2>3. batch'[j.on] = batch[j.on] /\ cand'[j.on] = cand[j.on]
    BY <1>3, <2>1, <2>2 DEF Exactly
  <2>4. ~Accompanied(o, j)
    BY <1>1, <1>2, <1>3, <1>4, <1>6, <2>2 DEF Accompanied
  <2>5. Exact(j)
    BY <2>1, <2>4 DEF SoloExact
  <2>6. After(j)' = After(j)
    BY <2>3 DEF After, NewStatus, Deal
  <2>7. Aggregate(After(j))' = Aggregate(After(j)') /\ Aggregate(cand[j.on])' = Aggregate(cand'[j.on])
    BY DEF Aggregate, AllIn, Present
  <2>8. QED BY <2>3, <2>5, <2>6, <2>7 DEF Exact, Open
<1>7. QED BY <1>5, <1>6

LEMMA SoloNext == ASSUME Inv, Inv', SoloExact, [Next]_vars PROVE SoloExact'
<1>1. ASSUME NEW a \in Attempts, Begin(a) PROVE SoloExact'
  <2>1. PICK p \in Prints, f \in ForceChoices : Moves(a, Start(p, f)) /\ job[a].pc = "off"
    BY <1>1 DEF Begin
  <2>2. /\ job \in [Attempts -> Job] /\ job' = [job EXCEPT ![a] = Start(p, f)]
        /\ cand' = cand /\ batch' = batch
    BY <2>1 DEF Moves, Go, Inv, JobTypeOK
  <2>3. SUFFICES ASSUME NEW o \in Attempts, NEW j \in Job, j = job'[o], ~Accompanied(o, j)'
                 PROVE  Exact(j)'
    BY DEF SoloExact
  <2>4. CASE o = a
    <3>1. j.pc = "look" /\ j.tally = "none"
      BY <2>2, <2>3, <2>4 DEF Start
    <3>2. QED BY <3>1 DEF Exact, Open, Working, AtCandidate
  <2>5. CASE o # a
    <3>1. j = job[o]
      BY <2>2, <2>3, <2>5
    <3>2. ~Accompanied(o, j)
      BY <2>1, <2>2, <2>3 DEF Accompanied
    <3>3. Exact(j)
      BY <3>1, <3>2 DEF SoloExact
    <3>4. QED BY <2>2, <3>3 DEF Exact, Open, After, Aggregate, AllIn, Present, NewStatus, Deal
  <2>6. QED BY <2>4, <2>5
<1>2. ASSUME job' = job, batch' = batch,
             \A b \in Batches, d \in Deals : cand'[b][d].status = cand[b][d].status
      PROVE  SoloExact'
  <2> SUFFICES ASSUME NEW o \in Attempts, NEW j \in Job, j = job'[o], ~Accompanied(o, j)'
               PROVE  Exact(j)'
    BY DEF SoloExact
  <2>1. Exact(j) /\ j.on \in Batches
    BY <1>2 DEF SoloExact, Accompanied, Job
  <2>2. After(j)' = After(j)
    BY <1>2, <2>1 DEF After, NewStatus, Deal
  <2>3. Aggregate(cand'[j.on]) = Aggregate(cand[j.on])
    BY <1>2, <2>1, AggregateSame
  <2>4. Aggregate(After(j))' = Aggregate(After(j)') /\ Aggregate(cand[j.on])' = Aggregate(cand'[j.on])
    BY DEF Aggregate, AllIn, Present
  <2>5. QED BY <1>2, <2>1, <2>2, <2>3, <2>4 DEF Exact, Open
<1>3. ASSUME NEW b \in Batches, NEW d \in Deals, Expire(b, d) PROVE SoloExact'
  <2>1. job' = job /\ batch' = batch /\ cand' = [cand EXCEPT ![b][d].fresh = FALSE]
    BY <1>3 DEF Expire, ExpireLease
  <2>2. \A c \in Batches, e \in Deals : cand'[c][e].status = cand[c][e].status
    BY <2>1 DEF Inv, Tables, RunsTypeOK, Candidate
  <2>3. QED BY <1>2, <2>1, <2>2
<1>4. CASE UNCHANGED vars
  BY <1>2, <1>4 DEF vars
<1>5. QED BY <1>1, <1>3, <1>4, SoloStep DEF Next

\* An attempt that ended processed every selected candidate, each is settled as it
\* believes, and if it was alone with its report the batch shows their aggregate
\* (createBatchAndSelections plans from statuses it read before).
THEOREM DoneMeansSettledHolds == Spec => []DoneMeansSettled
<1>1. Init => SoloExact
  <2> SUFFICES ASSUME Init, NEW a \in Attempts PROVE Exact(job[a])
    BY DEF SoloExact
  <2>1. job[a].pc = "off" /\ job[a].tally = "none"
    BY DEF Init, NotStarted, Start
  <2>2. QED BY <2>1 DEF Exact, Open, Working, AtCandidate
<1>2. Inv /\ Inv' /\ SoloExact /\ [Next]_vars => SoloExact'
  BY SoloNext
<1>3. Inv /\ SoloExact => DoneMeansSettled
  <2> SUFFICES ASSUME Inv, SoloExact, NEW a \in Attempts, NEW j \in Job, j = job[a], j.pc = "done"
               PROVE  /\ \A i \in 1..Len(j.plan) :
                             /\ j.plan[i] \in Settled
                             /\ cand[j.on][Ranked[j.on.print][i]].status = j.plan[i]
                      /\ \/ batch[j.on] = Aggregate(cand[j.on])
                         \/ Accompanied(a, j)
    BY DEF DoneMeansSettled, Accompanied, Inv, JobTypeOK
  <2>1. Good(j)
    BY AttemptGood
  <2>2. QED BY <2>1 DEF Good, Shaped, Placed, SoloExact, Exact, Working
<1>4. QED BY <1>1, <1>2, <1>3, InvAlways, PTL DEF Spec
=============================================================================
