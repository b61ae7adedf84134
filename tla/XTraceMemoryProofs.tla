-------------------------- MODULE XTraceMemoryProofs --------------------------
(***************************************************************************)
(* Theorems about XTraceMemory, for any number of jobs, polls and faults.  *)
(***************************************************************************)
EXTENDS XTraceMemory, FiniteSetTheorems, TLAPS

\* A job that made a memory or may still make one.
Live(j) == job[j] \in {"pending", "succeeded"}

\* A job whose row the upload's next attempt takes up.
Held(j) == lineage[j].status = "pending" \/ lineage[j].memory

Newest(j) == \A i \in Jobs : i > j => job[i] = "none"

\* The rows and links say of a job what became of it, and only the newest job is held.
RowsAgree ==
    /\ \A i, j \in Jobs : i < j /\ job[i] = "none" => job[j] = "none"
    /\ \A j \in Jobs :
        /\ lineage[j].status # "none" => job[j] # "none"
        /\ lineage[j].status = "failed" => job[j] = "failed"
        /\ lineage[j].status = "succeeded" => job[j] \in {"succeeded", "empty"}
        /\ lineage[j].memory => job[j] = "succeeded" /\ lineage[j].status = "succeeded"
        /\ j \in links => job[j] = "succeeded"
        /\ Held(j) => Newest(j)

\* What either process has in hand is a job that was made, and what it is about to
\* record is what became of it.
InHand(p) ==
    /\ p.pc \in {"record", "poll", "patch", "link", "done"} => p.job \in Jobs /\ job[p.job] # "none"
    /\ p.pc = "record" => p.got \in {"pending", job[p.job]}
    /\ p.pc = "patch" => p.got = job[p.job] /\ p.got # "pending"
    /\ p.pc = "link" => job[p.job] = "succeeded" /\ p.got = "succeeded"

\* The upload asks for a new job only when none is held.
WorkerKnows ==
    /\ worker.pc \in {"idle", "find", "ingest", "record", "poll", "patch", "link", "done"}
    /\ worker.pc \in {"record", "poll", "patch", "link"} => Newest(worker.job)
    /\ worker.pc \in {"ingest", "record"} => \A j \in Jobs : ~Held(j)
    /\ worker.pc = "poll" /\ Live(worker.job) => Held(worker.job)
    /\ worker.pc = "link" => lineage[worker.job].memory
    /\ IngestedResolves

\* A job the scan polls is held until it turns out to have made no memory.
SyncKnows ==
    /\ sync.pc \in {"idle", "poll", "patch", "link", "search", "byLink", "byRow", "recalled", "unavailable"}
    /\ sync.pc \in {"poll", "patch"} /\ Live(sync.job) => Held(sync.job)
    /\ \A j \in sync.open : job[j] # "none" /\ (Live(j) => Held(j))

\* What the lineage named when the recall began it still names, and the recall has it
\* or will look it up.
RecallKnows ==
    /\ sync.kept \subseteq Jobs
    /\ \A j \in sync.due : Resolves(j)
    /\ \A j \in sync.due : j \in sync.kept \cup sync.given \/ (sync.pc \in {"byLink", "byRow"} /\ j = sync.job)
    /\ sync.pc = "byRow" => sync.job \in Jobs /\ (sync.job \in sync.due => RowListed(sync.job))
    /\ sync.pc \in {"recalled", "unavailable"} => sync.given = {}
    /\ sync.pc = "unavailable" => sync.kept = {}

\* A live job no row leads to and nobody is about to record.
Wasted(j) == Live(j) /\ ~Held(j) /\ ~(worker.pc \in {"record", "patch"} /\ worker.job = j)

WastedJobs == {j \in Jobs : Wasted(j)}

WasteBounded == Cardinality(WastedJobs) <= memoryFaults

MemoryInv ==
    /\ MemoryTypeOK
    /\ RowsAgree
    /\ InHand(worker) /\ InHand(sync)
    /\ WorkerKnows
    /\ SyncKnows
    /\ RecallKnows
    /\ WasteBounded

-----------------------------------------------------------------------------
(* Choosing the least or the newest of some jobs.                              *)

LEMMA LeastExists ==
    ASSUME NEW T \in SUBSET Nat, T # {}
    PROVE  \E k \in T : \A l \in T : k <= l
<1> DEFINE R == OpToRel(<, Nat)
<1>1. IsWellFoundedOn(R, Nat)
  BY NatLessThanWellFounded
<1>2. \A x, y \in Nat : <<x, y>> \in R <=> x < y
  BY DEF OpToRel
<1> HIDE DEF R
<1>3. PICK x \in T : \A y \in T : <<y, x>> \notin R
  BY <1>1, WFMin
<1>4. ASSUME NEW y \in T PROVE x <= y
  <2>1. x \in Nat /\ y \in Nat
    OBVIOUS
  <2>2. ~(y < x)
    BY <1>2, <1>3, <2>1
  <2>3. QED BY <2>1, <2>2
<1>5. QED BY <1>4

LEMMA GreatestExists ==
    ASSUME NEW n \in Nat, NEW T \in SUBSET (1..n), T # {}
    PROVE  \E k \in T : \A l \in T : l <= k
<1> DEFINE U == {n - x : x \in T}
<1>1. U \in SUBSET Nat /\ U # {}
  <2>1. \A x \in T : n - x \in Nat
    OBVIOUS
  <2>2. QED BY <2>1
<1>2. PICK u \in U : \A v \in U : u <= v
  BY <1>1, LeastExists
<1>3. PICK k \in T : u = n - k
  OBVIOUS
<1>4. ASSUME NEW l \in T PROVE l <= k
  <2>1. n - l \in U
    OBVIOUS
  <2>2. QED BY <1>2, <1>3, <2>1
<1>5. QED BY <1>4

LEMMA JobsAre == Jobs \in SUBSET Nat /\ Memories \in SUBSET Nat /\ Jobs \subseteq Memories /\ 0 \in Memories
BY MemoryAssumption DEF Jobs, Memories, Foreign

LEMMA RestingIs == Resting \in Process
<1>1. MaxPolls \in Nat /\ 0 \in 0..MaxPolls
  BY MemoryAssumption
<1>2. "pending" \in JobState
  BY DEF JobState
<1> QED BY <1>1, <1>2, JobsAre DEF Resting, Process

\* What a process is that starts to poll a job.
LEMMA PollingIs ==
    ASSUME NEW p \in Process, NEW j \in Jobs
    PROVE  /\ Polling(p, j) \in Process
           /\ Polling(p, j).pc = "poll" /\ Polling(p, j).job = j
           /\ Polling(p, j).open = p.open /\ Polling(p, j).given = p.given
           /\ Polling(p, j).kept = p.kept /\ Polling(p, j).due = p.due
<1>1. MaxPolls \in 0..MaxPolls /\ j \in Memories
  BY MemoryAssumption, JobsAre
<1>2. "pending" \in JobState
  BY DEF JobState
<1> DEFINE p1 == [p EXCEPT !.pc = "poll"]
           p2 == [p1 EXCEPT !.job = j]
           p3 == [p2 EXCEPT !.left = MaxPolls]
<1>3. p1 \in Process /\ p1.pc = "poll" /\ p1.open = p.open /\ p1.given = p.given
      /\ p1.kept = p.kept /\ p1.due = p.due
  BY DEF Process
<1> HIDE DEF p1
<1>4. p2 \in Process /\ p2.pc = "poll" /\ p2.job = j /\ p2.open = p.open /\ p2.given = p.given
      /\ p2.kept = p.kept /\ p2.due = p.due
  BY <1>1, <1>3 DEF Process
<1> HIDE DEF p2
<1>5. p3 \in Process /\ p3.pc = "poll" /\ p3.job = j /\ p3.open = p.open /\ p3.given = p.given
      /\ p3.kept = p.kept /\ p3.due = p.due
  BY <1>1, <1>4 DEF Process
<1> HIDE DEF p3
<1>6. Polling(p, j) = [p3 EXCEPT !.got = "pending"]
  BY DEF Polling, p1, p2, p3
<1>7. QED BY <1>2, <1>5, <1>6 DEF Process

LEMMA NextOpenIs ==
    ASSUME NEW open \in SUBSET Jobs
    PROVE  LET q == NextOpen(open)
           IN  /\ q \in Process /\ q.pc \in {"poll", "search"}
               /\ q.pc = "poll" => q.job \in open
               /\ q.open \subseteq open /\ q.given = {} /\ q.kept = {} /\ q.due = {}
<1>1. CASE open = {}
  BY <1>1, RestingIs DEF NextOpen, Recalling, Resting, Process
<1>2. CASE open # {}
  <2> DEFINE j == CHOOSE x \in open : \A y \in open : x <= y
             p == [Resting EXCEPT !.open = open \ {j}]
  <2>1. open \in SUBSET Nat
    BY JobsAre
  <2>2. j \in open
    BY <1>2, <2>1, LeastExists
  <2> HIDE DEF j
  <2>3. p \in Process /\ p.open = open \ {j} /\ p.given = {} /\ p.kept = {} /\ p.due = {}
    BY RestingIs DEF Resting, Process
  <2> HIDE DEF p
  <2>4. NextOpen(open) = Polling(p, j)
    BY <1>2 DEF NextOpen, j, p
  <2>5. QED BY <2>2, <2>3, <2>4, PollingIs
<1>3. QED BY <1>1, <1>2

LEMMA NextGivenIs ==
    ASSUME NEW p \in Process
    PROVE  LET q == NextGiven(p)
           IN  /\ q \in Process /\ q.kept = p.kept /\ q.due = p.due /\ q.open = p.open
               /\ \/ /\ p.given = {} /\ q.given = {}
                     /\ q.pc = IF p.kept = {} THEN "unavailable" ELSE "recalled"
                  \/ /\ q.pc = "byLink" /\ q.job \in p.given /\ q.given = p.given \ {q.job}
<1>1. CASE p.given = {}
  BY <1>1 DEF NextGiven, Process
<1>2. CASE p.given # {}
  <2> DEFINE m == CHOOSE x \in p.given : \A y \in p.given : x <= y
  <2>1. p.given \in SUBSET Nat /\ p.given \subseteq Memories
    BY JobsAre DEF Process
  <2>2. m \in p.given
    BY <1>2, <2>1, LeastExists
  <2> HIDE DEF m
  <2>3. NextGiven(p) = [p EXCEPT !.pc = "byLink", !.job = m, !.given = p.given \ {m}]
    BY <1>2 DEF NextGiven, m
  <2>4. m \in Memories /\ p.given \ {m} \subseteq Memories
    BY <2>1, <2>2
  <2>5. QED BY <2>2, <2>3, <2>4 DEF Process
<1>3. QED BY <1>1, <1>2

-----------------------------------------------------------------------------
(* What a step may do to the rows and links without disturbing either process. *)

RowsKeep ==
    /\ links \subseteq links'
    /\ \A j \in Jobs :
          /\ lineage[j].memory => lineage'[j].memory
          /\ Live(j) /\ Held(j) => Held(j)'

LEMMA TypesAre ==
    ASSUME MemoryInv
    PROVE  /\ worker \in Process /\ sync \in Process
           /\ job \in [Jobs -> JobState \cup {"none"}] /\ links \subseteq Jobs
           /\ lineage \in [Jobs -> [status : {"none", "pending", "succeeded", "failed"}, memory : BOOLEAN]]
           /\ memoryFaults \in Nat /\ memoryFaults \in 0..MaxFaults
BY MemoryAssumption DEF MemoryInv, MemoryTypeOK

LEMMA SyncKept ==
    ASSUME MemoryInv, job' = job, sync' = sync, RowsKeep
    PROVE  InHand(sync)' /\ SyncKnows' /\ RecallKnows'
<1>1. InHand(sync)'
  BY DEF MemoryInv, InHand
<1>2. SyncKnows'
  <2>1. sync.open \subseteq Jobs
    BY TypesAre DEF Process
  <2>2. sync.pc \in {"poll", "patch"} => sync.job \in Jobs
    BY DEF MemoryInv, InHand
  <2>3. QED BY <2>1, <2>2 DEF MemoryInv, SyncKnows, RowsKeep, Live, Held
<1>3. RecallKnows'
  <2>1. sync.due \subseteq Jobs
    BY TypesAre DEF Process
  <2>2. QED BY <2>1 DEF MemoryInv, RecallKnows, RowsKeep, Resolves, RowListed
<1>4. QED BY <1>1, <1>2, <1>3

LEMMA WorkerKept ==
    ASSUME MemoryInv, job' = job, worker' = worker, RowsKeep, \A j \in Jobs : Held(j)' => Held(j)
    PROVE  InHand(worker)' /\ WorkerKnows'
<1>1. InHand(worker)'
  BY DEF MemoryInv, InHand
<1>2. worker.pc \in {"poll", "link", "done"} => worker.job \in Jobs
  BY DEF MemoryInv, InHand
<1>3. IngestedResolves'
  <2>1. worker.pc = "done" => worker.job \in Jobs /\ worker.job # Foreign
    BY <1>2 DEF Jobs, Foreign
  <2>2. QED BY <1>2, <2>1 DEF MemoryInv, WorkerKnows, IngestedResolves, RowsKeep, Resolves, RowListed
<1>4. WorkerKnows'
  BY <1>2, <1>3 DEF MemoryInv, WorkerKnows, RowsKeep, Live, Held, Newest
<1>5. QED BY <1>1, <1>4

\* A step without a fault wastes no job, one with a fault at most one.
LEMMA WasteSame ==
    ASSUME MemoryInv, memoryFaults' \in Nat, memoryFaults <= memoryFaults',
           \A j \in Jobs : Wasted(j)' => Wasted(j)
    PROVE  WasteBounded'
<1>1. WastedJobs' \subseteq WastedJobs
  BY DEF WastedJobs
<1>2. IsFiniteSet(Jobs) /\ WastedJobs \in SUBSET Jobs
  <2>1. MaxJobs \in Int /\ 1 \in Int
    BY MemoryAssumption
  <2>2. IsFiniteSet(1..MaxJobs)
    BY <2>1, FS_Interval
  <2>3. QED BY <2>2 DEF Jobs, WastedJobs
<1>3. IsFiniteSet(WastedJobs)
  BY <1>2, FS_Subset
<1>4. Cardinality(WastedJobs') <= Cardinality(WastedJobs) /\ IsFiniteSet(WastedJobs')
  BY <1>1, <1>3, FS_Subset
<1>5. Cardinality(WastedJobs) \in Nat /\ Cardinality(WastedJobs') \in Nat
  BY <1>3, <1>4, FS_CardinalityType
<1>6. Cardinality(WastedJobs) <= memoryFaults
  BY DEF MemoryInv, WasteBounded
<1>7. Cardinality(WastedJobs') <= memoryFaults'
  BY <1>4, <1>5, <1>6, TypesAre
<1>8. QED BY <1>7 DEF WasteBounded

LEMMA WasteOne ==
    ASSUME MemoryInv, memoryFaults' = memoryFaults + 1, NEW x,
           \A j \in Jobs : Wasted(j)' => Wasted(j) \/ j = x
    PROVE  WasteBounded'
<1> DEFINE U == WastedJobs \cup {x}
<1>1. WastedJobs' \in SUBSET U
  BY DEF WastedJobs
<1>2. IsFiniteSet(Jobs) /\ WastedJobs \in SUBSET Jobs
  <2>1. MaxJobs \in Int /\ 1 \in Int
    BY MemoryAssumption
  <2>2. IsFiniteSet(1..MaxJobs)
    BY <2>1, FS_Interval
  <2>3. QED BY <2>2 DEF Jobs, WastedJobs
<1>3. IsFiniteSet(WastedJobs)
  BY <1>2, FS_Subset
<1>4. IsFiniteSet(U) /\ Cardinality(U) = IF x \in WastedJobs THEN Cardinality(WastedJobs)
                                         ELSE Cardinality(WastedJobs) + 1
  BY <1>3, FS_AddElement
<1>5. Cardinality(WastedJobs') <= Cardinality(U) /\ IsFiniteSet(WastedJobs')
  BY <1>1, <1>4, FS_Subset
<1>6. Cardinality(WastedJobs) \in Nat /\ Cardinality(WastedJobs') \in Nat
  BY <1>3, <1>5, FS_CardinalityType
<1>7. Cardinality(WastedJobs) <= memoryFaults
  BY DEF MemoryInv, WasteBounded
<1> HIDE DEF U
<1>8. Cardinality(WastedJobs') <= memoryFaults'
  BY <1>4, <1>5, <1>6, <1>7, TypesAre
<1>9. QED BY <1>8 DEF WasteBounded

\* A completion is recorded by either process.
LEMMA PatchRows ==
    ASSUME MemoryInv, NEW p, p.pc = "patch", InHand(p), Live(p.job) => Newest(p.job),
           lineage' = Patched(p), job' = job, links' = links
    PROVE  /\ lineage' \in [Jobs -> [status : {"none", "pending", "succeeded", "failed"}, memory : BOOLEAN]]
           /\ RowsAgree' /\ RowsKeep
           /\ \A j \in Jobs : j # p.job => lineage'[j] = lineage[j]
           /\ Live(p.job) => lineage'[p.job].memory
           /\ \A j \in Jobs : j = p.job /\ Held(j)' => Live(j)
           /\ p.got = "succeeded" => lineage'[p.job].memory
<1>1. p.job \in Jobs /\ job[p.job] # "none" /\ p.got = job[p.job] /\ p.got \in Outcomes
  BY TypesAre DEF InHand, JobState
<1> DEFINE r == [status |-> Reported(p.got), memory |-> p.got = "succeeded"]
<1>2. r.status = (IF p.got = "failed" THEN "failed" ELSE "succeeded") /\ r.memory = (p.got = "succeeded")
  BY <1>1 DEF Reported, Outcomes
<1>3. r \in [status : {"none", "pending", "succeeded", "failed"}, memory : BOOLEAN]
  BY <1>1 DEF Reported, Outcomes
<1>4. lineage' = [lineage EXCEPT ![p.job] = r]
  BY DEF Patched
<1> HIDE DEF r
<1>5. /\ lineage' \in [Jobs -> [status : {"none", "pending", "succeeded", "failed"}, memory : BOOLEAN]]
      /\ lineage'[p.job] = r
      /\ \A j \in Jobs : j # p.job => lineage'[j] = lineage[j]
  BY <1>1, <1>3, <1>4, TypesAre
<1>6. Live(p.job) <=> p.got = "succeeded"
  BY <1>1 DEF Live, Outcomes
<1>7. RowsKeep
  <2>1. ASSUME NEW j \in Jobs PROVE (lineage[j].memory => lineage'[j].memory) /\ (Live(j) /\ Held(j) => Held(j)')
    <3>1. CASE j = p.job
      BY <1>1, <1>2, <1>5, <1>6, <3>1 DEF MemoryInv, RowsAgree, Held
    <3>2. CASE j # p.job
      BY <1>5, <3>2 DEF Held
    <3>3. QED BY <3>1, <3>2
  <2>2. QED BY <2>1 DEF RowsKeep
<1>8. RowsAgree'
  <2>1. ASSUME NEW j \in Jobs
        PROVE  /\ lineage'[j].status # "none" => job[j] # "none"
               /\ lineage'[j].status = "failed" => job[j] = "failed"
               /\ lineage'[j].status = "succeeded" => job[j] \in {"succeeded", "empty"}
               /\ lineage'[j].memory => job[j] = "succeeded" /\ lineage'[j].status = "succeeded"
               /\ j \in links => job[j] = "succeeded"
               /\ Held(j)' => Newest(j)
    <3>1. CASE j = p.job
      BY <1>1, <1>2, <1>5, <1>6, <3>1 DEF MemoryInv, RowsAgree, Held, Outcomes
    <3>2. CASE j # p.job
      BY <1>5, <3>2 DEF MemoryInv, RowsAgree, Held
    <3>3. QED BY <3>1, <3>2
  <2>2. \A j \in Jobs : Newest(j)' <=> Newest(j)
    BY DEF Newest
  <2>3. QED BY <2>1, <2>2 DEF RowsAgree, MemoryInv
<1>9. QED BY <1>1, <1>2, <1>5, <1>6, <1>7, <1>8 DEF Held

-----------------------------------------------------------------------------
(* Steps that leave the rows alone.                                            *)

LEMMA RowsStay ==
    ASSUME MemoryInv, UNCHANGED <<lineage, links>>, job' = job
    PROVE  RowsAgree' /\ RowsKeep /\ \A j \in Jobs : Held(j)' <=> Held(j)
BY DEF MemoryInv, RowsAgree, RowsKeep, Held, Newest

LEMMA SyncMoves ==
    ASSUME MemoryInv, UNCHANGED <<job, lineage, links, worker>>,
           memoryFaults' \in 0..MaxFaults, memoryFaults <= memoryFaults',
           sync' \in Process, InHand(sync)', SyncKnows', RecallKnows'
    PROVE  MemoryInv'
<1>1. MemoryTypeOK'
  BY TypesAre DEF MemoryTypeOK
<1>2. InHand(worker)' /\ WorkerKnows' /\ RowsAgree'
  BY RowsStay, WorkerKept
<1>3. \A j \in Jobs : Wasted(j)' => Wasted(j)
  BY DEF Wasted, Live, Held
<1>4. WasteBounded'
  BY <1>3, WasteSame
<1>5. QED BY <1>1, <1>2, <1>4 DEF MemoryInv

LEMMA WorkerMoves ==
    ASSUME MemoryInv, UNCHANGED <<job, lineage, links, sync>>, memoryFaults' \in 0..MaxFaults,
           worker' \in Process, InHand(worker)', WorkerKnows', WasteBounded'
    PROVE  MemoryInv'
<1>1. MemoryTypeOK'
  BY TypesAre DEF MemoryTypeOK
<1>2. InHand(sync)' /\ SyncKnows' /\ RecallKnows' /\ RowsAgree'
  BY RowsStay, SyncKept
<1>3. QED BY <1>1, <1>2 DEF MemoryInv

\* A worker that rests knows nothing.
LEMMA WorkerRests ==
    ASSUME worker' = Resting
    PROVE  worker' \in Process /\ InHand(worker)' /\ WorkerKnows'
BY RestingIs DEF Resting, InHand, WorkerKnows, IngestedResolves

LEMMA StartIngestKeeps == ASSUME MemoryInv, StartIngest PROVE MemoryInv'
<1>1. worker' = [Resting EXCEPT !.pc = "find"] /\ UNCHANGED <<job, lineage, links, sync, memoryFaults>>
      /\ worker.pc = "idle"
  BY DEF StartIngest
<1>2. worker' \in Process /\ worker'.pc = "find"
  BY <1>1, RestingIs DEF Resting, Process
<1>3. InHand(worker)' /\ WorkerKnows'
  BY <1>2 DEF InHand, WorkerKnows, IngestedResolves
<1>4. \A j \in Jobs : Wasted(j)' => Wasted(j)
  BY <1>1 DEF Wasted, Live, Held
<1>5. WasteBounded'
  BY <1>1, <1>4, WasteSame, TypesAre
<1>6. QED BY <1>1, <1>2, <1>3, <1>5, WorkerMoves, TypesAre

LEMMA FindKeeps == ASSUME MemoryInv, Find PROVE MemoryInv'
<1>1. UNCHANGED <<job, lineage, links, sync, memoryFaults>> /\ worker.pc = "find" /\ worker \in Process
  BY TypesAre DEF Find
<1>2. \A j \in Jobs : Wasted(j)' => Wasted(j)
  BY <1>1 DEF Wasted, Live, Held
<1>3. WasteBounded'
  BY <1>1, <1>2, WasteSame, TypesAre
<1>4. \A j \in Jobs : Held(j) => j \in Reusable
  BY TypesAre DEF Reusable, Held, MemoryInv, RowsAgree
<1>5. ASSUME worker' = [worker EXCEPT !.pc = "ingest"], \A j \in Jobs : ~Held(j) PROVE MemoryInv'
  <2>1. worker' \in Process /\ worker'.pc = "ingest"
    BY <1>1, <1>5 DEF Process
  <2>2. InHand(worker)' /\ WorkerKnows'
    BY <1>1, <1>5, <2>1 DEF InHand, WorkerKnows, IngestedResolves, Held
  <2>3. QED BY <1>1, <1>3, <2>1, <2>2, WorkerMoves, TypesAre
<1>6. CASE Reusable = {}
  BY <1>4, <1>5, <1>6 DEF Find
<1>7. CASE Reusable # {}
  <2> DEFINE j == CHOOSE x \in Reusable : \A y \in Reusable : y <= x
  <2>1. Reusable \in SUBSET (1..MaxJobs) /\ MaxJobs \in Nat
    BY MemoryAssumption DEF Reusable, Jobs
  <2>2. j \in Reusable /\ \A y \in Reusable : y <= j
    BY <1>7, <2>1, GreatestExists
  <2>3. worker' = IF lineage[j].status = "pending" THEN Polling(worker, j)
                  ELSE IF lineage[j].memory THEN [worker EXCEPT !.pc = "done", !.job = j]
                  ELSE [worker EXCEPT !.pc = "ingest"]
    BY <1>7 DEF Find
  <2> HIDE DEF j
  <2>4. j \in Jobs /\ job[j] # "none" /\ j \in Memories
    BY <2>2, JobsAre, TypesAre DEF Reusable, MemoryInv, RowsAgree
  <2>5. CASE lineage[j].status = "pending"
    <3>1. worker' = Polling(worker, j)
      BY <2>3, <2>5
    <3>2. worker' \in Process /\ worker'.pc = "poll" /\ worker'.job = j
      BY <1>1, <2>4, <3>1, PollingIs
    <3>3. Held(j) /\ Newest(j)
      BY <2>4, <2>5 DEF Held, MemoryInv, RowsAgree
    <3>4. InHand(worker)' /\ WorkerKnows'
      BY <1>1, <2>4, <3>2, <3>3 DEF InHand, WorkerKnows, IngestedResolves, Held, Newest
    <3>5. QED BY <1>1, <1>3, <3>2, <3>4, WorkerMoves, TypesAre
  <2>6. CASE lineage[j].status # "pending" /\ lineage[j].memory
    <3>1. worker' = [worker EXCEPT !.pc = "done", !.job = j]
      BY <2>3, <2>6
    <3>2. worker' \in Process /\ worker'.pc = "done" /\ worker'.job = j
      BY <1>1, <2>4, <3>1 DEF Process
    <3>3. j # Foreign
      BY <2>4 DEF Jobs, Foreign
    <3>4. InHand(worker)' /\ WorkerKnows'
      BY <1>1, <2>4, <2>6, <3>2, <3>3 DEF InHand, WorkerKnows, IngestedResolves, Resolves, RowListed
    <3>5. QED BY <1>1, <1>3, <3>2, <3>4, WorkerMoves, TypesAre
  <2>7. CASE lineage[j].status # "pending" /\ ~lineage[j].memory
    <3>1. ASSUME NEW k \in Jobs, Held(k) PROVE FALSE
      <4>1. k \in Reusable /\ k <= j
        BY <1>4, <2>2, <3>1
      <4>2. Newest(k)
        BY <3>1 DEF MemoryInv, RowsAgree
      <4>3. ~(j > k)
        BY <2>4, <4>2 DEF Newest
      <4>4. k = j
        BY <2>4, <4>1, <4>3, JobsAre
      <4>5. QED BY <2>7, <3>1, <4>4 DEF Held
    <3>2. worker' = [worker EXCEPT !.pc = "ingest"]
      BY <2>3, <2>7
    <3>3. QED BY <1>5, <3>1, <3>2
  <2>8. QED BY <2>5, <2>6, <2>7
<1>8. QED BY <1>6, <1>7

LEMMA WorkerPollsKeeps == ASSUME MemoryInv, WorkerPolls PROVE MemoryInv'
<1>1. /\ UNCHANGED <<job, lineage, links, sync, memoryFaults>> /\ worker.pc = "poll" /\ worker \in Process
      /\ worker.job \in Jobs /\ job[worker.job] # "none" /\ Newest(worker.job)
      /\ Live(worker.job) => Held(worker.job)
  BY TypesAre DEF WorkerPolls, MemoryInv, InHand, WorkerKnows
<1>2. WasteBounded'
  <2>1. \A j \in Jobs : Wasted(j)' => Wasted(j)
    BY <1>1 DEF Wasted, Live, Held
  <2>2. QED BY <1>1, <2>1, WasteSame, TypesAre
<1>3. CASE job[worker.job] # "pending"
  <2>1. worker' = [worker EXCEPT !.pc = "patch", !.got = job[worker.job]]
    BY <1>3 DEF WorkerPolls, Polled
  <2>2. job[worker.job] \in JobState
    BY <1>1, TypesAre
  <2>3. worker' \in Process /\ worker'.pc = "patch" /\ worker'.job = worker.job /\ worker'.got = job[worker.job]
    BY <1>1, <2>1, <2>2 DEF Process
  <2>4. InHand(worker)' /\ WorkerKnows'
    BY <1>1, <1>3, <2>3 DEF InHand, WorkerKnows, IngestedResolves, Newest
  <2>5. QED BY <1>1, <1>2, <2>3, <2>4, WorkerMoves, TypesAre
<1>4. CASE job[worker.job] = "pending" /\ worker.left > 1
  <2>1. worker' = [worker EXCEPT !.left = @ - 1]
    BY <1>4 DEF WorkerPolls, Polled
  <2>2. worker.left - 1 \in 0..MaxPolls
    BY <1>1, <1>4, MemoryAssumption DEF Process
  <2>3. worker' \in Process /\ worker'.pc = "poll" /\ worker'.job = worker.job
    BY <1>1, <2>1, <2>2 DEF Process
  <2>4. InHand(worker)' /\ WorkerKnows'
    BY <1>1, <2>3 DEF InHand, WorkerKnows, IngestedResolves, Newest, Live, Held
  <2>5. QED BY <1>1, <1>2, <2>3, <2>4, WorkerMoves, TypesAre
<1>5. CASE job[worker.job] = "pending" /\ ~(worker.left > 1)
  <2>1. worker' = Resting
    BY <1>5 DEF WorkerPolls, Polled
  <2>2. QED BY <1>1, <1>2, <2>1, WorkerRests, WorkerMoves, TypesAre
<1>6. QED BY <1>3, <1>4, <1>5

-----------------------------------------------------------------------------
(* Steps of the upload's ingest that write.                                    *)

\* The rows after a step, and the process whose step it was not.
LEMMA WorkerWrites ==
    ASSUME MemoryInv, UNCHANGED <<job, sync>>, RowsAgree', RowsKeep, links' \subseteq Jobs,
           lineage' \in [Jobs -> [status : {"none", "pending", "succeeded", "failed"}, memory : BOOLEAN]],
           memoryFaults' \in 0..MaxFaults, worker' \in Process, InHand(worker)', WorkerKnows', WasteBounded'
    PROVE  MemoryInv'
<1>1. MemoryTypeOK'
  BY TypesAre DEF MemoryTypeOK
<1>2. InHand(sync)' /\ SyncKnows' /\ RecallKnows'
  BY SyncKept
<1>3. QED BY <1>1, <1>2 DEF MemoryInv

LEMMA IngestKeeps == ASSUME MemoryInv, Ingest PROVE MemoryInv'
<1>1. worker.pc = "ingest" /\ UNCHANGED <<lineage, links, sync>> /\ worker \in Process
      /\ \A j \in Jobs : ~Held(j)
  BY TypesAre DEF Ingest, MemoryInv, WorkerKnows
<1>2. PICK j \in Jobs, state \in JobState :
          /\ job[j] = "none" /\ \A i \in Jobs : i < j => job[i] # "none"
          /\ job' = [job EXCEPT ![j] = state]
          /\ \/ /\ worker' = [worker EXCEPT !.pc = "record", !.job = j, !.got = state]
                /\ UNCHANGED memoryFaults
             \/ Fault /\ worker' = Resting
  BY DEF Ingest
<1>3. /\ job' \in [Jobs -> JobState \cup {"none"}] /\ job'[j] = state /\ state # "none"
      /\ \A i \in Jobs : i # j => job'[i] = job[i]
  BY <1>2, TypesAre DEF JobState, Outcomes
<1>4. \A i \in Jobs : i > j => job[i] = "none"
  BY <1>2, JobsAre DEF MemoryInv, RowsAgree
<1>5. lineage[j].status = "none" /\ ~lineage[j].memory /\ j \notin links
  BY <1>2, TypesAre DEF MemoryInv, RowsAgree
<1>6. RowsAgree'
  <2>1. \A k, l \in Jobs : k < l /\ job'[k] = "none" => job'[l] = "none"
    BY <1>2, <1>3, <1>4, JobsAre DEF MemoryInv, RowsAgree
  <2>2. \A i \in Jobs : ~Held(i)'
    BY <1>1 DEF Held
  <2>3. QED BY <1>1, <1>3, <1>5, <2>1, <2>2 DEF MemoryInv, RowsAgree
<1>7. InHand(sync)' /\ SyncKnows' /\ RecallKnows'
  <2>1. sync.pc \in {"record", "poll", "patch", "link", "done"} => sync.job \in Jobs /\ sync.job # j
    BY <1>2 DEF MemoryInv, InHand
  <2>2. \A i \in sync.open : i \in Jobs /\ i # j
    BY <1>2, TypesAre DEF MemoryInv, SyncKnows, Process
  <2>3. RecallKnows'
    BY <1>1 DEF MemoryInv, RecallKnows, Resolves, RowListed
  <2>4. InHand(sync)'
    BY <1>1, <1>3, <2>1 DEF MemoryInv, InHand
  <2>5. SyncKnows'
    BY <1>1, <1>3, <2>1, <2>2 DEF MemoryInv, SyncKnows, Live, Held
  <2>6. QED BY <2>3, <2>4, <2>5
<1>8. \A i \in Jobs : Wasted(i)' => Wasted(i) \/ i = j
  BY <1>1, <1>3 DEF Wasted, Live, Held
<1>9. CASE worker' = [worker EXCEPT !.pc = "record", !.job = j, !.got = state] /\ UNCHANGED memoryFaults
  <2>1. j \in Memories
    BY JobsAre
  <2>2. worker' \in Process /\ worker'.pc = "record" /\ worker'.job = j /\ worker'.got = state
    BY <1>1, <1>9, <2>1 DEF Process
  <2>3. InHand(worker)' /\ WorkerKnows'
    <3>1. \A i \in Jobs : i > j => job'[i] = "none"
      BY <1>3, <1>4, JobsAre
    <3>2. InHand(worker)'
      BY <1>3, <2>2 DEF InHand
    <3>3. WorkerKnows'
      BY <1>1, <2>2, <3>1 DEF WorkerKnows, IngestedResolves, Newest, Held
    <3>4. QED BY <3>2, <3>3
  <2>4. ~Wasted(j)'
    BY <2>2 DEF Wasted
  <2>5. WasteBounded'
    BY <1>8, <1>9, <2>4, WasteSame, TypesAre
  <2>6. MemoryTypeOK'
    BY <1>1, <1>3, <1>9, <2>2, TypesAre DEF MemoryTypeOK
  <2>7. QED BY <1>6, <1>7, <2>3, <2>5, <2>6 DEF MemoryInv
<1>10. CASE Fault /\ worker' = Resting
  <2>1. memoryFaults' = memoryFaults + 1 /\ memoryFaults' \in 0..MaxFaults
    BY <1>10, MemoryAssumption, TypesAre DEF Fault
  <2>2. WasteBounded'
    BY <1>8, <2>1, WasteOne
  <2>3. worker' \in Process /\ InHand(worker)' /\ WorkerKnows'
    BY <1>10, WorkerRests
  <2>4. MemoryTypeOK'
    BY <1>1, <1>3, <2>1, <2>3, TypesAre DEF MemoryTypeOK
  <2>5. QED BY <1>6, <1>7, <2>2, <2>3, <2>4 DEF MemoryInv
<1>11. QED BY <1>2, <1>9, <1>10

\* What the request of recordSubmission does to the rows.
LEMMA RecordRows ==
    ASSUME MemoryInv, worker.pc = "record", UNCHANGED <<job, links>>,
           lineage' = [lineage EXCEPT ![worker.job] = [status |-> Reported(worker.got), memory |-> FALSE]]
    PROVE  /\ lineage' \in [Jobs -> [status : {"none", "pending", "succeeded", "failed"}, memory : BOOLEAN]]
           /\ RowsAgree' /\ RowsKeep
           /\ \A j \in Jobs : j # worker.job => lineage'[j] = lineage[j]
           /\ lineage'[worker.job].status = Reported(worker.got)
<1>1. /\ worker.job \in Jobs /\ job[worker.job] # "none" /\ worker.got \in {"pending", job[worker.job]}
      /\ Newest(worker.job) /\ \A j \in Jobs : ~Held(j)
  BY DEF MemoryInv, InHand, WorkerKnows
<1> DEFINE r == [status |-> Reported(worker.got), memory |-> FALSE]
<1>2. job[worker.job] \in JobState
  BY <1>1, TypesAre
<1>3. r.status = Reported(worker.got) /\ ~r.memory
      /\ r \in [status : {"none", "pending", "succeeded", "failed"}, memory : BOOLEAN]
  BY <1>1, <1>2 DEF Reported, JobState, Outcomes
<1>4. lineage' = [lineage EXCEPT ![worker.job] = r]
  OBVIOUS
<1> HIDE DEF r
<1>5. /\ lineage' \in [Jobs -> [status : {"none", "pending", "succeeded", "failed"}, memory : BOOLEAN]]
      /\ lineage'[worker.job] = r
      /\ \A j \in Jobs : j # worker.job => lineage'[j] = lineage[j]
  BY <1>1, <1>3, <1>4, TypesAre
<1>6. RowsKeep
  BY <1>1 DEF RowsKeep, Held
<1>7. RowsAgree'
  <2>1. ASSUME NEW j \in Jobs
        PROVE  /\ lineage'[j].status # "none" => job[j] # "none"
               /\ lineage'[j].status = "failed" => job[j] = "failed"
               /\ lineage'[j].status = "succeeded" => job[j] \in {"succeeded", "empty"}
               /\ lineage'[j].memory => job[j] = "succeeded" /\ lineage'[j].status = "succeeded"
               /\ j \in links => job[j] = "succeeded"
               /\ Held(j)' => Newest(j)
    <3>1. CASE j = worker.job
      BY <1>1, <1>2, <1>3, <1>5, <3>1 DEF MemoryInv, RowsAgree, Held, Reported, JobState, Outcomes
    <3>2. CASE j # worker.job
      BY <1>5, <3>2 DEF MemoryInv, RowsAgree, Held
    <3>3. QED BY <3>1, <3>2
  <2>2. \A j \in Jobs : Newest(j)' <=> Newest(j)
    BY DEF Newest
  <2>3. QED BY <2>1, <2>2 DEF RowsAgree, MemoryInv
<1>8. QED BY <1>3, <1>5, <1>6, <1>7

LEMMA RecordKeeps == ASSUME MemoryInv, Record PROVE MemoryInv'
<1>1. /\ worker.pc = "record" /\ UNCHANGED <<job, links, sync, memoryFaults>> /\ worker \in Process
      /\ worker.job \in Jobs /\ job[worker.job] # "none" /\ worker.got \in {"pending", job[worker.job]}
      /\ Newest(worker.job)
      /\ lineage' = [lineage EXCEPT ![worker.job] = [status |-> Reported(worker.got), memory |-> FALSE]]
  BY TypesAre DEF Record, MemoryInv, InHand, WorkerKnows
<1>2. /\ lineage' \in [Jobs -> [status : {"none", "pending", "succeeded", "failed"}, memory : BOOLEAN]]
      /\ RowsAgree' /\ RowsKeep
      /\ \A j \in Jobs : j # worker.job => lineage'[j] = lineage[j]
      /\ lineage'[worker.job].status = Reported(worker.got)
  BY <1>1, RecordRows
<1>3. ASSUME worker'.job = worker.job, worker'.pc = "patch" \/ Held(worker.job)' PROVE WasteBounded'
  <2>1. \A j \in Jobs : Wasted(j)' => Wasted(j)
    BY <1>1, <1>2, <1>3 DEF Wasted, Live, Held
  <2>2. QED BY <1>1, <2>1, WasteSame, TypesAre
<1>4. CASE worker.got = "pending"
  <2>1. worker' = Polling(worker, worker.job)
    BY <1>4 DEF Record
  <2>2. worker' \in Process /\ worker'.pc = "poll" /\ worker'.job = worker.job
    BY <1>1, <2>1, PollingIs
  <2>3. lineage'[worker.job].status = "pending"
    BY <1>2, <1>4 DEF Reported
  <2>4. InHand(worker)' /\ WorkerKnows'
    BY <1>1, <2>2, <2>3 DEF InHand, WorkerKnows, IngestedResolves, Newest, Held
  <2>5. WasteBounded'
    BY <1>3, <2>2, <2>3 DEF Held
  <2>6. QED BY <1>1, <1>2, <2>2, <2>4, <2>5, WorkerWrites, TypesAre
<1>5. CASE worker.got # "pending"
  <2>1. worker' = [worker EXCEPT !.pc = "patch"]
    BY <1>5 DEF Record
  <2>2. worker' \in Process /\ worker'.pc = "patch" /\ worker'.job = worker.job /\ worker'.got = worker.got
    BY <1>1, <2>1 DEF Process
  <2>3. InHand(worker)' /\ WorkerKnows'
    BY <1>1, <1>5, <2>2 DEF InHand, WorkerKnows, IngestedResolves, Newest
  <2>4. WasteBounded'
    BY <1>3, <2>2
  <2>5. QED BY <1>1, <1>2, <2>2, <2>3, <2>4, WorkerWrites, TypesAre
<1>6. QED BY <1>4, <1>5

LEMMA LinkRows ==
    ASSUME MemoryInv, NEW p, p.pc = "link", InHand(p),
           links' = links \cup {p.job}, UNCHANGED <<job, lineage>>
    PROVE  RowsAgree' /\ RowsKeep /\ links' \subseteq Jobs /\ p.job \in links'
           /\ \A j \in Jobs : Held(j)' <=> Held(j)
<1>1. p.job \in Jobs /\ job[p.job] = "succeeded"
  BY DEF InHand
<1>2. QED BY <1>1, TypesAre DEF MemoryInv, RowsAgree, RowsKeep, Held, Newest

LEMMA WorkerPatchesKeeps == ASSUME MemoryInv, WorkerPatches PROVE MemoryInv'
<1>1. /\ worker.pc = "patch" /\ UNCHANGED <<job, links, sync, memoryFaults>> /\ worker \in Process
      /\ lineage' = Patched(worker) /\ worker' = AfterPatch(worker, Over(worker))
      /\ InHand(worker) /\ worker.job \in Jobs /\ worker.got = job[worker.job] /\ worker.got # "pending"
      /\ job[worker.job] # "none" /\ Newest(worker.job)
  BY TypesAre DEF WorkerPatches, MemoryInv, InHand, WorkerKnows
<1>2. /\ lineage' \in [Jobs -> [status : {"none", "pending", "succeeded", "failed"}, memory : BOOLEAN]]
      /\ RowsAgree' /\ RowsKeep
      /\ \A j \in Jobs : j # worker.job => lineage'[j] = lineage[j]
      /\ Live(worker.job) => lineage'[worker.job].memory
      /\ worker.got = "succeeded" => lineage'[worker.job].memory
  BY <1>1, PatchRows
<1>3. WasteBounded'
  <2>1. \A j \in Jobs : Wasted(j)' => Wasted(j)
    BY <1>1, <1>2 DEF Wasted, Live, Held
  <2>2. QED BY <1>1, <2>1, WasteSame, TypesAre
<1>4. CASE worker.got = "succeeded"
  <2>1. worker' = [worker EXCEPT !.pc = "link"]
    BY <1>1, <1>4 DEF AfterPatch
  <2>2. worker' \in Process /\ worker'.pc = "link" /\ worker'.job = worker.job /\ worker'.got = worker.got
    BY <1>1, <2>1 DEF Process
  <2>3. InHand(worker)' /\ WorkerKnows'
    BY <1>1, <1>2, <1>4, <2>2 DEF InHand, WorkerKnows, IngestedResolves, Newest
  <2>4. QED BY <1>1, <1>2, <1>3, <2>2, <2>3, WorkerWrites, TypesAre
<1>5. CASE worker.got = "empty"
  <2>1. worker' = [worker EXCEPT !.pc = "done"]
    BY <1>1, <1>5 DEF AfterPatch, Over, Reported
  <2>2. worker' \in Process /\ worker'.pc = "done" /\ worker'.job = worker.job
    BY <1>1, <2>1 DEF Process
  <2>3. InHand(worker)' /\ WorkerKnows'
    BY <1>1, <1>5, <2>2 DEF InHand, WorkerKnows, IngestedResolves
  <2>4. QED BY <1>1, <1>2, <1>3, <2>2, <2>3, WorkerWrites, TypesAre
<1>6. CASE worker.got \notin {"succeeded", "empty"}
  <2>1. worker' = Resting
    BY <1>1, <1>6 DEF AfterPatch, Over, Reported
  <2>2. QED BY <1>1, <1>2, <1>3, <2>1, WorkerRests, WorkerWrites, TypesAre
<1>7. QED BY <1>4, <1>5, <1>6

LEMMA WorkerLinksKeeps == ASSUME MemoryInv, WorkerLinks PROVE MemoryInv'
<1>1. /\ worker.pc = "link" /\ UNCHANGED <<job, lineage, sync, memoryFaults>> /\ worker \in Process
      /\ links' = links \cup {worker.job} /\ worker' = Over(worker) /\ InHand(worker)
      /\ worker.job \in Jobs /\ job[worker.job] # "none" /\ worker.got = "succeeded"
      /\ lineage[worker.job].memory
  BY TypesAre DEF WorkerLinks, MemoryInv, InHand, WorkerKnows
<1>2. RowsAgree' /\ RowsKeep /\ links' \subseteq Jobs /\ worker.job \in links'
  BY <1>1, LinkRows
<1>3. worker' = [worker EXCEPT !.pc = "done"]
  BY <1>1 DEF Over, Reported
<1>4. worker' \in Process /\ worker'.pc = "done" /\ worker'.job = worker.job
  BY <1>1, <1>3 DEF Process
<1>5. InHand(worker)' /\ WorkerKnows'
  BY <1>1, <1>2, <1>4 DEF InHand, WorkerKnows, IngestedResolves, Resolves
<1>6. WasteBounded'
  <2>1. \A j \in Jobs : Wasted(j)' => Wasted(j)
    BY <1>1 DEF Wasted, Live, Held
  <2>2. QED BY <1>1, <2>1, WasteSame, TypesAre
<1>7. QED BY <1>1, <1>2, <1>4, <1>5, <1>6, WorkerWrites, TypesAre

LEMMA WorkerFailsKeeps == ASSUME MemoryInv, WorkerFails PROVE MemoryInv'
<1>1. /\ worker' = Resting /\ UNCHANGED <<job, sync>>
      /\ memoryFaults' = memoryFaults + 1 /\ memoryFaults' \in 0..MaxFaults
  BY MemoryAssumption, TypesAre DEF WorkerFails, Fault
<1>2. worker' \in Process /\ InHand(worker)' /\ WorkerKnows'
  BY <1>1, WorkerRests
<1>3. ASSUME RowsAgree', RowsKeep, links' \subseteq Jobs,
             lineage' \in [Jobs -> [status : {"none", "pending", "succeeded", "failed"}, memory : BOOLEAN]]
      PROVE  MemoryInv'
  <2>1. \A j \in Jobs : Wasted(j)' => Wasted(j) \/ j = worker.job
    BY <1>1, <1>3 DEF Wasted, Live, RowsKeep
  <2>2. WasteBounded'
    BY <1>1, <2>1, WasteOne
  <2>3. QED BY <1>1, <1>2, <1>3, <2>2, WorkerWrites
<1>4. CASE UNCHANGED <<lineage, links>>
  BY <1>1, <1>3, <1>4, RowsStay, TypesAre
<1>5. CASE /\ worker.pc = "record" /\ UNCHANGED links
           /\ lineage' = [lineage EXCEPT ![worker.job] = [status |-> Reported(worker.got), memory |-> FALSE]]
  BY <1>1, <1>3, <1>5, RecordRows, TypesAre
<1>6. CASE worker.pc = "patch" /\ lineage' = Patched(worker) /\ UNCHANGED links
  <2>1. InHand(worker) /\ Newest(worker.job)
    BY <1>6 DEF MemoryInv, WorkerKnows
  <2>2. QED BY <1>1, <1>3, <1>6, <2>1, PatchRows, TypesAre
<1>7. CASE worker.pc = "link" /\ links' = links \cup {worker.job} /\ UNCHANGED lineage
  <2>1. InHand(worker)
    BY DEF MemoryInv
  <2>2. QED BY <1>1, <1>3, <1>7, <2>1, LinkRows, TypesAre
<1>8. QED BY <1>4, <1>5, <1>6, <1>7 DEF WorkerFails

-----------------------------------------------------------------------------
(* The scan's polling.                                                         *)

LEMMA SyncWrites ==
    ASSUME MemoryInv, UNCHANGED <<job, worker>>, RowsAgree', RowsKeep, links' \subseteq Jobs,
           lineage' \in [Jobs -> [status : {"none", "pending", "succeeded", "failed"}, memory : BOOLEAN]],
           \A j \in Jobs : Held(j)' => Held(j),
           memoryFaults' \in 0..MaxFaults, memoryFaults <= memoryFaults',
           sync' \in Process, InHand(sync)', SyncKnows', RecallKnows'
    PROVE  MemoryInv'
<1>1. MemoryTypeOK'
  BY TypesAre DEF MemoryTypeOK
<1>2. InHand(worker)' /\ WorkerKnows'
  BY WorkerKept
<1>3. \A j \in Jobs : Wasted(j)' => Wasted(j)
  BY DEF Wasted, Live, RowsKeep
<1>4. WasteBounded'
  BY <1>3, WasteSame
<1>5. QED BY <1>1, <1>2, <1>4 DEF MemoryInv

LEMMA SyncGoesOn ==
    ASSUME MemoryInv, job' = job, NEW open \in SUBSET Jobs,
           \A j \in open : job[j] # "none" /\ (Live(j) => Held(j)'),
           sync' = NextOpen(open)
    PROVE  sync' \in Process /\ InHand(sync)' /\ SyncKnows' /\ RecallKnows'
<1>1. /\ sync' \in Process /\ sync'.pc \in {"poll", "search"}
      /\ sync'.pc = "poll" => sync'.job \in open
      /\ sync'.open \subseteq open /\ sync'.given = {} /\ sync'.kept = {} /\ sync'.due = {}
  BY NextOpenIs
<1>2. InHand(sync)'
  BY <1>1 DEF InHand
<1>3. SyncKnows'
  BY <1>1 DEF SyncKnows, Live, Held
<1>4. RecallKnows'
  BY <1>1 DEF RecallKnows
<1>5. QED BY <1>1, <1>2, <1>3, <1>4

LEMMA SyncRests ==
    ASSUME sync' = Resting
    PROVE  sync' \in Process /\ InHand(sync)' /\ SyncKnows' /\ RecallKnows'
BY RestingIs DEF Resting, InHand, SyncKnows, RecallKnows

\* The jobs left to poll.
LEMMA OpenLeft ==
    ASSUME MemoryInv, RowsKeep
    PROVE  sync.open \in SUBSET Jobs /\ \A j \in sync.open : job[j] # "none" /\ (Live(j) => Held(j)')
<1>1. sync.open \in SUBSET Jobs
  BY TypesAre DEF Process
<1>2. QED BY <1>1 DEF MemoryInv, SyncKnows, RowsKeep

\* The scan's patch makes no job held that was not.
LEMMA SyncPatchRows ==
    ASSUME MemoryInv, sync.pc = "patch", lineage' = Patched(sync), UNCHANGED <<job, links>>
    PROVE  /\ lineage' \in [Jobs -> [status : {"none", "pending", "succeeded", "failed"}, memory : BOOLEAN]]
           /\ RowsAgree' /\ RowsKeep /\ \A j \in Jobs : Held(j)' => Held(j)
<1>1. InHand(sync) /\ sync.job \in Jobs /\ (Live(sync.job) => Held(sync.job))
  BY DEF MemoryInv, InHand, SyncKnows
<1>2. Live(sync.job) => Newest(sync.job)
  BY <1>1 DEF MemoryInv, RowsAgree
<1>3. /\ lineage' \in [Jobs -> [status : {"none", "pending", "succeeded", "failed"}, memory : BOOLEAN]]
      /\ RowsAgree' /\ RowsKeep
      /\ \A j \in Jobs : j # sync.job => lineage'[j] = lineage[j]
      /\ \A j \in Jobs : j = sync.job /\ Held(j)' => Live(j)
  BY <1>1, <1>2, PatchRows
<1>4. ASSUME NEW j \in Jobs, Held(j)' PROVE Held(j)
  <2>1. CASE j = sync.job
    BY <1>1, <1>3, <1>4, <2>1
  <2>2. CASE j # sync.job
    BY <1>3, <1>4, <2>2 DEF Held
  <2>3. QED BY <2>1, <2>2
<1>5. QED BY <1>3, <1>4

LEMMA ListOpenKeeps == ASSUME MemoryInv, ListOpen PROVE MemoryInv'
<1> DEFINE open == {j \in Jobs : lineage[j].status = "pending"}
<1>1. sync' = NextOpen(open) /\ UNCHANGED <<job, lineage, links, worker, memoryFaults>>
  BY DEF ListOpen
<1>2. \A j \in open : job[j] # "none" /\ (Live(j) => Held(j)')
  BY <1>1 DEF MemoryInv, RowsAgree, Held
<1>3. open \in SUBSET Jobs
  OBVIOUS
<1> HIDE DEF open
<1>4. sync' \in Process /\ InHand(sync)' /\ SyncKnows' /\ RecallKnows'
  BY <1>1, <1>2, <1>3, SyncGoesOn
<1>5. QED BY <1>1, <1>4, SyncMoves, TypesAre

LEMMA SyncPollsKeeps == ASSUME MemoryInv, SyncPolls PROVE MemoryInv'
<1>1. /\ UNCHANGED <<job, lineage, links, worker, memoryFaults>> /\ sync.pc = "poll" /\ sync \in Process
      /\ sync.job \in Jobs /\ job[sync.job] # "none" /\ (Live(sync.job) => Held(sync.job))
      /\ sync' = Polled(sync, NextOpen(sync.open))
  BY TypesAre DEF SyncPolls, MemoryInv, InHand, SyncKnows
<1>2. RowsKeep
  BY <1>1, RowsStay
<1>3. ASSUME sync' \in Process, sync'.pc \in {"poll", "patch"}, sync'.job = sync.job, sync'.open = sync.open,
             sync'.given = sync.given, sync'.kept = sync.kept, sync'.due = sync.due,
             sync'.pc = "patch" => sync'.got = job[sync.job] /\ job[sync.job] # "pending"
      PROVE  MemoryInv'
  <2>1. InHand(sync)'
    BY <1>1, <1>3 DEF InHand
  <2>2. SyncKnows'
    BY <1>1, <1>3 DEF MemoryInv, SyncKnows, Live, Held
  <2>3. RecallKnows'
    BY <1>1, <1>3 DEF MemoryInv, RecallKnows, Resolves, RowListed
  <2>4. QED BY <1>1, <1>3, <2>1, <2>2, <2>3, SyncMoves, TypesAre
<1>4. CASE job[sync.job] # "pending"
  <2>1. sync' = [sync EXCEPT !.pc = "patch", !.got = job[sync.job]]
    BY <1>1, <1>4 DEF Polled
  <2>2. job[sync.job] \in JobState
    BY <1>1, TypesAre
  <2>3. QED BY <1>1, <1>3, <1>4, <2>1, <2>2 DEF Process
<1>5. CASE job[sync.job] = "pending" /\ sync.left > 1
  <2>1. sync' = [sync EXCEPT !.left = @ - 1]
    BY <1>1, <1>5 DEF Polled
  <2>2. sync.left - 1 \in 0..MaxPolls
    BY <1>1, <1>5, MemoryAssumption DEF Process
  <2>3. QED BY <1>1, <1>3, <2>1, <2>2 DEF Process
<1>6. CASE job[sync.job] = "pending" /\ ~(sync.left > 1)
  <2>1. sync' = NextOpen(sync.open)
    BY <1>1, <1>6 DEF Polled
  <2>2. sync' \in Process /\ InHand(sync)' /\ SyncKnows' /\ RecallKnows'
    BY <1>1, <1>2, <2>1, OpenLeft, SyncGoesOn
  <2>3. QED BY <1>1, <2>2, SyncMoves, TypesAre
<1>7. QED BY <1>4, <1>5, <1>6

LEMMA SyncPatchesKeeps == ASSUME MemoryInv, SyncPatches PROVE MemoryInv'
<1>1. /\ UNCHANGED <<job, links, worker, memoryFaults>> /\ sync.pc = "patch" /\ sync \in Process
      /\ sync.job \in Jobs /\ job[sync.job] # "none" /\ sync.got = job[sync.job]
      /\ lineage' = Patched(sync) /\ sync' = AfterPatch(sync, NextOpen(sync.open))
  BY TypesAre DEF SyncPatches, MemoryInv, InHand
<1>2. /\ lineage' \in [Jobs -> [status : {"none", "pending", "succeeded", "failed"}, memory : BOOLEAN]]
      /\ RowsAgree' /\ RowsKeep /\ \A j \in Jobs : Held(j)' => Held(j)
  BY <1>1, SyncPatchRows
<1>3. CASE sync.got = "succeeded"
  <2>1. sync' = [sync EXCEPT !.pc = "link"]
    BY <1>1, <1>3 DEF AfterPatch
  <2>2. /\ sync' \in Process /\ sync'.pc = "link" /\ sync'.job = sync.job /\ sync'.got = sync.got
        /\ sync'.open = sync.open /\ sync'.given = sync.given /\ sync'.kept = sync.kept /\ sync'.due = sync.due
    BY <1>1, <2>1 DEF Process
  <2>3. InHand(sync)'
    BY <1>1, <1>3, <2>2 DEF InHand
  <2>4. SyncKnows'
    BY <1>1, <1>2, <2>2, OpenLeft DEF MemoryInv, SyncKnows, Live
  <2>5. RecallKnows'
    <3>1. sync.due \subseteq Jobs
      BY <1>1 DEF Process
    <3>2. QED BY <1>1, <1>2, <2>2, <3>1 DEF MemoryInv, RecallKnows, Resolves, RowListed, RowsKeep
  <2>6. QED BY <1>1, <1>2, <2>2, <2>3, <2>4, <2>5, SyncWrites, TypesAre
<1>4. CASE sync.got # "succeeded"
  <2>1. sync' = NextOpen(sync.open)
    BY <1>1, <1>4 DEF AfterPatch
  <2>2. sync' \in Process /\ InHand(sync)' /\ SyncKnows' /\ RecallKnows'
    BY <1>1, <1>2, <2>1, OpenLeft, SyncGoesOn
  <2>3. QED BY <1>1, <1>2, <2>2, SyncWrites, TypesAre
<1>5. QED BY <1>3, <1>4

LEMMA SyncLinksKeeps == ASSUME MemoryInv, SyncLinks PROVE MemoryInv'
<1>1. /\ UNCHANGED <<job, lineage, worker, memoryFaults>> /\ sync.pc = "link" /\ InHand(sync)
      /\ links' = links \cup {sync.job} /\ sync' = NextOpen(sync.open)
  BY DEF SyncLinks, MemoryInv
<1>2. RowsAgree' /\ RowsKeep /\ links' \subseteq Jobs /\ \A j \in Jobs : Held(j)' <=> Held(j)
  BY <1>1, LinkRows
<1>3. sync' \in Process /\ InHand(sync)' /\ SyncKnows' /\ RecallKnows'
  BY <1>1, <1>2, OpenLeft, SyncGoesOn
<1>4. QED BY <1>1, <1>2, <1>3, SyncWrites, TypesAre

\* A failure or a death of the scan's polling, before or after its write.
LEMMA SyncFaultKeeps ==
    ASSUME MemoryInv, Fault, UNCHANGED <<job, worker>>, sync' \in {NextOpen(sync.open), Resting},
           \/ UNCHANGED <<lineage, links>>
           \/ sync.pc = "patch" /\ lineage' = Patched(sync) /\ UNCHANGED links
           \/ sync.pc = "link" /\ links' = links \cup {sync.job} /\ UNCHANGED lineage
    PROVE  MemoryInv'
<1>1. memoryFaults' \in 0..MaxFaults /\ memoryFaults <= memoryFaults'
  BY MemoryAssumption, TypesAre DEF Fault
<1>2. /\ lineage' \in [Jobs -> [status : {"none", "pending", "succeeded", "failed"}, memory : BOOLEAN]]
      /\ RowsAgree' /\ RowsKeep /\ links' \subseteq Jobs /\ \A j \in Jobs : Held(j)' => Held(j)
  <2>1. CASE UNCHANGED <<lineage, links>>
    BY <2>1, RowsStay, TypesAre
  <2>2. CASE sync.pc = "patch" /\ lineage' = Patched(sync) /\ UNCHANGED links
    BY <2>2, SyncPatchRows, TypesAre
  <2>3. CASE sync.pc = "link" /\ links' = links \cup {sync.job} /\ UNCHANGED lineage
    <3>1. InHand(sync)
      BY DEF MemoryInv
    <3>2. QED BY <2>3, <3>1, LinkRows, TypesAre
  <2>4. QED BY <2>1, <2>2, <2>3
<1>3. sync' \in Process /\ InHand(sync)' /\ SyncKnows' /\ RecallKnows'
  <2>1. CASE sync' = NextOpen(sync.open)
    BY <1>2, <2>1, OpenLeft, SyncGoesOn
  <2>2. CASE sync' = Resting
    BY <2>2, SyncRests
  <2>3. QED BY <2>1, <2>2
<1>4. QED BY <1>1, <1>2, <1>3, SyncWrites

-----------------------------------------------------------------------------
(* The recall.                                                                 *)

\* A memory looked up, and kept or not, or the first of the answer.
LEMMA RecallGoesOn ==
    ASSUME MemoryInv, UNCHANGED <<job, lineage, links, worker, memoryFaults>>,
           NEW p \in Process, p.kept \subseteq Jobs, p.open = sync.open,
           \A j \in p.due : Resolves(j) /\ j \in p.kept \cup p.given,
           sync' = NextGiven(p)
    PROVE  MemoryInv'
<1>1. /\ sync' \in Process /\ sync'.kept = p.kept /\ sync'.due = p.due /\ sync'.open = p.open
      /\ \/ /\ p.given = {} /\ sync'.given = {}
            /\ sync'.pc = IF p.kept = {} THEN "unavailable" ELSE "recalled"
         \/ /\ sync'.pc = "byLink" /\ sync'.job \in p.given /\ sync'.given = p.given \ {sync'.job}
  BY NextGivenIs
<1>2. InHand(sync)'
  BY <1>1 DEF InHand
<1>3. SyncKnows'
  BY <1>1 DEF MemoryInv, SyncKnows, Live, Held
<1>4. RecallKnows'
  BY <1>1 DEF RecallKnows, Resolves, RowListed
<1>5. QED BY <1>1, <1>2, <1>3, <1>4, SyncMoves, TypesAre

LEMMA SearchKeeps == ASSUME MemoryInv, Search PROVE MemoryInv'
<1>1. sync.pc = "search" /\ UNCHANGED <<job, lineage, links, worker, memoryFaults>> /\ sync \in Process
      /\ sync.kept \subseteq Jobs
  BY TypesAre DEF Search, MemoryInv, RecallKnows
<1>2. PICK given \in SUBSET ({j \in Jobs : job[j] = "succeeded"} \cup {Foreign}) :
          sync' = NextGiven([sync EXCEPT !.given = given, !.due = {j \in given : Resolves(j)}])
  BY DEF Search
<1> DEFINE due == {j \in given : Resolves(j)}
           q == [sync EXCEPT !.given = given]
           p == [q EXCEPT !.due = due]
<1>3. given \subseteq Memories
  BY JobsAre DEF Memories
<1>4. due \subseteq Jobs
  <2>1. \A j \in given : Resolves(j) => j \in Jobs
    BY <1>3, TypesAre DEF Resolves, RowListed, Memories
  <2>2. QED BY <2>1
<1>5. q \in Process /\ q.kept = sync.kept /\ q.open = sync.open /\ q.given = given
  BY <1>1, <1>3 DEF Process
<1>6. \A j \in due : Resolves(j) /\ j \in given
  OBVIOUS
<1> HIDE DEF due, q
<1>7. p \in Process /\ p.kept = sync.kept /\ p.open = sync.open /\ p.given = given /\ p.due = due
  BY <1>4, <1>5 DEF Process
<1>8. sync' = NextGiven(p)
  BY <1>2 DEF q, due
<1> HIDE DEF p
<1>9. QED BY <1>1, <1>6, <1>7, <1>8, RecallGoesOn

\* What holds of the memory that is looked up.
LEMMA LookedUp ==
    ASSUME MemoryInv, sync.pc \in {"byLink", "byRow"}
    PROVE  /\ sync \in Process /\ sync.kept \subseteq Jobs /\ sync.job \in Memories
           /\ \A j \in sync.due : Resolves(j) /\ (j \in sync.kept \cup sync.given \/ j = sync.job)
BY TypesAre DEF MemoryInv, RecallKnows, Process

LEMMA KeepKeeps ==
    ASSUME MemoryInv, UNCHANGED <<job, lineage, links, worker, memoryFaults>>,
           sync.pc \in {"byLink", "byRow"}, sync.job \in Jobs, sync' = Keep(sync)
    PROVE  MemoryInv'
<1> DEFINE p == [sync EXCEPT !.kept = sync.kept \cup {sync.job}]
<1>1. sync.kept \cup {sync.job} \subseteq Memories
  BY LookedUp DEF Process
<1>2. /\ p \in Process /\ p.kept = sync.kept \cup {sync.job} /\ p.open = sync.open /\ p.given = sync.given
      /\ p.due = sync.due
  BY <1>1, LookedUp DEF Process
<1>3. sync' = NextGiven(p)
  BY DEF Keep
<1> HIDE DEF p
<1>4. p.kept \subseteq Jobs /\ \A j \in p.due : Resolves(j) /\ j \in p.kept \cup p.given
  BY <1>2, LookedUp
<1>5. QED BY <1>2, <1>3, <1>4, RecallGoesOn

\* A memory that is not due is left out.
LEMMA LeaveKeeps ==
    ASSUME MemoryInv, UNCHANGED <<job, lineage, links, worker, memoryFaults>>,
           sync.pc \in {"byLink", "byRow"}, sync.job \notin sync.due, sync' = NextGiven(sync)
    PROVE  MemoryInv'
<1>1. sync.kept \subseteq Jobs /\ \A j \in sync.due : Resolves(j) /\ j \in sync.kept \cup sync.given
  BY LookedUp
<1>2. QED BY <1>1, LookedUp, RecallGoesOn

LEMMA LookUpLinkKeeps == ASSUME MemoryInv, LookUpLink PROVE MemoryInv'
<1>1. sync.pc = "byLink" /\ UNCHANGED <<job, lineage, links, worker, memoryFaults>> /\ sync \in Process
      /\ sync.due \subseteq Jobs
  BY TypesAre DEF LookUpLink, Process
<1>2. CASE sync.job = Foreign
  <2>1. sync.job \notin sync.due
    BY <1>1, <1>2 DEF Jobs, Foreign
  <2>2. QED BY <1>1, <1>2, <2>1, LeaveKeeps DEF LookUpLink
<1>3. CASE sync.job # Foreign /\ sync.job \in links
  <2>1. sync.job \in Jobs
    BY <1>3, TypesAre
  <2>2. sync' = Keep(sync)
    BY <1>3 DEF LookUpLink
  <2>3. QED BY <1>1, <2>1, <2>2, KeepKeeps
<1>4. CASE sync.job # Foreign /\ sync.job \notin links
  <2>1. sync' = [sync EXCEPT !.pc = "byRow"]
    BY <1>4 DEF LookUpLink
  <2>2. /\ sync' \in Process /\ sync'.pc = "byRow" /\ sync'.job = sync.job /\ sync'.open = sync.open
        /\ sync'.given = sync.given /\ sync'.kept = sync.kept /\ sync'.due = sync.due
    BY <1>1, <2>1 DEF Process
  <2>3. sync.job \in Jobs /\ (sync.job \in sync.due => RowListed(sync.job))
    BY <1>1, <1>4, LookedUp DEF Memories, Resolves
  <2>4. RecallKnows'
    BY <1>1, <2>2, <2>3 DEF MemoryInv, RecallKnows, Resolves, RowListed
  <2>5. InHand(sync)' /\ SyncKnows'
    BY <1>1, <2>2 DEF MemoryInv, InHand, SyncKnows, Live, Held
  <2>6. QED BY <1>1, <2>2, <2>4, <2>5, SyncMoves, TypesAre
<1>5. QED BY <1>2, <1>3, <1>4

LEMMA LookUpRowKeeps == ASSUME MemoryInv, LookUpRow PROVE MemoryInv'
<1>1. /\ sync.pc = "byRow" /\ UNCHANGED <<job, lineage, links, worker, memoryFaults>>
      /\ sync.job \in Jobs /\ (sync.job \in sync.due => RowListed(sync.job))
      /\ sync' = IF RowListed(sync.job) THEN Keep(sync) ELSE NextGiven(sync)
  BY DEF LookUpRow, MemoryInv, RecallKnows
<1>2. CASE RowListed(sync.job)
  BY <1>1, <1>2, KeepKeeps
<1>3. CASE ~RowListed(sync.job)
  BY <1>1, <1>3, LeaveKeeps
<1>4. QED BY <1>2, <1>3

LEMMA RecallFailsKeeps == ASSUME MemoryInv, RecallFails PROVE MemoryInv'
<1>1. UNCHANGED <<job, lineage, links, worker>> /\ memoryFaults' \in 0..MaxFaults /\ memoryFaults <= memoryFaults'
  BY MemoryAssumption, TypesAre DEF RecallFails, Fault
<1>2. sync' \in {[Recalling EXCEPT !.failed = TRUE], [Resting EXCEPT !.pc = "unavailable", !.failed = TRUE]}
  BY DEF RecallFails
<1>3. /\ sync' \in Process /\ sync'.pc \in {"search", "unavailable"} /\ sync'.open = {}
      /\ sync'.given = {} /\ sync'.kept = {} /\ sync'.due = {}
  <2>1. CASE sync' = [Recalling EXCEPT !.failed = TRUE]
    BY <2>1, RestingIs DEF Recalling, Resting, Process
  <2>2. CASE sync' = [Resting EXCEPT !.pc = "unavailable", !.failed = TRUE]
    BY <2>2, RestingIs DEF Resting, Process
  <2>3. QED BY <1>2, <2>1, <2>2
<1>4. InHand(sync)' /\ SyncKnows' /\ RecallKnows'
  BY <1>3 DEF InHand, SyncKnows, RecallKnows
<1>5. QED BY <1>1, <1>3, <1>4, SyncMoves

-----------------------------------------------------------------------------

LEMMA JobEndsKeeps == ASSUME MemoryInv, NEW j \in Jobs, JobEnds(j) PROVE MemoryInv'
<1>1. job[j] = "pending" /\ UNCHANGED <<lineage, links, worker, sync, memoryFaults>>
  BY DEF JobEnds
<1>2. PICK state \in Outcomes : job' = [job EXCEPT ![j] = state]
  BY DEF JobEnds
<1>3. /\ job' \in [Jobs -> JobState \cup {"none"}] /\ job'[j] \in Outcomes
      /\ \A i \in Jobs : i # j => job'[i] = job[i]
  BY <1>2, TypesAre DEF JobState
<1>4. /\ \A i \in Jobs : (job'[i] = "none") = (job[i] = "none")
      /\ \A i \in Jobs : Live(i)' => Live(i)
      /\ \A i \in Jobs : job[i] # "pending" => job'[i] = job[i]
  BY <1>1, <1>3 DEF Live, Outcomes
<1>5. MemoryTypeOK'
  BY <1>1, <1>3, TypesAre DEF MemoryTypeOK
<1>6. RowsAgree'
  <2>1. \A i \in Jobs : Held(i)' <=> Held(i)
    BY <1>1 DEF Held
  <2>2. \A i \in Jobs : Newest(i) => Newest(i)'
    BY <1>4 DEF Newest
  <2>3. QED BY <1>1, <1>4, <2>1, <2>2 DEF MemoryInv, RowsAgree
<1>7. ASSUME NEW p \in {worker, sync}, InHand(p), p.got \in JobState
      PROVE  /\ p.pc \in {"record", "poll", "patch", "link", "done"} => p.job \in Jobs /\ job'[p.job] # "none"
             /\ p.pc = "record" => p.got \in {"pending", job'[p.job]}
             /\ p.pc = "patch" => p.got = job'[p.job] /\ p.got # "pending"
             /\ p.pc = "link" => job'[p.job] = "succeeded" /\ p.got = "succeeded"
  BY <1>4, <1>7 DEF InHand
<1>8. worker.got \in JobState /\ sync.got \in JobState
  BY TypesAre DEF Process
<1>9. InHand(worker)' /\ InHand(sync)'
  BY <1>1, <1>7, <1>8 DEF MemoryInv, InHand
<1>10. WorkerKnows'
  <2>1. worker.pc \in {"record", "poll", "patch", "link", "done"} => worker.job \in Jobs
    BY DEF MemoryInv, InHand
  <2>2. IngestedResolves'
    BY <1>1, <1>4, <2>1 DEF MemoryInv, WorkerKnows, IngestedResolves, Resolves, RowListed
  <2>3. QED BY <1>1, <1>4, <2>1, <2>2 DEF MemoryInv, WorkerKnows, Newest, Held, Live
<1>11. SyncKnows'
  <2>1. sync.pc \in {"poll", "patch"} => sync.job \in Jobs
    BY DEF MemoryInv, InHand
  <2>2. sync.open \subseteq Jobs
    BY TypesAre DEF Process
  <2>3. QED BY <1>1, <1>4, <2>1, <2>2 DEF MemoryInv, SyncKnows, Held, Live
<1>12. RecallKnows'
  BY <1>1 DEF MemoryInv, RecallKnows, Resolves, RowListed
<1>13. WasteBounded'
  <2>1. \A i \in Jobs : Wasted(i)' => Wasted(i)
    BY <1>1, <1>4 DEF Wasted, Held
  <2>2. QED BY <1>1, <2>1, WasteSame, TypesAre
<1>14. QED BY <1>5, <1>6, <1>9, <1>10, <1>11, <1>12, <1>13 DEF MemoryInv

LEMMA MemoryInvInit == MemoryInit => MemoryInv
<1> SUFFICES ASSUME MemoryInit PROVE MemoryInv
  OBVIOUS
<1>1. MemoryTypeOK
  BY MemoryAssumption, RestingIs DEF MemoryInit, MemoryTypeOK
<1>2. RowsAgree /\ \A j \in Jobs : ~Live(j)
  BY DEF MemoryInit, RowsAgree, Held, Live
<1>3. InHand(worker) /\ InHand(sync) /\ WorkerKnows /\ SyncKnows /\ RecallKnows
  BY DEF MemoryInit, Resting, InHand, WorkerKnows, SyncKnows, RecallKnows, IngestedResolves
<1>4. WasteBounded
  <2>1. WastedJobs = {}
    BY <1>2 DEF WastedJobs, Wasted
  <2>2. QED BY <2>1, FS_EmptySet DEF WasteBounded, MemoryInit
<1>5. QED BY <1>1, <1>2, <1>3, <1>4 DEF MemoryInv

LEMMA MemoryInvNext == MemoryInv /\ [MemoryNext]_memoryVars => MemoryInv'
<1> SUFFICES ASSUME MemoryInv, [MemoryNext]_memoryVars PROVE MemoryInv'
  OBVIOUS
<1>1. CASE StartIngest
  BY <1>1, StartIngestKeeps
<1>2. CASE Find
  BY <1>2, FindKeeps
<1>3. CASE Ingest
  BY <1>3, IngestKeeps
<1>4. CASE Record
  BY <1>4, RecordKeeps
<1>5. CASE WorkerPolls
  BY <1>5, WorkerPollsKeeps
<1>6. CASE WorkerPatches
  BY <1>6, WorkerPatchesKeeps
<1>7. CASE WorkerLinks
  BY <1>7, WorkerLinksKeeps
<1>8. CASE WorkerFails
  BY <1>8, WorkerFailsKeeps
<1>9. CASE ListOpen
  BY <1>9, ListOpenKeeps
<1>10. CASE SyncPolls
  BY <1>10, SyncPollsKeeps
<1>11. CASE SyncPatches
  BY <1>11, SyncPatchesKeeps
<1>12. CASE SyncLinks
  BY <1>12, SyncLinksKeeps
<1>13. CASE SyncFails
  BY <1>13, SyncFaultKeeps DEF SyncFails
<1>14. CASE SyncDies
  BY <1>14, SyncFaultKeeps DEF SyncDies
<1>15. CASE Search
  BY <1>15, SearchKeeps
<1>16. CASE LookUpLink
  BY <1>16, LookUpLinkKeeps
<1>17. CASE LookUpRow
  BY <1>17, LookUpRowKeeps
<1>18. CASE RecallFails
  BY <1>18, RecallFailsKeeps
<1>19. ASSUME NEW j \in Jobs, JobEnds(j) PROVE MemoryInv'
  BY <1>19, JobEndsKeeps
<1>20. CASE UNCHANGED memoryVars
  <2>1. UNCHANGED <<job, lineage, links, worker>> /\ sync' = sync /\ memoryFaults' = memoryFaults
    BY <1>20 DEF memoryVars
  <2>2. InHand(sync)' /\ SyncKnows' /\ RecallKnows'
    BY <2>1, RowsStay, SyncKept
  <2>3. memoryFaults' \in 0..MaxFaults /\ memoryFaults <= memoryFaults' /\ sync' \in Process
    BY <2>1, TypesAre
  <2>4. QED BY <2>1, <2>2, <2>3, SyncMoves
<1>21. QED
  BY <1>1, <1>2, <1>3, <1>4, <1>5, <1>6, <1>7, <1>8, <1>9, <1>10, <1>11, <1>12, <1>13, <1>14, <1>15,
     <1>16, <1>17, <1>18, <1>19, <1>20 DEF MemoryNext

LEMMA MemoryInvHolds == MemorySpec => []MemoryInv
BY MemoryInvInit, MemoryInvNext, PTL DEF MemorySpec

\* However many jobs, polls and faults there are: the memory of an ingest that
\* succeeded can be traced back to the source.
THEOREM IngestedResolvesHolds == MemorySpec => []IngestedResolves
<1>1. MemoryInv => IngestedResolves
  BY DEF MemoryInv, WorkerKnows
<1>2. QED BY MemoryInvHolds, <1>1, PTL

\* Every memory of the source after the first cost a fault: a job that made or may make
\* one is held by its row or by the worker, and only the newest can be, or was wasted by
\* a fault of its own.
THEOREM ResubmittedForCauseHolds == MemorySpec => []ResubmittedForCause
<1>1. MemoryInv => ResubmittedForCause
  <2> SUFFICES ASSUME MemoryInv PROVE ResubmittedForCause
    OBVIOUS
  <2> DEFINE S == {j \in Jobs : job[j] = "succeeded"}
             InHandJobs == S \ WastedJobs
  <2>1. IsFiniteSet(Jobs) /\ WastedJobs \in SUBSET Jobs
    <3>1. MaxJobs \in Int /\ 1 \in Int
      BY MemoryAssumption
    <3>2. IsFiniteSet(1..MaxJobs)
      BY <3>1, FS_Interval
    <3>3. QED BY <3>2 DEF Jobs, WastedJobs
  <2>2. ASSUME NEW j \in InHandJobs PROVE Newest(j) /\ job[j] # "none"
    <3>1. Held(j) \/ (worker.pc \in {"record", "patch"} /\ worker.job = j)
      BY DEF WastedJobs, Wasted, Live
    <3>2. QED BY <3>1 DEF MemoryInv, RowsAgree, WorkerKnows
  <2>3. ASSUME NEW j \in InHandJobs, NEW k \in InHandJobs PROVE j = k
    <3>1. ~(j > k) /\ ~(k > j)
      BY <2>2 DEF Newest
    <3>2. QED BY <3>1, JobsAre
  <2>4. \E x : S \subseteq WastedJobs \cup {x}
    BY <2>3
  <2>5. PICK x : S \subseteq WastedJobs \cup {x}
    BY <2>4
  <2> HIDE DEF S, InHandJobs
  <2>6. IsFiniteSet(WastedJobs)
    BY <2>1, FS_Subset
  <2>7. IsFiniteSet(WastedJobs \cup {x}) /\ Cardinality(WastedJobs \cup {x}) <= Cardinality(WastedJobs) + 1
        /\ Cardinality(WastedJobs) \in Nat
    BY <2>6, FS_AddElement, FS_CardinalityType
  <2>8. IsFiniteSet(S) /\ Cardinality(S) <= Cardinality(WastedJobs \cup {x})
    BY <2>5, <2>7, FS_Subset
  <2>9. Cardinality(S) \in Nat /\ Cardinality(WastedJobs \cup {x}) \in Nat
    BY <2>7, <2>8, FS_CardinalityType
  <2>10. Cardinality(WastedJobs) <= memoryFaults
    BY DEF MemoryInv, WasteBounded
  <2>11. Cardinality(S) <= 1 + memoryFaults
    BY <2>7, <2>8, <2>9, <2>10, TypesAre
  <2>12. QED BY <2>11 DEF ResubmittedForCause, S
<1>2. QED BY MemoryInvHolds, <1>1, PTL

\* A recall keeps what the lineage named when it asked, and nothing of another deal.
THEOREM RecallKeepsRecordedHolds == MemorySpec => []RecallKeepsRecorded
<1>1. MemoryInv => RecallKeepsRecorded
  <2> SUFFICES ASSUME MemoryInv PROVE RecallKeepsRecorded
    OBVIOUS
  <2>1. /\ sync.kept \subseteq Jobs
        /\ \A j \in sync.due : j \in sync.kept \cup sync.given \/ (sync.pc \in {"byLink", "byRow"} /\ j = sync.job)
        /\ sync.pc \in {"recalled", "unavailable"} => sync.given = {}
        /\ sync.pc = "unavailable" => sync.kept = {}
    BY DEF MemoryInv, RecallKnows
  <2>2. sync.pc \in {"recalled", "unavailable"} => sync.due \subseteq sync.kept
    BY <2>1
  <2>3. QED BY <2>1, <2>2 DEF RecallKeepsRecorded
<1>2. QED BY MemoryInvHolds, <1>1, PTL
=============================================================================
