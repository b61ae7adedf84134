------------------------------ MODULE TestReset -------------------------------
(***************************************************************************)
(* The reset of the public test view among scans that are being created.   *)
(* A request that inserts a run takes its time when its transaction        *)
(* begins, and the run is seen by others when it commits.                  *)
(* reset_test_view reads the clock, then looks for an active run, then     *)
(* writes its marker; each of its statements sees what is committed by     *)
(* then.  The lists show what was created after the marker.                *)
(***************************************************************************)
EXTENDS Naturals, FiniteSets

CONSTANTS Runs, Resets      \* requests for a run, requests for a reset

VARIABLES
    clock,      \* stamps handed out; no two are equal
    run,        \* per request for a run
    reset,      \* per request for a reset
    marker      \* the workspace's marker and who wrote it

resetVars == <<clock, run, reset, marker>>

Nobody == "nobody"

ASSUME ResetAssumption == Nobody \notin Resets

ResetTypeOK ==
    /\ clock \in 0..(Cardinality(Runs) + Cardinality(Resets))
    /\ run \in [Runs -> [pc : {"none", "open", "refused", "active", "done"}, created : Nat]]
    /\ reset \in [Resets -> [pc : {"off", "asked", "taken", "checked", "answered", "refused"},
                             at : Nat, open : SUBSET Runs]]
    /\ marker \in [at : Nat, by : Resets \cup {Nobody}]
    \* what the unique index says, and the database's clock
    /\ Cardinality({x \in Runs : run[x].pc = "active"}) <= 1
    /\ marker.at <= clock

ResetInit ==
    /\ clock = 0
    /\ run = [x \in Runs |-> [pc |-> "none", created |-> 0]]
    /\ reset = [r \in Resets |-> [pc |-> "off", at |-> 0, open |-> {}]]
    /\ marker = [at |-> 0, by |-> Nobody]

ActiveRun == \E x \in Runs : run[x].pc = "active"

BeginInsert(x) ==
    /\ run[x].pc = "none"
    /\ clock' = clock + 1
    /\ run' = [run EXCEPT ![x] = [pc |-> "open", created |-> clock + 1]]
    /\ UNCHANGED <<reset, marker>>

\* The partial unique index refuses a second active run.
CommitInsert(x) ==
    /\ run[x].pc = "open"
    /\ run' = [run EXCEPT ![x].pc = IF ActiveRun THEN "refused" ELSE "active"]
    /\ UNCHANGED <<clock, reset, marker>>

Finish(x) ==
    /\ run[x].pc = "active"
    /\ run' = [run EXCEPT ![x].pc = "done"]
    /\ UNCHANGED <<clock, reset, marker>>

Goes(r, pc) == reset' = [reset EXCEPT ![r].pc = pc]

\* The route looks for an active run first, in a request of its own.
Ask(r) ==
    /\ reset[r].pc = "off"
    /\ Goes(r, IF ActiveRun THEN "refused" ELSE "asked")
    /\ UNCHANGED <<clock, run, marker>>

TakeMarker(r) ==
    /\ reset[r].pc = "asked"
    /\ clock' = clock + 1
    /\ reset' = [reset EXCEPT ![r].pc = "taken", ![r].at = clock + 1]
    /\ UNCHANGED <<run, marker>>

CheckActive(r) ==
    /\ reset[r].pc = "taken"
    /\ reset' = [reset EXCEPT ![r].pc = IF ActiveRun THEN "refused" ELSE "checked",
                              ![r].open = {x \in Runs : run[x].pc = "open"}]
    /\ UNCHANGED <<clock, run, marker>>

WriteLate(r) ==
    /\ reset[r].pc = "checked"
    /\ marker' = [at |-> clock, by |-> r]
    /\ Goes(r, "answered")
    /\ UNCHANGED <<clock, run>>

\* The marker is the time before the check, not the time of the write.
WriteMarker(r) ==
    /\ reset[r].pc = "checked"
    /\ marker' = [at |-> reset[r].at, by |-> r]
    /\ Goes(r, "answered")
    /\ UNCHANGED <<clock, run>>

ResetNext ==
    \/ \E x \in Runs : BeginInsert(x) \/ CommitInsert(x) \/ Finish(x)
    \/ \E r \in Resets : Ask(r) \/ TakeMarker(r) \/ CheckActive(r) \/ WriteMarker(r)

ResetSpec == ResetInit /\ [][ResetNext]_resetVars
-----------------------------------------------------------------------------

\* listRuns with the marker.
Listed(x) == run[x].created > marker.at

\* A run that is at work is listed, unless its insertion was already under way,
\* and not yet committed, when the reset whose marker stands looked for active
\* runs: nothing locks the two against each other.
HiddenOnlyIfOverlapping ==
    \A x \in Runs : run[x].pc = "active" /\ ~Listed(x) =>
        marker.by # Nobody /\ x \in reset[marker.by].open
=============================================================================
