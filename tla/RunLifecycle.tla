---------------------------- MODULE RunLifecycle ----------------------------
(***************************************************************************)
(* What the scan queue promises its users, with no worker, lease or clock  *)
(* in sight: a submitted run is dispatched, may fall back to the queue, and *)
(* once it is settled it is never active again; two active runs never      *)
(* share a (workspace, mode) key.  ScanWorker implements this module.      *)
(*                                                                         *)
(* Settle is deliberately weak.  It does not say that a run settles once,  *)
(* because the code does not: see the finding about finish in README.md.   *)
(***************************************************************************)
EXTENDS Integers

CONSTANTS
    MaxRuns,    \* bound on the rows ever inserted into scan_runs
    Keys,       \* the (workspace_id, mode) pairs; window_days is always 14
    NoKey       \* the key of a row that does not exist

VARIABLES
    status,     \* status of each row, "absent" before it is inserted
    key         \* key of each row

Runs == 1..MaxRuns
Terminal == {"partial", "completed", "failed"}
Statuses == {"absent", "queued", "running"} \cup Terminal

Active(r) == status[r] \in {"queued", "running"}

Init ==
    /\ status = [r \in Runs |-> "absent"]
    /\ key = [r \in Runs |-> NoKey]

Submit(r, k) ==
    /\ status[r] = "absent"
    /\ \A x \in Runs : Active(x) => key[x] # k
    /\ status' = [status EXCEPT ![r] = "queued"]
    /\ key' = [key EXCEPT ![r] = k]

\* Some running runs fall back to the queue and one queued run is handed out.
Dispatch(r, lost) ==
    /\ \A x \in lost : status[x] = "running"
    /\ status[r] = "queued" \/ r \in lost
    /\ status' = [x \in Runs |-> IF x = r THEN "running"
                                 ELSE IF x \in lost THEN "queued" ELSE status[x]]
    /\ UNCHANGED key

Settle(r, outcome) ==
    /\ status[r] # "absent"
    /\ status' = [status EXCEPT ![r] = outcome]
    /\ UNCHANGED key

Next ==
    \E r \in Runs :
        \/ \E k \in Keys : Submit(r, k)
        \/ \E lost \in SUBSET Runs : Dispatch(r, lost)
        \/ \E outcome \in Terminal : Settle(r, outcome)

Spec == Init /\ [][Next]_<<status, key>>

-----------------------------------------------------------------------------

\* Of the runs of one workspace and mode at most one is queued or running.
OneActivePerKey ==
    \A r, x \in Runs : Active(r) /\ Active(x) /\ key[r] = key[x] => r = x

=============================================================================
