--------------------------- MODULE FrameworkCatalog ---------------------------
(***************************************************************************)
(* The resolver of framework catalogs, for one key: callers share the load *)
(* that is under way or done, each may give up through its own signal, and *)
(* the load is aborted when the last one has given up.  Callers are stages *)
(* of candidates; one that was answered may ask again.                     *)
(***************************************************************************)
EXTENDS Naturals, Sequences, FiniteSets

CONSTANTS
    Callers,
    MaxLoads,   \* bound on loads started
    MaxCalls    \* bound on the calls of one caller

ASSUME FrameworkCatalogAssumption == {MaxLoads, MaxCalls} \subseteq Nat

VARIABLES
    loads,      \* the entries ever made, in order
    selected,   \* the one in the selections map, 0 for none
    caller      \* per caller: its newest call

catalogVars == <<loads, selected, caller>>

NewLoad(c) == [pc |-> "loading", aborted |-> FALSE, waiters |-> {c}]

NoCall == [pc |-> "idle", load |-> 0, signal |-> "none", joined |-> "none", calls |-> 0]

CatalogInit ==
    /\ loads = <<>> /\ selected = 0
    /\ caller = [c \in Callers |-> NoCall]

Pending(c) == caller[c].pc = "waiting"

\* How a call on a load stands once the load has: a settled promise answers at once.
PromiseState(load) == CASE load.pc = "loading" -> "waiting"
                  [] load.pc = "loaded" -> "resolved"
                  [] load.pc = "failed" -> "rejected"

Calls(c, l, signal, joined, pc) ==
    caller' = [caller EXCEPT ![c] = [pc |-> pc, load |-> l, signal |-> signal,
                                     joined |-> joined, calls |-> @.calls + 1]]

MayCall(c) == ~Pending(c) /\ caller[c].calls < MaxCalls

\* resolve joins the entry of its key ...
JoinLoad(c, signal) ==
    /\ MayCall(c) /\ selected # 0
    /\ LET load == loads[selected] IN
       /\ Calls(c, selected, signal, IF load.aborted THEN "aborted" ELSE load.pc, PromiseState(load))
       /\ loads' = IF load.pc = "loading" THEN [loads EXCEPT ![selected].waiters = @ \cup {c}]
                   ELSE loads
    /\ UNCHANGED selected

\* ... or makes one.
StartLoad(c, signal) ==
    /\ MayCall(c) /\ selected = 0 /\ Len(loads) < MaxLoads
    /\ loads' = Append(loads, NewLoad(c))
    /\ selected' = Len(loads) + 1
    /\ Calls(c, Len(loads) + 1, signal, "loading", "waiting")

\* throwIfAborted at the start of resolve.
CallAborted(c) ==
    /\ MayCall(c)
    /\ Calls(c, 0, "aborted", "none", "rejected")
    /\ UNCHANGED <<loads, selected>>

AbortRegardless(load) == [load EXCEPT !.aborted = TRUE]

AbortIfLast(load) == [load EXCEPT !.aborted = @ \/ load.waiters = {}]

\* The signal of a waiting caller: it leaves, and the last one aborts the load.
GiveUp(c) ==
    /\ Pending(c) /\ caller[c].signal = "live"
    /\ LET l == caller[c].load IN
       loads' = [loads EXCEPT ![l] = AbortIfLast([loads[l] EXCEPT !.waiters = @ \ {c}])]
    /\ caller' = [caller EXCEPT ![c].pc = "rejected", ![c].signal = "aborted"]
    /\ UNCHANGED selected

\* A load that failed leaves the map, if it is still the one there.
EntryAfter(l, end) == IF end = "failed" /\ selected = l THEN 0 ELSE selected

\* The load settles: the entry first, then its waiters.  An aborted one fails unless
\* it was past its last look at the signal.
LoadEnds(l, end) ==
    /\ loads[l].pc = "loading"
    /\ loads' = [loads EXCEPT ![l].pc = end, ![l].waiters = {}]
    /\ selected' = EntryAfter(l, end)
    /\ caller' = [c \in Callers |->
                     IF c \in loads[l].waiters
                     THEN [caller[c] EXCEPT !.pc = IF end = "loaded" THEN "resolved" ELSE "rejected"]
                     ELSE caller[c]]

CatalogNext ==
    \/ \E c \in Callers :
          \/ \E signal \in {"none", "live"} : JoinLoad(c, signal) \/ StartLoad(c, signal)
          \/ CallAborted(c) \/ GiveUp(c)
    \/ \E l \in 1..Len(loads), end \in {"loaded", "failed"} : LoadEnds(l, end)

CatalogSpec == CatalogInit /\ [][CatalogNext]_catalogVars
-----------------------------------------------------------------------------
(* Properties. *)

\* A caller whose own signal is live is never turned away because others gave up:
\* the load it waits for is not aborted, and what rejects it is a load that failed
\* by itself while the caller waited.  The exception is a caller that joined a load
\* which was already aborted but had not ended.
CatalogServesWaiters == \A c \in Callers :
    caller[c].signal # "aborted" /\ caller[c].joined # "aborted" =>
        /\ Pending(c) => ~loads[caller[c].load].aborted
        /\ caller[c].pc = "rejected" => /\ caller[c].joined = "loading"
                                        /\ loads[caller[c].load].pc = "failed"
                                        /\ ~loads[caller[c].load].aborted
=============================================================================
