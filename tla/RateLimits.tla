------------------------------ MODULE RateLimits ------------------------------
(***************************************************************************)
(* The two limiters of the program.  The sliding one keeps the times of    *)
(* the requests it admitted, in the memory of a process; the fixed one is  *)
(* a row of the database, take_public_request, shared by all processes.    *)
(* Each decides in one step.                                               *)
(***************************************************************************)
EXTENDS Integers, Sequences, FiniteSetsExt

CONSTANTS
    Limit, Window,
    MaxTime         \* bound on the time

ASSUME LimitsAssumption == {Limit, Window} \subseteq Nat \ {0} /\ MaxTime \in Nat

VARIABLES
    now,
    timestamps,     \* the sliding limiter's
    window,         \* the fixed limiter's row
    admitted,       \* history: per limiter, the times of the requests it admitted
    refused         \* per limiter: the time of its last refusal and the wait it asked for

limitVars == <<now, timestamps, window, admitted, refused>>

LimitsInit ==
    /\ now = Window
    /\ timestamps = <<>>
    /\ window = [start |-> 0, count |-> 0]
    /\ admitted = [k \in {"sliding", "fixed"} |-> <<>>]
    /\ refused = [k \in {"sliding", "fixed"} |-> [at |-> 0, wait |-> 0]]

\* The stamps that have not left the window; they are in order, so the others come first.
Active(stamps, t) ==
    LET expired == Max({0} \cup {i \in DOMAIN stamps : stamps[i] <= t - Window})
    IN SubSeq(stamps, expired + 1, Len(stamps))

Admit(k) ==
    /\ admitted' = [admitted EXCEPT ![k] = Append(@, now)]
    /\ UNCHANGED refused

Refuse(k, wait) ==
    /\ refused' = [refused EXCEPT ![k] = [at |-> now, wait |-> Max({1, wait})]]
    /\ UNCHANGED admitted

\* takePublicRequest, and acquire of createXTraceRateLimiter.
TakeSliding ==
    LET active == Active(timestamps, now) IN
    /\ IF Len(active) >= Limit
       THEN timestamps' = active /\ Refuse("sliding", (active[1] + Window) - now)
       ELSE timestamps' = Append(active, now) /\ Admit("sliding")
    /\ UNCHANGED <<now, window>>

\* The row after another request: a window that is over begins anew.
CountedForEver(w, t) ==
    IF w.start <= t - Window THEN [w EXCEPT !.start = t]
    ELSE [start |-> w.start, count |-> w.count + 1]

Counted(w, t) ==
    IF w.start <= t - Window THEN [start |-> t, count |-> 1]
    ELSE [start |-> w.start, count |-> w.count + 1]

\* take_public_request.  The bound on the count only cuts off repeated refusals.
TakeFixed ==
    LET w == Counted(window, now) IN
    /\ w.count <= Limit + 1
    /\ window' = w
    /\ IF w.count <= Limit THEN Admit("fixed")
       ELSE Refuse("fixed", (w.start + Window) - now)
    /\ UNCHANGED <<now, timestamps>>

Tick ==
    /\ now < MaxTime
    /\ now' = now + 1
    /\ UNCHANGED <<timestamps, window, admitted, refused>>

LimitsNext == TakeSliding \/ TakeFixed \/ Tick

LimitsSpec == LimitsInit /\ [][LimitsNext]_limitVars

-----------------------------------------------------------------------------

\* Of so many requests and one more, the last comes a window after the first, or later.
AtMostPerWindow(log, bound) ==
    \A i \in DOMAIN log : i + bound \in DOMAIN log => log[i + bound] >= log[i] + Window

RoomAt(k, t) ==
    IF k = "sliding" THEN Len(Active(timestamps, t)) < Limit ELSE Counted(window, t).count <= Limit

\* Somebody was admitted since, or the time it was told finds room.
WaitSuffices(k) ==
    refused[k].wait > 0 =>
        \/ \E i \in DOMAIN admitted[k] : admitted[k][i] > refused[k].at
        \/ RoomAt(k, refused[k].at + refused[k].wait)

\* In no stretch of one window does the sliding limiter admit more than the limit,
\* and the fixed one more than twice the limit; and whoever waits as long as it was
\* told after a refusal finds room if nobody else came.
LimitsHold ==
    /\ AtMostPerWindow(admitted["sliding"], Limit)
    /\ AtMostPerWindow(admitted["fixed"], 2 * Limit)
    /\ WaitSuffices("sliding") /\ WaitSuffices("fixed")
=============================================================================
