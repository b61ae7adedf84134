----------------------------- MODULE AnalysisProofs -----------------------------
(***************************************************************************)
(* Theorems about what a candidate's analysis is made of: the resolver of  *)
(* framework catalogs, the artifacts composed of the lenses' answers, the  *)
(* decision, the market events and the matches; for any callers, cards,    *)
(* packs, providers, answers and bounds.                                   *)
(***************************************************************************)
EXTENDS FrameworkCatalog, CandidateArtifacts, CandidateDecision, MarketScan, Matching, NaturalsInduction,
        WellFoundedInduction, FiniteSetTheorems, TLAPS

-----------------------------------------------------------------------------
(* The framework catalogs. *)

Load == [pc : {"loading", "loaded", "failed"}, aborted : BOOLEAN, waiters : SUBSET Callers]

Call == [pc : {"idle", "waiting", "resolved", "rejected"}, load : Nat,
         signal : {"none", "live", "aborted"},
         joined : {"none", "aborted", "loading", "loaded", "failed"}, calls : Nat]

CatalogTypeOK ==
    /\ loads \in Seq(Load)
    /\ selected \in 0..Len(loads)
    /\ caller \in [Callers -> Call]

\* A load that failed is in the map no more.
SelectedServes == selected # 0 => loads[selected].pc # "failed"

\* A caller that waits is a waiter of its load, which has not ended ...
WaitersWait == \A c \in Callers : Pending(c) =>
    /\ caller[c].load \in 1..Len(loads)
    /\ loads[caller[c].load].pc = "loading"
    /\ c \in loads[caller[c].load].waiters
    /\ caller[c].joined \in {"loading", "aborted"}

\* ... and its waiters wait for it.
WaitersKnown == \A l \in 1..Len(loads) : \A c \in loads[l].waiters :
    Pending(c) /\ caller[c].load = l

\* What CatalogServesWaiters says of one caller, whose load exists.
Served(c) ==
    caller[c].signal # "aborted" /\ caller[c].joined # "aborted" =>
        /\ Pending(c) => ~loads[caller[c].load].aborted
        /\ caller[c].pc = "rejected" => /\ caller[c].joined = "loading"
                                        /\ caller[c].load \in 1..Len(loads)
                                        /\ loads[caller[c].load].pc = "failed"
                                        /\ ~loads[caller[c].load].aborted

CatalogInv ==
    /\ CatalogTypeOK /\ SelectedServes /\ WaitersWait /\ WaitersKnown
    /\ \A c \in Callers : Served(c)

LEMMA LoadTypes ==
    ASSUME CatalogInv
    PROVE  /\ loads \in Seq(Load) /\ Len(loads) \in Nat
           /\ \A l \in 1..Len(loads) : loads[l] \in Load /\ loads[l].waiters \subseteq Callers
<1>1. loads \in Seq(Load)
  BY DEF CatalogInv, CatalogTypeOK
<1>2. ASSUME NEW l \in 1..Len(loads) PROVE loads[l] \in Load
  BY <1>1
<1>3. ASSUME NEW x \in Load PROVE x.waiters \subseteq Callers
  BY DEF Load
<1>4. QED BY <1>1, <1>2, <1>3

-----------------------------------------------------------------------------
(* A call of a caller that is not waiting changes its own record only. *)

LEMMA CallsRecord ==
    ASSUME CatalogInv, NEW c \in Callers, NEW l \in Nat, NEW signal \in {"none", "live", "aborted"},
           NEW joined \in {"none", "aborted", "loading", "loaded", "failed"},
           NEW pc \in {"idle", "waiting", "resolved", "rejected"},
           Calls(c, l, signal, joined, pc)
    PROVE  /\ caller' \in [Callers -> Call]
           /\ \A d \in Callers : d # c => caller'[d] = caller[d]
           /\ caller'[c].pc = pc /\ caller'[c].load = l
           /\ caller'[c].signal = signal /\ caller'[c].joined = joined
BY DEF Calls, CatalogInv, CatalogTypeOK, Call

LEMMA JoinKeeps ==
    ASSUME CatalogInv, NEW c \in Callers, NEW signal \in {"none", "live"}, JoinLoad(c, signal)
    PROVE  CatalogInv'
<1> DEFINE load == loads[selected]
           joined == IF load.aborted THEN "aborted" ELSE load.pc
           pc == PromiseState(load)
<1>1. /\ selected \in 1..Len(loads) /\ load \in Load /\ load.pc \in {"loading", "loaded"}
      /\ selected' = selected /\ ~Pending(c) /\ selected \in Nat
  <2>1. selected \in 1..Len(loads) /\ selected' = selected /\ ~Pending(c) /\ load.pc # "failed"
    BY LoadTypes DEF JoinLoad, MayCall, CatalogInv, CatalogTypeOK, SelectedServes
  <2>2. load \in Load
    BY <2>1, LoadTypes
  <2>3. load.pc \in {"loading", "loaded"}
    BY <2>1, <2>2 DEF Load
  <2>4. QED BY <2>1, <2>2, <2>3, LoadTypes
<1>2. pc = IF load.pc = "loading" THEN "waiting" ELSE "resolved"
  BY <1>1 DEF PromiseState
<1>3. /\ joined \in {"none", "aborted", "loading", "loaded", "failed"}
      /\ pc \in {"idle", "waiting", "resolved", "rejected"}
      /\ load.aborted <=> joined = "aborted"
      /\ ~load.aborted => joined = load.pc
  BY <1>1, <1>2 DEF Load
<1>4. Calls(c, selected, signal, joined, pc)
  BY DEF JoinLoad
<1>5. /\ caller' \in [Callers -> Call]
      /\ \A d \in Callers : d # c => caller'[d] = caller[d]
      /\ caller'[c].pc = pc /\ caller'[c].load = selected
      /\ caller'[c].signal = signal /\ caller'[c].joined = joined
  <2> HIDE DEF joined, pc
  <2>1. signal \in {"none", "live", "aborted"}
    OBVIOUS
  <2>2. QED BY <1>1, <1>3, <1>4, <2>1, CallsRecord
<1>6. CASE load.pc = "loading"
  <2>1. /\ loads' = [loads EXCEPT ![selected].waiters = @ \cup {c}]
        /\ loads \in Seq(Load)
    BY <1>6 DEF JoinLoad, CatalogInv, CatalogTypeOK
  <2>2. /\ loads' \in Seq(Load) /\ Len(loads') = Len(loads)
        /\ \A l \in 1..Len(loads) : l # selected => loads'[l] = loads[l]
        /\ loads'[selected].pc = "loading" /\ loads'[selected].aborted = load.aborted
        /\ loads'[selected].waiters = load.waiters \cup {c}
    BY <1>1, <1>6, <2>1 DEF Load
  <2>3. CatalogTypeOK' /\ SelectedServes'
    BY <1>1, <1>5, <2>2 DEF CatalogInv, CatalogTypeOK, SelectedServes
  <2>4. WaitersWait'
    <3> SUFFICES ASSUME NEW d \in Callers, caller'[d].pc = "waiting"
                 PROVE  /\ caller'[d].load \in 1..Len(loads')
                        /\ loads'[caller'[d].load].pc = "loading"
                        /\ d \in loads'[caller'[d].load].waiters
                        /\ caller'[d].joined \in {"loading", "aborted"}
      BY DEF WaitersWait, Pending
    <3>1. CASE d = c
      BY <1>1, <1>3, <1>5, <1>6, <2>2, <3>1
    <3>2. CASE d # c
      BY <1>1, <1>5, <2>2, <3>2 DEF CatalogInv, WaitersWait, Pending
    <3>3. QED BY <3>1, <3>2
  <2>5. WaitersKnown'
    <3> SUFFICES ASSUME NEW l \in 1..Len(loads'), NEW d \in loads'[l].waiters
                 PROVE  caller'[d].pc = "waiting" /\ caller'[d].load = l
      BY DEF WaitersKnown, Pending
    <3>1. CASE d = c /\ l = selected
      BY <1>2, <1>5, <1>6, <3>1
    <3>2. CASE ~(d = c /\ l = selected)
      <4>1. d \in loads[l].waiters /\ l \in 1..Len(loads)
        BY <1>1, <2>2, <3>2
      <4>2. caller[d].pc = "waiting" /\ caller[d].load = l /\ d \in Callers
        <5>1. d \in Callers
          BY <4>1, LoadTypes
        <5>2. QED BY <4>1, <5>1 DEF CatalogInv, WaitersKnown, Pending
      <4>3. d # c
        BY <1>1, <4>2 DEF Pending
      <4>4. QED BY <1>5, <4>2, <4>3
    <3>3. QED BY <3>1, <3>2
  <2>6. ASSUME NEW d \in Callers PROVE Served(d)'
    <3>1. CASE d = c
      BY <1>1, <1>2, <1>3, <1>5, <1>6, <2>2, <3>1 DEF Served, Pending
    <3>2. CASE d # c
      <4>1. Served(d) /\ caller'[d] = caller[d] /\ (Pending(d) => caller[d].load \in 1..Len(loads))
        BY <1>5, <3>2 DEF CatalogInv, WaitersWait
      <4>2. QED BY <1>1, <1>6, <2>2, <4>1 DEF Served, Pending
    <3>3. QED BY <3>1, <3>2
  <2>7. QED BY <2>3, <2>4, <2>5, <2>6 DEF CatalogInv
<1>7. CASE load.pc # "loading"
  <2>1. loads' = loads
    BY <1>7 DEF JoinLoad
  <2>2. CatalogTypeOK' /\ SelectedServes'
    BY <1>1, <1>5, <2>1 DEF CatalogInv, CatalogTypeOK, SelectedServes
  <2>3. WaitersWait'
    BY <1>2, <1>5, <1>7, <2>1 DEF CatalogInv, WaitersWait, Pending
  <2>4. WaitersKnown'
    <3>1. \A l \in 1..Len(loads) : loads[l].waiters \subseteq Callers
      BY LoadTypes
    <3>2. QED BY <1>1, <1>5, <2>1, <3>1 DEF CatalogInv, WaitersKnown, Pending
  <2>5. ASSUME NEW d \in Callers PROVE Served(d)'
    BY <1>1, <1>2, <1>5, <1>7, <2>1 DEF CatalogInv, Served, Pending
  <2>6. QED BY <2>2, <2>3, <2>4, <2>5 DEF CatalogInv
<1>8. QED BY <1>6, <1>7

LEMMA StartKeeps ==
    ASSUME CatalogInv, NEW c \in Callers, NEW signal \in {"none", "live"}, StartLoad(c, signal)
    PROVE  CatalogInv'
<1> DEFINE n == Len(loads) + 1
<1>1. /\ loads \in Seq(Load) /\ n \in Nat /\ ~Pending(c)
      /\ \A l \in 1..Len(loads) : loads[l].waiters \subseteq Callers
  BY LoadTypes DEF StartLoad, MayCall
<1>2. NewLoad(c) \in Load
  BY DEF NewLoad, Load
<1>3. /\ loads' \in Seq(Load) /\ Len(loads') = n
      /\ \A l \in 1..Len(loads) : loads'[l] = loads[l]
      /\ loads'[n] = NewLoad(c) /\ selected' = n
      /\ 1..Len(loads') = 1..Len(loads) \cup {n}
  BY <1>1, <1>2 DEF StartLoad
<1>4. /\ caller' \in [Callers -> Call]
      /\ \A d \in Callers : d # c => caller'[d] = caller[d]
      /\ caller'[c].pc = "waiting" /\ caller'[c].load = n
      /\ caller'[c].signal = signal /\ caller'[c].joined = "loading"
  <2>1. Calls(c, n, signal, "loading", "waiting")
    BY DEF StartLoad
  <2>2. QED BY <1>1, <2>1, CallsRecord
<1>5. CatalogTypeOK' /\ SelectedServes'
  BY <1>1, <1>3, <1>4 DEF CatalogTypeOK, SelectedServes, NewLoad
<1>6. WaitersWait'
  BY <1>1, <1>3, <1>4 DEF CatalogInv, WaitersWait, Pending, NewLoad
<1>7. WaitersKnown'
  BY <1>1, <1>3, <1>4 DEF CatalogInv, WaitersKnown, Pending, NewLoad
<1>8. ASSUME NEW d \in Callers PROVE Served(d)'
  BY <1>1, <1>3, <1>4 DEF CatalogInv, WaitersWait, Served, Pending, NewLoad
<1>9. QED BY <1>5, <1>6, <1>7, <1>8 DEF CatalogInv

LEMMA CallAbortedKeeps ==
    ASSUME CatalogInv, NEW c \in Callers, CallAborted(c) PROVE CatalogInv'
<1>1. /\ ~Pending(c) /\ loads' = loads /\ selected' = selected
      /\ \A l \in 1..Len(loads) : loads[l].waiters \subseteq Callers
  BY LoadTypes DEF CallAborted, MayCall
<1>2. /\ caller' \in [Callers -> Call]
      /\ \A d \in Callers : d # c => caller'[d] = caller[d]
      /\ caller'[c].pc = "rejected" /\ caller'[c].signal = "aborted"
  <2>1. Calls(c, 0, "aborted", "none", "rejected")
    BY DEF CallAborted
  <2>2. QED BY <2>1, CallsRecord
<1>3. CatalogTypeOK' /\ SelectedServes' /\ WaitersWait'
  BY <1>1, <1>2 DEF CatalogInv, CatalogTypeOK, SelectedServes, WaitersWait, Pending
<1>4. WaitersKnown'
  BY <1>1, <1>2 DEF CatalogInv, WaitersKnown, Pending
<1>5. ASSUME NEW d \in Callers PROVE Served(d)'
  BY <1>1, <1>2 DEF CatalogInv, Served, Pending
<1>6. QED BY <1>3, <1>4, <1>5 DEF CatalogInv

\* Who gives up aborts the load only if nobody is left who waits for it.
LEMMA GiveUpKeeps ==
    ASSUME CatalogInv, NEW c \in Callers, GiveUp(c) PROVE CatalogInv'
<1> DEFINE k == caller[c].load
<1>1. /\ loads \in Seq(Load) /\ k \in 1..Len(loads) /\ loads[k].pc = "loading"
      /\ \A l \in 1..Len(loads) : loads[l].waiters \subseteq Callers
      /\ selected' = selected /\ caller[c] \in Call
  BY LoadTypes DEF GiveUp, CatalogInv, CatalogTypeOK, WaitersWait
<1>2. /\ caller' \in [Callers -> Call]
      /\ \A d \in Callers : d # c => caller'[d] = caller[d]
      /\ caller'[c].pc = "rejected" /\ caller'[c].signal = "aborted"
  BY <1>1 DEF GiveUp, CatalogInv, CatalogTypeOK, Call
<1>3. /\ loads' \in Seq(Load) /\ Len(loads') = Len(loads)
      /\ \A l \in 1..Len(loads) : l # k => loads'[l] = loads[l]
      /\ loads'[k].pc = "loading" /\ loads'[k].waiters = loads[k].waiters \ {c}
      /\ loads'[k].waiters # {} => loads'[k].aborted = loads[k].aborted
  <2> DEFINE new == AbortIfLast([loads[k] EXCEPT !.waiters = @ \ {c}])
  <2>1. loads' = [loads EXCEPT ![k] = new]
    BY DEF GiveUp
  <2>2. loads[k] \in Load
    BY <1>1
  <2>3. /\ new \in Load /\ new.pc = "loading" /\ new.waiters = loads[k].waiters \ {c}
        /\ new.waiters # {} => new.aborted = loads[k].aborted
    BY <1>1, <2>2 DEF AbortIfLast, Load
  <2> HIDE DEF new
  <2>4. QED BY <1>1, <2>1, <2>3
<1>4. CatalogTypeOK' /\ SelectedServes'
  BY <1>1, <1>2, <1>3 DEF CatalogInv, CatalogTypeOK, SelectedServes
<1>5. WaitersWait'
  BY <1>1, <1>2, <1>3 DEF CatalogInv, WaitersWait, Pending
<1>6. WaitersKnown'
  <2> SUFFICES ASSUME NEW l \in 1..Len(loads'), NEW d \in loads'[l].waiters
               PROVE  caller'[d].pc = "waiting" /\ caller'[d].load = l
    BY DEF WaitersKnown, Pending
  <2>1. d \in loads[l].waiters /\ l \in 1..Len(loads) /\ (l = k => d # c)
    BY <1>1, <1>3
  <2>2. caller[d].pc = "waiting" /\ caller[d].load = l /\ d \in Callers
    BY <1>1, <2>1 DEF CatalogInv, WaitersKnown, Pending
  <2>3. d # c
    BY <2>1, <2>2
  <2>4. QED BY <1>2, <2>2, <2>3
<1>7. ASSUME NEW d \in Callers PROVE Served(d)'
  <2>1. CASE d = c
    BY <1>2, <2>1 DEF Served
  <2>2. CASE d # c
    <3>1. /\ Served(d) /\ caller'[d] = caller[d]
          /\ Pending(d) => /\ caller[d].load \in 1..Len(loads)
                           /\ d \in loads[caller[d].load].waiters
      BY <1>2, <2>2 DEF CatalogInv, WaitersWait
    <3>2. Pending(d) => loads'[caller[d].load].aborted = loads[caller[d].load].aborted
      BY <1>3, <2>2, <3>1
    <3>3. caller[d].load \in 1..Len(loads) /\ loads[caller[d].load].pc = "failed" =>
              loads'[caller[d].load] = loads[caller[d].load]
      BY <1>1, <1>3
    <3>4. QED BY <1>3, <3>1, <3>2, <3>3 DEF Served, Pending
  <2>3. QED BY <2>1, <2>2
<1>8. QED BY <1>4, <1>5, <1>6, <1>7 DEF CatalogInv

LEMMA EndsKeeps ==
    ASSUME CatalogInv, NEW l \in 1..Len(loads), NEW end \in {"loaded", "failed"}, LoadEnds(l, end)
    PROVE  CatalogInv'
<1>1. /\ loads \in Seq(Load) /\ loads[l].pc = "loading"
      /\ \A k \in 1..Len(loads) : loads[k].waiters \subseteq Callers
  BY LoadTypes DEF LoadEnds
<1>2. /\ loads' \in Seq(Load) /\ Len(loads') = Len(loads)
      /\ \A k \in 1..Len(loads) : k # l => loads'[k] = loads[k]
      /\ loads'[l].pc = end /\ loads'[l].waiters = {} /\ loads'[l].aborted = loads[l].aborted
  <2> DEFINE new == [loads[l] EXCEPT !.pc = end, !.waiters = {}]
  <2>1. loads' = [loads EXCEPT ![l] = new]
    BY <1>1 DEF LoadEnds
  <2>2. loads[l] \in Load
    BY LoadTypes
  <2>3. new \in Load /\ new.pc = end /\ new.waiters = {} /\ new.aborted = loads[l].aborted
    BY <2>2 DEF Load
  <2> HIDE DEF new
  <2>4. QED BY <1>1, <2>1, <2>3
<1>3. ASSUME NEW d \in Callers
      PROVE  /\ d \notin loads[l].waiters => caller'[d] = caller[d]
             /\ d \in loads[l].waiters =>
                    /\ caller'[d].pc = IF end = "loaded" THEN "resolved" ELSE "rejected"
                    /\ caller'[d].load = caller[d].load
                    /\ caller'[d].joined = caller[d].joined
                    /\ caller'[d].signal = caller[d].signal
             /\ caller'[d] \in Call
  BY DEF LoadEnds, CatalogInv, CatalogTypeOK, Call
<1>4. caller' \in [Callers -> Call]
  <2>1. caller' = [d \in Callers |-> caller'[d]]
    BY DEF LoadEnds
  <2>2. QED BY <1>3, <2>1
<1>5. selected' \in 0..Len(loads) /\ (selected' # 0 => loads'[selected'].pc # "failed")
  <2>1. selected' = IF end = "failed" /\ selected = l THEN 0 ELSE selected
    BY DEF LoadEnds, EntryAfter
  <2>2. QED BY <1>2, <2>1 DEF CatalogInv, CatalogTypeOK, SelectedServes
<1>6. CatalogTypeOK' /\ SelectedServes'
  BY <1>2, <1>4, <1>5 DEF CatalogTypeOK, SelectedServes
<1>7. ASSUME NEW d \in Callers, caller'[d].pc = "waiting"
      PROVE  /\ caller'[d] = caller[d] /\ Pending(d) /\ caller[d].load # l
             /\ caller[d].load \in 1..Len(loads) /\ loads'[caller[d].load] = loads[caller[d].load]
  <2>1. d \notin loads[l].waiters /\ caller'[d] = caller[d]
    BY <1>3, <1>7
  <2>2. Pending(d)
    BY <1>7, <2>1 DEF Pending
  <2>3. caller[d].load \in 1..Len(loads) /\ d \in loads[caller[d].load].waiters
    BY <2>2 DEF CatalogInv, WaitersWait
  <2>4. QED BY <1>2, <2>1, <2>2, <2>3
<1>8. WaitersWait'
  BY <1>2, <1>7 DEF CatalogInv, WaitersWait, Pending
<1>9. WaitersKnown'
  <2> SUFFICES ASSUME NEW k \in 1..Len(loads'), NEW d \in loads'[k].waiters
               PROVE  caller'[d].pc = "waiting" /\ caller'[d].load = k
    BY DEF WaitersKnown, Pending
  <2>1. k # l /\ k \in 1..Len(loads) /\ d \in loads[k].waiters /\ d \in Callers
    BY <1>1, <1>2
  <2>2. caller[d].pc = "waiting" /\ caller[d].load = k
    BY <2>1 DEF CatalogInv, WaitersKnown, Pending
  <2>3. d \notin loads[l].waiters
    BY <2>1, <2>2 DEF CatalogInv, WaitersKnown
  <2>4. QED BY <1>3, <2>1, <2>2, <2>3
<1>10. ASSUME NEW d \in Callers PROVE Served(d)'
  <2>1. CASE d \in loads[l].waiters
    <3>1. Pending(d) /\ caller[d].load = l /\ caller[d].joined \in {"loading", "aborted"}
      BY <2>1 DEF CatalogInv, WaitersKnown, WaitersWait
    <3>2. Served(d)
      BY DEF CatalogInv
    <3>3. caller'[d].pc = "rejected" => end = "failed"
      BY <1>3, <2>1
    <3>4. ~Pending(d)'
      BY <1>3, <2>1 DEF Pending
    <3>5. QED BY <1>2, <1>3, <2>1, <3>1, <3>2, <3>3, <3>4 DEF Served
  <2>2. CASE d \notin loads[l].waiters
    <3>1. caller'[d] = caller[d] /\ Served(d)
      BY <1>3, <2>2 DEF CatalogInv
    <3>2. Pending(d)' => loads'[caller[d].load] = loads[caller[d].load]
      BY <1>7 DEF Pending
    <3>3. caller[d].load \in 1..Len(loads) /\ loads[caller[d].load].pc = "failed" =>
              loads'[caller[d].load] = loads[caller[d].load]
      BY <1>1, <1>2
    <3>4. QED BY <1>2, <3>1, <3>2, <3>3 DEF Served, Pending
  <2>3. QED BY <2>1, <2>2
<1>11. QED BY <1>6, <1>8, <1>9, <1>10 DEF CatalogInv

-----------------------------------------------------------------------------

LEMMA CatalogInvInit == CatalogInit => CatalogInv
BY DEF CatalogInit, CatalogInv, CatalogTypeOK, SelectedServes, WaitersWait, WaitersKnown, Served,
       Pending, NoCall, Call

LEMMA CatalogInvNext == CatalogInv /\ [CatalogNext]_catalogVars => CatalogInv'
<1> SUFFICES ASSUME CatalogInv, [CatalogNext]_catalogVars PROVE CatalogInv'
  OBVIOUS
<1>1. ASSUME NEW c \in Callers, NEW signal \in {"none", "live"}, JoinLoad(c, signal)
      PROVE  CatalogInv'
  BY <1>1, JoinKeeps
<1>2. ASSUME NEW c \in Callers, NEW signal \in {"none", "live"}, StartLoad(c, signal)
      PROVE  CatalogInv'
  BY <1>2, StartKeeps
<1>3. ASSUME NEW c \in Callers, CallAborted(c) PROVE CatalogInv'
  BY <1>3, CallAbortedKeeps
<1>4. ASSUME NEW c \in Callers, GiveUp(c) PROVE CatalogInv'
  BY <1>4, GiveUpKeeps
<1>5. ASSUME NEW l \in 1..Len(loads), NEW end \in {"loaded", "failed"}, LoadEnds(l, end)
      PROVE  CatalogInv'
  BY <1>5, EndsKeeps
<1>6. CASE UNCHANGED catalogVars
  BY <1>6 DEF catalogVars, CatalogInv, CatalogTypeOK, SelectedServes, WaitersWait, WaitersKnown,
              Served, Pending
<1>7. QED BY <1>1, <1>2, <1>3, <1>4, <1>5, <1>6 DEF CatalogNext

\* However callers join, give up and come back, and however loads end, nobody whose own
\* signal is live is turned away because others gave up.
THEOREM CatalogServesWaitersHolds == CatalogSpec => []CatalogServesWaiters
<1>1. CatalogInv => CatalogServesWaiters
  BY DEF CatalogInv, Served, CatalogServesWaiters
<1>2. QED BY CatalogInvInit, CatalogInvNext, <1>1, PTL DEF CatalogSpec

-----------------------------------------------------------------------------
(* A candidate's artifacts. *)

ArtifactsInv ==
    /\ pack \in Packs
    /\ lens \in Seq({lens[i] : i \in DOMAIN lens}) /\ Len(lens) <= Len(LensCards)
    /\ \A i \in 1..Len(lens) : IsReplayable(LensCards[i], lens[i])
    /\ saved \in {"none", "completed"}

LEMMA OwnRange == ASSUME NEW S, NEW s \in Seq(S) PROVE s \in Seq({s[i] : i \in DOMAIN s})
<1> DEFINE T == {s[i] : i \in DOMAIN s}
<1>1. /\ Len(s) \in Nat /\ DOMAIN s = 1..Len(s) /\ s = [i \in 1..Len(s) |-> s[i]]
      /\ \A i \in DOMAIN s : s[i] \in T
  OBVIOUS
<1> HIDE DEF T
<1>2. QED BY <1>1

LEMMA CardsAreAList ==
    /\ Len(LensCards) \in Nat /\ DOMAIN LensCards = 1..Len(LensCards)
BY CardsAssumption

LEMMA LensIsAList ==
    ASSUME ArtifactsInv
    PROVE  /\ Len(lens) \in Nat /\ DOMAIN lens = 1..Len(lens)
           /\ 1..Len(lens) \subseteq 1..Len(LensCards)
<1>1. Len(lens) \in Nat /\ DOMAIN lens = 1..Len(lens) /\ Len(lens) <= Len(LensCards)
  BY DEF ArtifactsInv
<1>2. QED BY <1>1, CardsAreAList

\* Judgments are of different cards.
LEMMA CardsDiffer ==
    ASSUME ArtifactsInv, NEW i \in 1..Len(lens), NEW j \in 1..Len(lens), lens[i].card = lens[j].card
    PROVE  i = j
<1>1. lens[i].card = LensCards[i].id /\ lens[j].card = LensCards[j].id
  BY DEF ArtifactsInv, IsReplayable
<1>2. i \in DOMAIN LensCards /\ j \in DOMAIN LensCards
  BY LensIsAList, CardsAreAList
<1>3. QED BY <1>1, <1>2, CardsAssumption

LEMMA EveryJudgment ==
    ASSUME ArtifactsInv, NEW j \in Judgments
    PROVE  \E i \in 1..Len(lens) : j = lens[i] /\ IsReplayable(LensCards[i], j)
<1>1. PICK i \in DOMAIN lens : j = lens[i]
  BY DEF Judgments, ToSet
<1>2. i \in 1..Len(lens)
  BY LensIsAList
<1>3. QED BY <1>1, <1>2 DEF ArtifactsInv

LEMMA JudgmentsAreCounted ==
    ASSUME ArtifactsInv
    PROVE  Cardinality({j.card : j \in Judgments}) = Len(lens)
<1> DEFINE S == 1..Len(lens)
           T == {j.card : j \in Judgments}
           f == [i \in S |-> lens[i].card]
<1>1. T = {lens[i].card : i \in S}
  BY LensIsAList DEF Judgments, ToSet
<1>2. f \in [S -> T] /\ \A i, j \in S : f[i] = f[j] => i = j
  BY <1>1, CardsDiffer
<1>3. \A t \in T : \E i \in S : f[i] = t
  BY <1>1
<1>4. f \in Bijection(S, T)
  BY <1>2, <1>3 DEF Bijection, Injection, Surjection, IsInjective
<1>5. ExistsBijection(S, T)
  BY <1>4 DEF ExistsBijection
<1>6. Len(lens) \in Int /\ 1 \in Int
  BY LensIsAList
<1> HIDE DEF T
<1>7. IsFiniteSet(1..Len(lens)) /\ Cardinality(1..Len(lens)) = Len(lens)
  BY <1>6, FS_Interval, LensIsAList
<1> HIDE DEF S
<1>8. Cardinality(T) = Cardinality(S)
  BY <1>5, <1>7, FS_Bijection DEF S
<1>9. QED BY <1>7, <1>8 DEF S, T

-----------------------------------------------------------------------------
(* What is composed resolves. *)

LEMMA SectionsAre ==
    /\ "arr" \in pack.facts => "venture" \in Calculations
    /\ "ask" \in pack.facts => "ownership" \in Calculations
<1> DEFINE sections == [market_comps |-> pack.benchmark,
                        venture |-> "arr" \in pack.facts,
                        ownership |-> "ask" \in pack.facts,
                        returns |-> {"arr", "ask"} \subseteq pack.facts]
<1>1. Calculations = {s \in DOMAIN sections : sections[s]}
  BY DEF Calculations
<1>2. "venture" \in DOMAIN sections /\ "ownership" \in DOMAIN sections
  OBVIOUS
<1>3. sections["venture"] = ("arr" \in pack.facts) /\ sections["ownership"] = ("ask" \in pack.facts)
  OBVIOUS
<1> HIDE DEF sections
<1>4. QED BY <1>1, <1>2, <1>3

LEMMA InputKinds ==
    ASSUME NEW id
    PROVE  /\ InputIsSaved(<<"fact", id>>) <=> id \in pack.facts
           /\ InputIsSaved(<<"assumption", id>>) <=> id \in Assumptions
           /\ InputIsSaved(<<"policy", id>>) <=> id \in Version.policies \cup PolicyInputs
           /\ InputIsSaved(<<"benchmark", id>>) <=> id \in Assumptions /\ Version.benchmark # {}
<1>1. InputIsSaved(<<"fact", id>>) <=> id \in pack.facts
  BY DEF InputIsSaved
<1>2. InputIsSaved(<<"assumption", id>>) <=> id \in Assumptions
  BY DEF InputIsSaved
<1>3. InputIsSaved(<<"policy", id>>) <=> id \in Version.policies \cup PolicyInputs
  BY DEF InputIsSaved
<1>4. InputIsSaved(<<"benchmark", id>>) <=> id \in Assumptions /\ Version.benchmark # {}
  BY DEF InputIsSaved
<1>5. QED BY <1>1, <1>2, <1>3, <1>4

LEMMA InputsResolve ==
    ASSUME NEW c \in Calculations, NEW input \in Inputs(c)
    PROVE  InputIsSaved(input)
<1>1. CASE c = "market_comps"
  <2>1. pack.benchmark
    BY <1>1 DEF Calculations
  <2>2. \/ input = <<"benchmark", "benchmark">>
        \/ input = <<"assumption", "multiple">>
        \/ input = <<"fact", "ask">> /\ "ask" \in pack.facts
    BY <1>1 DEF Inputs
  <2>3. /\ "multiple" \in Assumptions /\ "benchmark" \in Assumptions
        /\ Version.benchmark = {"benchmark_pack"}
    BY <2>1 DEF Assumptions, Version
  <2>4. QED BY <2>2, <2>3, InputKinds
<1>2. CASE c = "venture"
  <2>1. "arr" \in pack.facts
    BY <1>2 DEF Calculations
  <2>2. \/ input = <<"fact", "arr">>
        \/ input = <<"assumption", "multiple">>
        \/ input = <<"policy", "returnTargets">>
    BY <1>2 DEF Inputs
  <2>3. "multiple" \in Assumptions /\ "returnTargets" \in PolicyInputs
    BY DEF Assumptions, PolicyInputs
  <2>4. QED BY <2>1, <2>2, <2>3, InputKinds
<1>3. CASE c \in {"ownership", "returns"}
  <2>1. \/ input = <<"policy", "initialCheckMax">>
        \/ input = <<"fact", "ask">> /\ "ask" \in pack.facts
    BY <1>3 DEF Inputs
  <2>2. "initialCheckMax" \in PolicyInputs
    BY DEF PolicyInputs
  <2>3. QED BY <2>1, <2>2, InputKinds
<1>4. c \in {"market_comps", "venture", "ownership", "returns"}
  BY DEF Calculations
<1>5. QED BY <1>1, <1>2, <1>3, <1>4

LEMMA CalculationEdgesResolve ==
    ASSUME NEW e \in CalculationEdges
    PROVE  e.type = "calculation" /\ {e.claim, e.id} \subseteq Calculations
<1>1. "returns" \in Calculations /\ \E c \in {"venture", "ownership"} : e = Edge("returns", "calculation", c)
  BY DEF CalculationEdges
<1>2. "arr" \in pack.facts /\ "ask" \in pack.facts
  BY <1>1 DEF Calculations
<1>3. {"venture", "ownership"} \subseteq Calculations
  BY <1>2, SectionsAre
<1>4. QED BY <1>1, <1>3 DEF Edge

\* An edge resolves for the reader, and so for the database.
LEMMA ReaderIsStricter ==
    ASSUME NEW e, EdgeResolves(e)
    PROVE  EdgeIsSaved(e)
<1>1. CASE e.type = "benchmark_ref"
  BY <1>1 DEF EdgeResolves, EdgeIsSaved, Version
<1>2. CASE e.type # "benchmark_ref"
  BY <1>2 DEF EdgeResolves
<1>3. QED BY <1>1, <1>2

LEMMA JudgmentEdgesResolve ==
    ASSUME ArtifactsInv, NEW j \in Judgments, NEW e \in j.edges
    PROVE  EdgeResolves(e)
<1>1. PICK i \in 1..Len(lens) : j = lens[i] /\ IsReplayable(LensCards[i], j)
  BY EveryJudgment
<1> DEFINE card == LensCards[i]
<1>2. /\ j.card = card.id
      /\ j.support \cup j.counter \subseteq Allowed(card)
      /\ \/ \E id \in j.support \cup j.counter : e = Edge(card.id, TypeOfItem(id), id)
         \/ e = Edge(card.id, "framework_ref", card.id)
  BY <1>1 DEF IsReplayable, IsPartition
<1>3. CASE e = Edge(card.id, "framework_ref", card.id)
  <2>1. e.type = "framework_ref" /\ e.id = card.id
    BY <1>3 DEF Edge
  <2>2. e.id \in {k.card : k \in Judgments}
    BY <1>2, <2>1
  <2>3. QED BY <2>1, <2>2 DEF EdgeResolves, EdgeIsSaved
<1>4. ASSUME NEW id \in j.support \cup j.counter, e = Edge(card.id, TypeOfItem(id), id)
      PROVE  EdgeResolves(e)
  <2>1. e.type = TypeOfItem(id) /\ e.id = id
    BY <1>4 DEF Edge
  <2>2. id \in pack.facts \/ id \in Assumptions \/ id \in Calculations
    BY <1>2 DEF Allowed
  <2>3. CASE id \in pack.facts
    <3>1. e.type = "fact"
      BY <2>1, <2>3 DEF TypeOfItem
    <3>2. QED BY <2>1, <2>3, <3>1 DEF EdgeResolves, EdgeIsSaved
  <2>4. CASE id \notin pack.facts /\ id \in Assumptions
    <3>1. e.type = "assumption"
      BY <2>1, <2>4 DEF TypeOfItem
    <3>2. QED BY <2>1, <2>4, <3>1 DEF EdgeResolves, EdgeIsSaved
  <2>5. CASE id \notin pack.facts /\ id \notin Assumptions
    <3>1. e.type = "calculation"
      BY <2>1, <2>5 DEF TypeOfItem
    <3>2. QED BY <2>1, <2>2, <2>5, <3>1 DEF EdgeResolves, EdgeIsSaved
  <2>6. QED BY <2>3, <2>4, <2>5
<1>5. QED BY <1>2, <1>3, <1>4

LEMMA BlockingIsInPack == ASSUME ArtifactsInv PROVE Blocking \subseteq pack.facts
BY ConflictsInPack DEF ArtifactsInv, Blocking

LEMMA DecisionEdgesResolve ==
    ASSUME ArtifactsInv, NEW e \in DecisionEdges
    PROVE  EdgeResolves(e)
<1>1. ASSUME NEW j \in Formal, e = Edge("decision", "framework_judgment", j.card)
      PROVE  EdgeResolves(e)
  <2>1. e.type = "framework_judgment" /\ e.id = j.card /\ j \in Judgments
    BY <1>1 DEF Edge, Formal
  <2>2. QED BY <2>1 DEF EdgeResolves, EdgeIsSaved
<1>2. ASSUME NEW c \in Calculations, e = Edge("decision", "calculation", c)
      PROVE  EdgeResolves(e)
  <2>1. e.type = "calculation" /\ e.id = c
    BY <1>2 DEF Edge
  <2>2. QED BY <2>1 DEF EdgeResolves, EdgeIsSaved
<1>3. ASSUME NEW f \in Blocking, e = Edge("decision", "fact", f)
      PROVE  EdgeResolves(e)
  <2>1. e.type = "fact" /\ e.id = f /\ f \in pack.facts
    BY <1>3, BlockingIsInPack DEF Edge
  <2>2. QED BY <2>1 DEF EdgeResolves, EdgeIsSaved
<1>4. ASSUME NEW p \in {"fund_policy", "decision_policy"}, e = Edge("decision", "policy_ref", p)
      PROVE  EdgeResolves(e)
  <2>1. e.type = "policy_ref" /\ e.id = p
    BY <1>4 DEF Edge
  <2>2. QED BY <2>1 DEF EdgeResolves, EdgeIsSaved, Version
<1>5. ASSUME pack.benchmark, e = Edge("decision", "benchmark_ref", "benchmark_pack")
      PROVE  EdgeResolves(e)
  <2>1. e.type = "benchmark_ref" /\ e.id = "benchmark_pack"
    BY <1>5 DEF Edge
  <2>2. QED BY <1>5, <2>1 DEF EdgeResolves, Version
<1>6. QED BY <1>1, <1>2, <1>3, <1>4, <1>5 DEF DecisionEdges

LEMMA EdgesResolve ==
    ASSUME ArtifactsInv, NEW e \in ClaimEdges
    PROVE  EdgeResolves(e)
<1>1. CASE e \in CalculationEdges
  <2>1. e.type = "calculation" /\ e.id \in Calculations
    BY <1>1, CalculationEdgesResolve
  <2>2. QED BY <2>1 DEF EdgeResolves, EdgeIsSaved
<1>2. QED BY <1>1, DecisionEdgesResolve, JudgmentEdgesResolve DEF ClaimEdges

\* The database saves whatever was composed ...
LEMMA ComposedIsSavable == ASSUME ArtifactsInv PROVE IsSavable
BY InputsResolve, CalculationEdgesResolve, EdgesResolve, ReaderIsStricter DEF IsSavable

\* ... and the reader reads it.
LEMMA ComposedIsReadable == ASSUME ArtifactsInv PROVE IsReadable
<1>1. ASSUME NEW d \in Disagreements PROVE ToSet(d) \subseteq Judgments /\ d[1].card # d[2].card
  <2>1. d \in Judgments \X Judgments /\ AreOpposed(d[1], d[2])
    BY DEF Disagreements
  <2>2. ToSet(d) \subseteq Judgments /\ d[1] \in Judgments /\ d[2] \in Judgments
    BY <2>1 DEF ToSet
  <2>3. d[1].conclusion # d[2].conclusion
    BY <2>1 DEF AreOpposed
  <2>4. PICK i \in 1..Len(lens) : d[1] = lens[i]
    BY <2>2, EveryJudgment
  <2>5. PICK k \in 1..Len(lens) : d[2] = lens[k]
    BY <2>2, EveryJudgment
  <2>6. i # k
    BY <2>3, <2>4, <2>5
  <2>7. d[1].card # d[2].card
    BY <2>4, <2>5, <2>6, CardsDiffer
  <2>8. QED BY <2>2, <2>7
<1>2. ASSUME NEW j \in Judgments
      PROVE  j.support \cup j.counter \cup j.unused \subseteq (pack.facts \cup Assumptions) \cup Calculations
  <2>1. PICK i \in 1..Len(lens) : IsReplayable(LensCards[i], j)
    BY EveryJudgment
  <2>2. QED BY <2>1 DEF IsReplayable, IsPartition, Allowed
<1>3. QED
  BY <1>1, <1>2, JudgmentsAreCounted, BlockingIsInPack, EdgesResolve, InputsResolve DEF IsReadable

-----------------------------------------------------------------------------
(* Steps of the artifacts. *)

LEMMA AllowedIsOfPack == ASSUME UNCHANGED pack, NEW card PROVE Allowed(card)' = Allowed(card)
BY DEF Allowed, Assumptions, Calculations

LEMMA ReplayableStays ==
    ASSUME UNCHANGED pack, NEW card, NEW judgment, IsReplayable(card, judgment)
    PROVE  IsReplayable(card, judgment)'
<1>1. \A id : TypeOfItem(id)' = TypeOfItem(id)
  BY DEF TypeOfItem, Assumptions
<1>2. Allowed(card)' = Allowed(card)
  BY AllowedIsOfPack
<1>3. QED BY <1>1, <1>2 DEF IsReplayable, IsPartition, AreDisjoint

\* A grounded answer can be replayed, and so can an abstention.
LEMMA GroundedIsReplayable ==
    ASSUME NEW card, NEW output, IsGroundedIn(card, output)
    PROVE  IsReplayable(card, Judgment(card, output))
BY DEF IsGroundedIn, IsReplayable, Judgment, IsPartition, AreDisjoint, IsBounded

LEMMA AbstentionIsReplayable ==
    ASSUME NEW card, NEW applicability \in {"not_applicable", "unavailable"}
    PROVE  IsReplayable(card, Abstention(card, applicability))
<1> DEFINE output == [applicability |-> applicability, conclusion |-> "abstain",
                      support |-> {}, counter |-> {}, unused |-> Allowed(card)]
<1>1. IsPartition(card, output)
  BY DEF IsPartition, AreDisjoint
<1>2. QED BY <1>1 DEF IsReplayable, Abstention, Judgment, IsPartition, AreDisjoint

LEMMA AddKeeps ==
    ASSUME ArtifactsInv, MayJudge, NEW judgment, IsReplayable(NextCard, judgment), AddJudgment(judgment)
    PROVE  ArtifactsInv'
<1>1. lens' = Append(lens, judgment) /\ UNCHANGED <<pack, saved>> /\ Len(lens) < Len(LensCards)
  BY DEF AddJudgment, MayJudge
<1> DEFINE n == Len(lens)
<1>2. n \in Nat /\ Len(LensCards) \in Nat
  BY LensIsAList, CardsAreAList
<1>3. lens \in Seq({lens[i] : i \in DOMAIN lens})
  BY DEF ArtifactsInv
<1>4. Len(lens') = n + 1 /\ DOMAIN lens' = 1..(n + 1) /\ lens'[n + 1] = judgment
  BY <1>1, <1>3
<1>5. \A i \in 1..n : lens'[i] = lens[i]
  BY <1>1, <1>3
<1>6. lens' \in Seq({lens'[i] : i \in DOMAIN lens'})
  <2>1. lens' \in Seq({lens[i] : i \in DOMAIN lens} \cup {judgment})
    BY <1>1, <1>3
  <2>2. QED BY <2>1, OwnRange
<1>7. ASSUME NEW i \in 1..Len(lens') PROVE IsReplayable(LensCards[i], lens'[i])
  <2>1. CASE i = n + 1
    BY <1>4, <2>1 DEF NextCard
  <2>2. CASE i # n + 1
    <3>1. i \in 1..n
      BY <1>2, <1>4, <2>2
    <3>2. QED BY <1>5, <3>1 DEF ArtifactsInv
  <2>3. QED BY <2>1, <2>2
<1>8. ASSUME NEW i \in 1..Len(lens'), NEW j, j = lens'[i] PROVE IsReplayable(LensCards[i], j)'
  BY <1>1, <1>7, <1>8, ReplayableStays
<1>9. pack' \in Packs /\ saved' \in {"none", "completed"}
  BY <1>1 DEF ArtifactsInv
<1>10. Len(lens') <= Len(LensCards)
  BY <1>1, <1>2, <1>4
<1>11. (\A i \in 1..Len(lens) : IsReplayable(LensCards[i], lens[i]))'
  BY <1>8
<1>12. QED BY <1>6, <1>9, <1>10, <1>11 DEF ArtifactsInv

LEMMA OnlyPackMatters ==
    ASSUME ArtifactsInv, UNCHANGED <<pack, lens>>, saved' \in {"none", "completed"}
    PROVE  ArtifactsInv'
<1>1. \A i \in 1..Len(lens) : IsReplayable(LensCards[i], lens[i])'
  BY ReplayableStays DEF ArtifactsInv
<1>2. QED BY <1>1 DEF ArtifactsInv

LEMMA ArtifactsInvNext == ArtifactsInv /\ [ArtifactsNext]_artifactVars => ArtifactsInv'
<1> SUFFICES ASSUME ArtifactsInv, [ArtifactsNext]_artifactVars PROVE ArtifactsInv'
  OBVIOUS
<1>1. CASE SkipCard
  <2> DEFINE a == IF NextCard.kind = "advisory" THEN "not_applicable" ELSE "unavailable"
  <2>1. MayJudge /\ AddJudgment(Abstention(NextCard, a)) /\ a \in {"not_applicable", "unavailable"}
    BY <1>1 DEF SkipCard
  <2> HIDE DEF a
  <2>2. IsReplayable(NextCard, Abstention(NextCard, a))
    BY <2>1, AbstentionIsReplayable
  <2>3. QED BY <2>1, <2>2, AddKeeps
<1>2. CASE AnswerLens
  <2>1. PICK output \in Outputs :
            IF IsGroundedIn(NextCard, output) THEN AddJudgment(Judgment(NextCard, output))
            ELSE IF tries + 1 = MaxAnswers(NextCard) THEN AddJudgment(Abstention(NextCard, "unavailable"))
            ELSE tries' = tries + 1 /\ UNCHANGED <<pack, lens, saved, edited>>
    BY <1>2 DEF AnswerLens
  <2>2. MayJudge
    BY <1>2 DEF AnswerLens
  <2>3. CASE AddJudgment(Judgment(NextCard, output)) /\ IsGroundedIn(NextCard, output)
    BY <2>2, <2>3, GroundedIsReplayable, AddKeeps
  <2>4. CASE AddJudgment(Abstention(NextCard, "unavailable"))
    BY <2>2, <2>4, AbstentionIsReplayable, AddKeeps
  <2>5. CASE UNCHANGED <<pack, lens, saved>>
    BY <2>5, OnlyPackMatters DEF ArtifactsInv
  <2>6. QED BY <2>1, <2>3, <2>4, <2>5
<1>3. CASE Finalize
  BY <1>3, ComposedIsSavable, OnlyPackMatters DEF Finalize
<1>4. CASE (\E c \in Channels : ReplaceDraft(c)) \/ UNCHANGED artifactVars
  <2>1. UNCHANGED <<pack, lens, saved>>
    BY <1>4 DEF ReplaceDraft, artifactVars
  <2>2. QED BY <2>1, OnlyPackMatters DEF ArtifactsInv
<1>5. QED BY <1>1, <1>2, <1>3, <1>4 DEF ArtifactsNext

LEMMA ArtifactsInvInit == ArtifactsInit => ArtifactsInv
<1> SUFFICES ASSUME ArtifactsInit PROVE ArtifactsInv
  OBVIOUS
<1>1. pack \in Packs /\ lens = <<>> /\ saved = "none"
  BY DEF ArtifactsInit
<1>2. Len(lens) = 0 /\ lens \in Seq({lens[i] : i \in DOMAIN lens})
  BY <1>1
<1>3. QED BY <1>1, <1>2, CardsAreAList DEF ArtifactsInv

\* Whatever the lenses answer of whatever pack: every judgment can be replayed, the
\* database never refuses what is composed of them, and the reader, with its stricter
\* checks, reads what was saved.
THEOREM ArtifactsReadableHolds == ArtifactsSpec => []ArtifactsReadable
<1>1. ArtifactsInv => ArtifactsReadable
  <2> SUFFICES ASSUME ArtifactsInv PROVE ArtifactsReadable
    OBVIOUS
  <2>1. \A i \in DOMAIN lens : IsReplayable(LensCards[i], lens[i])
    BY LensIsAList DEF ArtifactsInv
  <2>2. QED BY <2>1, ComposedIsReadable DEF ArtifactsReadable, ArtifactsInv, LoadFails
<1>2. QED BY ArtifactsInvInit, ArtifactsInvNext, <1>1, PTL DEF ArtifactsSpec

-----------------------------------------------------------------------------
(* The decision. *)

LEMMA LeastExists ==
    ASSUME NEW T \in SUBSET Nat, T # {}
    PROVE  \E k \in T : \A l \in T : k <= l
<1> DEFINE R == OpToRel(<, Nat)
<1>1. IsWellFoundedOn(R, Nat)
  BY NatLessThanWellFounded
<1>2. \A x, y \in Nat : <<x, y>> \in R <=> x < y
  BY DEF OpToRel
<1> HIDE DEF R
<1>3. PICK x \in T : \A y \in T : <<y, x>> \notin R
  BY <1>1, WFMin
<1>4. ASSUME NEW y \in T PROVE x <= y
  <2>1. x \in Nat /\ y \in Nat
    OBVIOUS
  <2>2. ~(y < x)
    BY <1>2, <1>3, <2>1
  <2>3. QED BY <2>1, <2>2
<1>5. QED BY <1>4

\* Of facts with bounded ids one is the first.
LEMMA FirstFactExists ==
    ASSUME NEW A, A # {}, \A f \in A : f.id \in -MaxEdits..MaxEdits
    PROVE  \E f \in A : \A g \in A : f.id <= g.id
<1> DEFINE T == {f.id + MaxEdits : f \in A}
<1>1. MaxEdits \in Nat
  BY DecisionAssumption
<1>2. T \in SUBSET Nat /\ T # {}
  BY <1>1
<1>3. PICK k \in T : \A l \in T : k <= l
  BY <1>2, LeastExists
<1>4. PICK f \in A : k = f.id + MaxEdits
  BY <1>3
<1>5. ASSUME NEW g \in A PROVE f.id <= g.id
  <2>1. k <= g.id + MaxEdits
    BY <1>3
  <2>2. QED BY <1>1, <1>4, <2>1
<1>6. QED BY <1>5

\* The first accepted fact is one of them.
LEMMA FirstIsAccepted ==
    ASSUME DecisionTypeOK, NEW field \in Fields, Accepted(field) # {}
    PROVE  \E f \in Accepted(field) : AcceptedFact(field) = f.value
<1> DEFINE first == CHOOSE f \in Accepted(field) : \A g \in Accepted(field) : f.id <= g.id
<1>1. \A f \in Accepted(field) : f.id \in -MaxEdits..MaxEdits
  BY DEF DecisionTypeOK, FactsOf, Accepted
<1>2. first \in Accepted(field)
  BY <1>1, FirstFactExists
<1>3. AcceptedFact(field) = first.value
  BY DEF AcceptedFact
<1> HIDE DEF first
<1>4. QED BY <1>2, <1>3

\* What sources say of a field no conflict is open on is one value.
LEMMA Undisputed ==
    ASSUME DecisionTypeOK, NEW field \in Fields, ~OpenConflict(field), NEW f \in facts[field], NEW g \in facts[field]
    PROVE  f.value = g.value
<1>1. f.value \in Values[field] /\ g.value \in Values[field]
  BY DEF DecisionTypeOK, FactsOf
<1>2. ~Material(field, f.value, g.value) /\ ~Material(field, g.value, f.value)
  BY DEF OpenConflict
<1>3. CASE field \notin Numeric
  BY <1>2, <1>3 DEF Material
<1>4. CASE field = "arr"
  <2>1. f.value \in {40, 20, 2} /\ g.value \in {40, 20, 2}
    BY <1>1, <1>4 DEF Values
  <2>2. ~(100 * (f.value - g.value) > 5 * f.value) /\ ~(100 * (g.value - f.value) > 5 * g.value)
    BY <1>2, <1>4 DEF Material, Numeric, Tolerance
  <2>3. QED BY <2>1, <2>2
<1>5. CASE field = "reported_valuation"
  <2>1. f.value \in {120, 130, 160, 50} /\ g.value \in {120, 130, 160, 50}
    BY <1>1, <1>5 DEF Values
  <2>2. ~(100 * (f.value - g.value) > 1 * f.value) /\ ~(100 * (g.value - f.value) > 1 * g.value)
    BY <1>2, <1>5 DEF Material, Numeric, Tolerance
  <2>3. QED BY <2>1, <2>2
<1>6. CASE field = "exit_multiple"
  BY <1>1, <1>6 DEF Values
<1>7. QED BY <1>3, <1>4, <1>5, <1>6 DEF Numeric

Stated(field) == {f.value : f \in facts[field]}

LEMMA StatesOnce ==
    ASSUME DecisionTypeOK, NEW field \in Fields, ~OpenConflict(field), NEW f \in facts[field]
    PROVE  Stated(field) = {f.value} /\ Cardinality(Stated(field)) = 1
<1>1. \A v \in Stated(field) : v = f.value
  BY Undisputed DEF Stated
<1>2. f.value \in Stated(field)
  BY DEF Stated
<1>3. Stated(field) = {f.value}
  BY <1>1, <1>2
<1>4. QED BY <1>3, FS_Singleton

-----------------------------------------------------------------------------
(* What the label "Invest Candidate" rests on. *)

LEMMA FourIsTheTop == \A n \in {1, 2, 3, 4} : n <= 4
OBVIOUS

LEMMA AmountsAreIntegers == \A x \in {120, 130, 160, 50} \cup {40, 20, 2} : x \in Int
OBVIOUS

LEMMA TwiceFive == ASSUME NEW x \in Int, NEW m, m = 5, NEW c, c = 16 PROVE 2 * m * (x + c) = 10 * (x + 16)
OBVIOUS

LEMMA EarnedByMatrix ==
    ASSUME DecisionTypeOK, result.label = "Invest Candidate"
    PROVE  /\ CompanyQuality = "pass" /\ PriceAttractiveness = "pass" /\ FundFit = "pass"
           /\ CriticalComplete /\ ~HardVeto /\ ~MandateMismatch /\ PolicySelected
<1>1. result = Analysis
  BY DEF DecisionTypeOK
<1>2. PolicySelected /\ Capped = "Invest Candidate"
  BY <1>1 DEF Analysis
<1>3. Matrix \in {"Pass", "Watch", "Advance", "Invest Candidate"}
  BY DEF Matrix
<1>4. Matrix = "Invest Candidate"
  <2>1. CASE Ceiling = "Advance"
    <3>1. Rank["Advance"] = 3 /\ Rank["Invest Candidate"] = 4
      BY DEF Rank
    <3>2. QED BY <1>2, <2>1, <3>1 DEF Capped
  <2>2. CASE Ceiling = "Invest Candidate"
    <3>1. Rank["Pass"] = 1 /\ Rank["Watch"] = 2 /\ Rank["Advance"] = 3 /\ Rank["Invest Candidate"] = 4
      BY DEF Rank
    <3>2. Rank[Matrix] <= Rank["Invest Candidate"]
      <4>1. Rank[Matrix] \in {1, 2, 3, 4}
        BY <1>3, <3>1
      <4>2. Rank[Matrix] <= 4
        BY <4>1, FourIsTheTop
      <4>3. QED BY <3>1, <4>2
    <3>3. QED BY <1>2, <2>2, <3>2 DEF Capped
  <2>3. QED BY <2>1, <2>2 DEF Ceiling
<1>5. QED BY <1>2, <1>4 DEF Matrix

LEMMA FrameworksAgree ==
    ASSUME DecisionTypeOK, CompanyQuality = "pass"
    PROVE  /\ \A card \in Cards : judgments[card] \in {"supportive", "mixed"}
           /\ judgments["pmf"] = "supportive"
           /\ \E card \in {"market", "founder"} : judgments[card] = "supportive"
           /\ ~specialist
<1>1. /\ ~specialist /\ \A card \in Cards : judgments[card] # "abstain" /\ judgments[card] # "negative"
      /\ "pmf" \in Supportive /\ Cardinality(Supportive) >= 2
  BY DEF CompanyQuality
<1>2. \A card \in Cards : judgments[card] \in {"supportive", "mixed"}
  BY <1>1 DEF DecisionTypeOK, Conclusions
<1>3. Supportive # {"pmf"}
  <2>1. Cardinality({"pmf"}) = 1
    BY FS_Singleton
  <2>2. QED BY <1>1, <2>1
<1>4. PICK card \in Supportive : card # "pmf"
  BY <1>1, <1>3
<1>5. QED BY <1>1, <1>2, <1>4 DEF Supportive, Cards

\* The one value stated of a field that has an accepted fact is the one the analysis takes.
LEMMA TakesTheStated ==
    ASSUME DecisionTypeOK, CriticalComplete, NEW field \in Critical, Accepted(field) # {}
    PROVE  Stated(field) = {AcceptedFact(field)}
<1>1. field \in Fields /\ ~OpenConflict(field)
  BY DecisionAssumption DEF CriticalComplete
<1>2. PICK f \in Accepted(field) : AcceptedFact(field) = f.value
  BY <1>1, FirstIsAccepted
<1>3. f \in facts[field]
  BY DEF Accepted
<1>4. QED BY <1>1, <1>2, <1>3, StatesOnce

LEMMA PriceIsStated ==
    ASSUME DecisionTypeOK, CriticalComplete, Ownership
    PROVE  /\ (CHOOSE v \in Stated("reported_valuation") : TRUE) = CurrentAsk
           /\ CurrentAsk \in {120, 130, 160, 50}
           /\ \E f \in facts["reported_valuation_basis"] : f.accepted /\ f.value = "pre_money"
<1>1. {"reported_valuation", "reported_valuation_basis", "arr"} \subseteq Fields
  BY DEF Fields, Values
<1>2. Stated("reported_valuation") = {CurrentAsk}
  BY TakesTheStated, DecisionAssumption DEF Ownership, CurrentAsk
<1>3. CurrentAsk \in Values["reported_valuation"]
  <2>1. PICK f \in Accepted("reported_valuation") : CurrentAsk = f.value
    BY <1>1, FirstIsAccepted DEF Ownership, CurrentAsk
  <2>2. f \in FactsOf("reported_valuation")
    BY <1>1 DEF Accepted, DecisionTypeOK
  <2>3. QED BY <2>1, <2>2 DEF FactsOf
<1>4. PICK f \in Accepted("reported_valuation_basis") : AcceptedFact("reported_valuation_basis") = f.value
  BY <1>1, FirstIsAccepted DEF Ownership
<1>5. f \in facts["reported_valuation_basis"] /\ f.accepted /\ f.value = "pre_money"
  BY <1>4 DEF Ownership, Accepted
<1>6. Values["reported_valuation"] = {120, 130, 160, 50}
  BY DEF Values
<1>7. QED BY <1>2, <1>3, <1>5, <1>6

\* The revenue and the multiple the venture method multiplies.
LEMMA ExitIsStated ==
    ASSUME DecisionTypeOK, CriticalComplete, Venture, PolicySelected
    PROVE  \E arr \in {40, 20, 2} :
              /\ (CHOOSE v \in Stated("arr") : TRUE) = arr
              /\ (CHOOSE v \in {f.value : f \in Accepted("exit_multiple")} : TRUE) = 40
              /\ MaxPostMoney = (arr * 40) \div 10
<1>1. "arr" \in Fields /\ "exit_multiple" \in Fields /\ "arr" \in Critical
  BY DecisionAssumption DEF Fields, Values
<1>2. ArrPath = Accepted("arr") /\ ArrPath # {} /\ ~OpenConflict("arr")
  BY DEF Venture, ArrPath
<1> DEFINE f == CHOOSE g \in ArrPath : TRUE
<1>3. f \in Accepted("arr")
  BY <1>2
<1> HIDE DEF f
<1>4. f \in facts["arr"] /\ f.value \in {40, 20, 2}
  <2>1. f \in facts["arr"]
    BY <1>3 DEF Accepted
  <2>2. f.value \in Values["arr"]
    BY <1>1, <2>1 DEF DecisionTypeOK, FactsOf
  <2>3. Values["arr"] = {40, 20, 2}
    BY DEF Values
  <2>4. QED BY <2>1, <2>2, <2>3
<1>5. Stated("arr") = {f.value}
  BY <1>1, <1>2, <1>4, StatesOnce
<1>6. \A g \in Accepted("exit_multiple") : g.value = 40
  <2>1. SUFFICES ASSUME NEW g \in Accepted("exit_multiple") PROVE g.value = 40
    OBVIOUS
  <2>2. g.value \in Values["exit_multiple"]
    BY <1>1 DEF Accepted, DecisionTypeOK, FactsOf
  <2>3. Values["exit_multiple"] = {40}
    BY DEF Values
  <2>4. QED BY <2>2, <2>3
<1>7. Accepted("exit_multiple") # {}
  BY DEF Venture
<1>8. {g.value : g \in Accepted("exit_multiple")} = {40}
  BY <1>6, <1>7
<1>9. AcceptedFact("exit_multiple") = 40
  BY <1>1, <1>6, <1>7, FirstIsAccepted
<1>10. Target = 5
  BY DEF Target, PolicySelected, TargetMoic
<1>11. MaxPostMoney = (f.value * 40) \div 10
  BY <1>9, <1>10 DEF MaxPostMoney, f
<1>12. QED BY <1>4, <1>5, <1>8, <1>11

\* A price at or below a tenth, rounded down.
LEMMA WholeShare ==
    ASSUME NEW x \in Int, NEW a \in Int, x + 16 <= (a * 40) \div 10
    PROVE  a * 40 >= 10 * (x + 16)
<1>1. (a * 40) \div 10 = 4 * a
  OBVIOUS
<1>2. QED BY <1>1

\* Of the checks the policy may select, none but the policy's own is within its range.
LEMMA OnlyRecommendedFits ==
    ASSUME NEW y \in {0, 2, 24}, NEW c, c = (IF y = 0 THEN 16 ELSE y), 3 <= c, c <= 16
    PROVE  y = 0
OBVIOUS

LEMMA EarnedWhenLabelled == DecisionTypeOK => InvestCandidateEarned
<1> SUFFICES ASSUME DecisionTypeOK, result.label = "Invest Candidate" PROVE InvestCandidateEarned
  BY DEF InvestCandidateEarned
<1> DEFINE ask == CHOOSE v \in Stated("reported_valuation") : TRUE
           arr == CHOOSE v \in Stated("arr") : TRUE
           multiple == CHOOSE v \in {f.value : f \in Accepted("exit_multiple")} : TRUE
<1>1. /\ CompanyQuality = "pass" /\ PriceAttractiveness = "pass" /\ FundFit = "pass"
      /\ CriticalComplete /\ ~HardVeto /\ ~MandateMismatch /\ PolicySelected
  BY EarnedByMatrix
<1>2. /\ \A field \in Critical : \E f \in facts[field] : f.accepted /\ f.current
      /\ \A field \in Critical : Cardinality(Stated(field)) = 1
  <2>1. ASSUME NEW field \in Critical
        PROVE  (\E f \in facts[field] : f.accepted /\ f.current) /\ Cardinality(Stated(field)) = 1
    <3>1. field \in Fields /\ ~OpenConflict(field) /\ Sound(field) # {}
      BY <1>1, DecisionAssumption DEF CriticalComplete, AcceptedFor
    <3>2. PICK f \in facts[field] : f.accepted /\ f.current
      BY <3>1 DEF Sound, Accepted
    <3>3. QED BY <3>1, <3>2, StatesOnce
  <2>2. QED BY <2>1
<1>3. Ownership /\ Returns /\ PostMoney <= MaxPostMoney /\ 4 * CurrentAsk <= 5 * BenchmarkValue
  BY <1>1, ZenonT(30) DEF FundFit, PriceAttractiveness
<1>4. /\ ask = CurrentAsk /\ CurrentAsk \in {120, 130, 160, 50}
      /\ \E f \in facts["reported_valuation_basis"] : f.accepted /\ f.value = "pre_money"
  BY <1>1, <1>3, PriceIsStated
<1>5. PICK a \in {40, 20, 2} : arr = a /\ multiple = 40 /\ MaxPostMoney = (a * 40) \div 10
  BY <1>1, <1>3, ExitIsStated DEF Returns
<1> HIDE DEF ask, arr, multiple
<1>6. arr * multiple >= 2 * TargetMoic["seed"] * (ask + CheckMax)
  <2>1. TargetMoic["seed"] = 5
    BY DEF TargetMoic
  <2>2. ask \in Int /\ a \in Int
    <3>1. \A x \in {120, 130, 160, 50} \cup {40, 20, 2} : x \in Int
      BY AmountsAreIntegers
    <3>2. QED BY <1>4, <1>5, <3>1
  <2>3. ask + 16 <= (a * 40) \div 10
    BY <1>3, <1>4, <1>5 DEF PostMoney, CheckMax
  <2>4. a * 40 >= 10 * (ask + 16)
    BY <2>2, <2>3, WholeShare
  <2>5. arr * multiple = a * 40
    BY <1>5
  <2>6. 2 * TargetMoic["seed"] * (ask + CheckMax) = 10 * (ask + 16)
    <3>1. CheckMax = 16
      BY DEF CheckMax
    <3>2. QED BY <2>1, <2>2, <3>1, TwiceFive
  <2>7. QED BY <2>4, <2>5, <2>6
<1>7. 75 * (ask + CheckMax) <= 1000 * CheckMax /\ 1000 * CheckMax <= 150 * (ask + CheckMax)
  <2>1. OwnershipAtLeast(75) /\ 1000 * CheckMax <= 150 * PostMoney
    BY <1>1 DEF FundFit
  <2>2. QED BY <1>4, <2>1, ZenonT(30) DEF OwnershipAtLeast, PostMoney, CheckMax
<1>8. ~policy.veto /\ "seed" \in policy.stages
  BY <1>1 DEF HardVeto, MandateMismatch, PolicySelected
<1>9. policy.selected = 0 \/ policy.selected \in CheckMin..CheckMax
  <2>1. policy.selected \in {0, 2, 24}
    BY DEF DecisionTypeOK, Policies
  <2>2. WithinRange
    BY <1>1 DEF FundFit
  <2>3. 3 <= Check /\ Check <= 16
    BY <2>2 DEF WithinRange, CheckMin, CheckMax
  <2>4. Check = IF policy.selected = 0 THEN 16 ELSE policy.selected
    BY DEF Check, CheckMax
  <2>5. policy.selected = 0
    BY <2>1, <2>3, <2>4, OnlyRecommendedFits
  <2>6. QED BY <2>5
<1>10. QED
  BY <1>1, <1>2, <1>3, <1>4, <1>6, <1>7, <1>8, <1>9, FrameworksAgree, ZenonT(60)
     DEF InvestCandidateEarned, Stated, ask, arr, multiple

-----------------------------------------------------------------------------
(* Changes of an input. *)

LEMMA LabelIsRanked == Analysis.label \in DOMAIN Rank
<1>1. Matrix \in {"Pass", "Watch", "Advance", "Invest Candidate"}
  BY DEF Matrix
<1>2. Capped \in {"Pass", "Watch", "Advance", "Invest Candidate"}
  BY <1>1 DEF Capped, Ceiling
<1>3. Analysis.label \in {"unavailable", "error", Capped}
  BY DEF Analysis
<1>4. DOMAIN Rank = {"unavailable", "error", "Pass", "Watch", "Advance", "Invest Candidate"}
  BY DEF Rank
<1>5. QED BY <1>2, <1>3, <1>4

\* The inputs of an analysis.
InputsOK ==
    /\ DOMAIN facts = Fields /\ \A field \in Fields : facts[field] \subseteq FactsOf(field)
    /\ judgments \in [Cards -> Conclusions] /\ policy \in Policies
    /\ {specialist, published, benchmark} \subseteq BOOLEAN

LEMMA FieldChanges ==
    ASSUME InputsOK, NEW field \in Fields, NEW fs \in SUBSET FactsOf(field),
           facts' = [facts EXCEPT ![field] = fs],
           UNCHANGED <<judgments, specialist, policy, published, benchmark>>
    PROVE  InputsOK'
BY DEF InputsOK

LEMMA FactIsTyped ==
    ASSUME NEW id \in -MaxEdits..MaxEdits, NEW field, NEW value \in Values[field], NEW accepted \in BOOLEAN
    PROVE  Fact(id, value, accepted) \in FactsOf(field)
BY DEF Fact, FactsOf

LEMMA IdsInBounds ==
    ASSUME edits \in 0..MaxEdits, edits < MaxEdits
    PROVE  {0, edits + 1, -edits - 1} \subseteq -MaxEdits..MaxEdits
<1>1. MaxEdits \in Nat
  BY DecisionAssumption
<1>2. QED BY <1>1

LEMMA RestateKeeps ==
    ASSUME InputsOK, NEW field \in Fields, NEW value \in Values[field], Restate(field, value)
    PROVE  InputsOK'
<1>1. 0 \in -MaxEdits..MaxEdits
  BY DecisionAssumption
<1>2. {Fact(0, value, TRUE)} \in SUBSET FactsOf(field)
  BY <1>1, FactIsTyped
<1>3. QED BY <1>2, FieldChanges DEF Restate

LEMMA TellKeeps ==
    ASSUME InputsOK, NEW field \in Fields, NEW value \in Values[field], NEW id \in -MaxEdits..MaxEdits,
           NEW accepted \in BOOLEAN, Tell(id, field, value, accepted)
    PROVE  InputsOK'
<1>1. facts[field] \cup {Fact(id, value, accepted)} \in SUBSET FactsOf(field)
  BY FactIsTyped DEF InputsOK
<1>2. facts' = [facts EXCEPT ![field] = facts[field] \cup {Fact(id, value, accepted)}]
  BY DEF Tell
<1>3. QED BY <1>1, <1>2, FieldChanges DEF Tell

LEMMA WithdrawKeeps ==
    ASSUME InputsOK, NEW field \in Fields, NEW f \in facts[field], Withdraw(field, f)
    PROVE  InputsOK'
<1>1. facts[field] \ {f} \in SUBSET FactsOf(field)
  BY DEF InputsOK
<1>2. facts' = [facts EXCEPT ![field] = facts[field] \ {f}]
  BY DEF Withdraw
<1>3. QED BY <1>1, <1>2, FieldChanges DEF Withdraw

LEMMA OutdateKeeps ==
    ASSUME InputsOK, NEW field \in Fields, NEW f \in facts[field], Outdate(field, f)
    PROVE  InputsOK'
<1>1. f \in FactsOf(field)
  BY DEF InputsOK
<1>2. [f EXCEPT !.current = FALSE] \in FactsOf(field)
  BY <1>1 DEF FactsOf
<1>3. (facts[field] \ {f}) \cup {[f EXCEPT !.current = FALSE]} \in SUBSET FactsOf(field)
  BY <1>2 DEF InputsOK
<1>4. facts' = [facts EXCEPT ![field] = (facts[field] \ {f}) \cup {[f EXCEPT !.current = FALSE]}]
  BY DEF Outdate
<1>5. QED BY <1>3, <1>4, FieldChanges DEF Outdate

LEMMA OtherInputsKeep ==
    ASSUME InputsOK,
           \/ \E card \in Cards, conclusion \in Conclusions : Judge(card, conclusion)
           \/ SpecialistObjects
           \/ Retire
    PROVE  InputsOK'
BY DEF InputsOK, Judge, SpecialistObjects, Retire

LEMMA ActivateKeeps ==
    ASSUME InputsOK, NEW p \in Policies, Activate(p)
    PROVE  InputsOK'
BY DEF InputsOK, Activate

LEMMA PoliciesChange ==
    ASSUME NEW p \in Policies
    PROVE  /\ [p EXCEPT !.veto = TRUE] \in Policies
           /\ [p EXCEPT !.stages = {"series_a"}] \in Policies
           /\ [p EXCEPT !.custom = TRUE] \in Policies
           /\ \A check \in {2, 24} : [p EXCEPT !.selected = check] \in Policies
<1>1. "series_a" \in Values.stage
  BY DEF Values
<1>2. QED BY <1>1, ZenonT(30) DEF Policies

LEMMA DecisionNextKeeps ==
    ASSUME DecisionTypeOK, DecisionNext
    PROVE  DecisionTypeOK'
<1>1. InputsOK /\ edits \in 0..MaxEdits /\ edits < MaxEdits /\ edits' = edits + 1
  BY DEF DecisionTypeOK, DecisionNext, InputsOK
<1>2. InputsOK'
  <2>0. {0, edits + 1, -edits - 1} \subseteq -MaxEdits..MaxEdits
    BY <1>1, IdsInBounds
  <2>1. policy \in Policies
    BY <1>1 DEF InputsOK
  <2>2. CASE Loss
    <3>1. ASSUME NEW field \in Fields, NEW f \in facts[field], Withdraw(field, f) \/ Outdate(field, f)
          PROVE  InputsOK'
      BY <1>1, <3>1, WithdrawKeeps, OutdateKeeps
    <3>2. ASSUME NEW field \in Fields, NEW value \in Values[field], Tell(edits + 1, field, value, FALSE)
          PROVE  InputsOK'
      BY <1>1, <2>0, <3>2, TellKeeps
    <3>3. ASSUME NEW card \in Cards, NEW conclusion \in Conclusions, Judge(card, conclusion)
          PROVE  InputsOK'
      BY <1>1, <3>3, OtherInputsKeep
    <3>4. CASE SpecialistObjects \/ Retire
      BY <1>1, <3>4, OtherInputsKeep
    <3>5. CASE Activate([policy EXCEPT !.veto = TRUE]) \/ Activate([policy EXCEPT !.stages = {"series_a"}])
      BY <1>1, <2>1, <3>5, PoliciesChange, ActivateKeeps
    <3>6. QED BY <2>2, <3>1, <3>2, <3>3, <3>4, <3>5 DEF Loss
  <2>3. CASE OtherChange
    <3>1. ASSUME NEW field \in Fields, NEW value \in Values[field], Restate(field, value)
          PROVE  InputsOK'
      BY <1>1, <3>1, RestateKeeps
    <3>2. ASSUME NEW field \in Fields, NEW value \in Values[field], NEW id \in {edits + 1, -edits - 1},
                 Tell(id, field, value, TRUE)
          PROVE  InputsOK'
      BY <1>1, <2>0, <3>2, TellKeeps
    <3>3. ASSUME NEW card \in Cards, NEW conclusion \in Conclusions, Judge(card, conclusion)
          PROVE  InputsOK'
      BY <1>1, <3>3, OtherInputsKeep
    <3>4. CASE Activate([policy EXCEPT !.custom = TRUE])
      BY <1>1, <2>1, <3>4, PoliciesChange, ActivateKeeps
    <3>5. ASSUME NEW check \in {2, 24}, Activate([policy EXCEPT !.selected = check]) PROVE InputsOK'
      BY <1>1, <2>1, <3>5, PoliciesChange, ActivateKeeps
    <3>6. QED BY <2>3, <3>1, <3>2, <3>3, <3>4, <3>5 DEF OtherChange
  <2>4. QED BY <2>2, <2>3 DEF DecisionNext
<1>3. lost' \in BOOLEAN /\ result' = Analysis'
  BY DEF DecisionNext
<1>4. edits' \in 0..MaxEdits
  BY <1>1, DecisionAssumption
<1>5. (Analysis.label \in DOMAIN Rank)'
  BY LabelIsRanked, PTL
<1>6. result'.label \in DOMAIN Rank
  BY <1>3, <1>5 DEF Rank
<1>7. QED BY <1>2, <1>3, <1>4, <1>6 DEF DecisionTypeOK, InputsOK

LEMMA DecisionInitTypes == DecisionInit => DecisionTypeOK
<1> SUFFICES ASSUME DecisionInit PROVE DecisionTypeOK
  OBVIOUS
<1>1. DOMAIN facts = Fields /\ \A field \in Fields : facts[field] \subseteq FactsOf(field)
  <2>1. PICK ask \in Values.reported_valuation :
            facts = [field \in Fields |-> {Fact(0, [First EXCEPT !.reported_valuation = ask][field], TRUE)}]
    BY DEF DecisionInit
  <2>2. ASSUME NEW field \in Fields PROVE [First EXCEPT !.reported_valuation = ask][field] \in Values[field]
    BY DEF Fields, Values, First
  <2>3. 0 \in -MaxEdits..MaxEdits
    BY DecisionAssumption
  <2>4. QED BY <2>1, <2>2, <2>3, FactIsTyped
<1>2. judgments \in [Cards -> Conclusions]
  BY DEF DecisionInit, Conclusions
<1>3. policy \in Policies
  <2>1. Balanced \in Policies /\ [Balanced EXCEPT !.hardMinimum = 110] \in Policies
    BY DEF Policies, Balanced, Values
  <2>2. QED BY <2>1 DEF DecisionInit
<1>4. {specialist, published, benchmark, lost} \subseteq BOOLEAN /\ edits \in 0..MaxEdits /\ result = Analysis
  <2>1. specialist = FALSE /\ published = TRUE /\ benchmark = TRUE /\ lost = FALSE /\ edits = 0 /\ result = Analysis
    BY DEF DecisionInit
  <2>2. {specialist, published, benchmark, lost} \subseteq {TRUE, FALSE}
    BY <2>1
  <2>3. edits \in 0..MaxEdits
    BY <2>1, DecisionAssumption
  <2>4. {specialist, published, benchmark, lost} \subseteq BOOLEAN
    BY <2>2
  <2>5. QED BY <2>1, <2>3, <2>4
<1>5. QED BY <1>1, <1>2, <1>3, <1>4, LabelIsRanked DEF DecisionTypeOK

LEMMA AnalysisStays ==
    ASSUME UNCHANGED decisionVars
    PROVE  Analysis' = Analysis
<1>1. UNCHANGED <<facts, judgments, specialist, policy, published, benchmark>>
  BY DEF decisionVars
<1>2. \A field : /\ Accepted(field)' = Accepted(field) /\ Sound(field)' = Sound(field)
                 /\ OpenConflict(field)' = OpenConflict(field)
  <2>1. \A field : Accepted(field)' = Accepted(field)
    BY <1>1 DEF Accepted
  <2>2. \A field : Sound(field)' = Sound(field)
    BY <2>1 DEF Sound
  <2>3. \A field : OpenConflict(field)' = OpenConflict(field)
    BY <1>1 DEF OpenConflict
  <2>4. QED BY <2>1, <2>2, <2>3
<1>3. \A field : Selected(field)' = Selected(field) /\ AcceptedFact(field)' = AcceptedFact(field)
                /\ AcceptedFor(field)' = AcceptedFor(field)
  <2>1. \A field : Selected(field)' = Selected(field)
    <3>1. \A field : ValuesOf(Sound(field))' = ValuesOf(Sound(field))
      BY <1>2 DEF ValuesOf
    <3>2. ASSUME NEW field PROVE Selected(field)' = Selected(field)
      <4>1. ValuesOf(Sound(field))' = ValuesOf(Sound(field))
        BY <3>1
      <4>2. QED BY <4>1 DEF Selected
    <3>3. QED BY <3>2
  <2>2. \A field : AcceptedFact(field)' = AcceptedFact(field)
    BY <1>2 DEF AcceptedFact
  <2>3. \A field : AcceptedFor(field)' = AcceptedFor(field)
    BY <1>2 DEF AcceptedFor
  <2>4. QED BY <2>1, <2>2, <2>3
<1>4. /\ Supported' = Supported /\ Grounded' = Grounded /\ MinimumComplete' = MinimumComplete
      /\ CriticalComplete' = CriticalComplete /\ PolicySelected' = PolicySelected
      /\ HasBenchmarkPack' = HasBenchmarkPack /\ ArrPath' = ArrPath
  BY <1>1, <1>2, <1>3 DEF Supported, Grounded, MinimumComplete, CriticalComplete, PolicySelected,
     HasBenchmarkPack, ArrPath
<1>5. MaxPostMoney' = MaxPostMoney /\ Target' = Target
  BY <1>3, <1>4 DEF MaxPostMoney, Target
<1>6. Market' = Market /\ Venture' = Venture /\ Ownership' = Ownership /\ Returns' = Returns
  BY <1>1, <1>2, <1>3, <1>4, <1>5 DEF Market, Venture, Ownership, Returns
<1>7. CurrentAsk' = CurrentAsk /\ PostMoney' = PostMoney
  BY <1>3 DEF CurrentAsk, PostMoney
<1>8. PriceAttractiveness' = PriceAttractiveness
  BY <1>5, <1>6, <1>7 DEF PriceAttractiveness
<1>9. CompanyQuality' = CompanyQuality /\ Supportive' = Supportive
  BY <1>1, <1>2, <1>3 DEF CompanyQuality, Supportive, PmfEvidence
<1>10. Check' = Check /\ OwnershipVeto' = OwnershipVeto /\ HardVeto' = HardVeto
       /\ MandateMismatch' = MandateMismatch /\ ConcentrationVeto' = ConcentrationVeto
       /\ WithinRange' = WithinRange
  BY <1>1, <1>3, <1>6, <1>7 DEF Check, OwnershipVeto, HardVeto, MandateMismatch, ConcentrationVeto, WithinRange,
     OwnershipAtLeast
<1>11. FundFit' = FundFit
  BY <1>6, <1>7, <1>10 DEF FundFit, OwnershipAtLeast
<1>12. Capped' = Capped
  BY <1>4, <1>8, <1>9, <1>10, <1>11 DEF Capped, Matrix, Ceiling
<1>13. QED BY <1>4, <1>8, <1>9, <1>10, <1>12 DEF Analysis

\* However the evidence, the judgments, the policy and the references change, a
\* candidate is labelled for investment only with every critical field sound and
\* undisputed, the frameworks behind it, and a price and a check within the policy.
THEOREM InvestCandidateEarnedHolds == DecisionSpec => []InvestCandidateEarned
<1>1. DecisionTypeOK /\ [DecisionNext]_decisionVars => DecisionTypeOK'
  <2>1. ASSUME DecisionTypeOK, UNCHANGED decisionVars PROVE DecisionTypeOK'
    <3>1. InputsOK /\ InputsOK'
      BY <2>1 DEF decisionVars, DecisionTypeOK, InputsOK
    <3>2. Analysis' = Analysis
      BY <2>1, AnalysisStays
    <3>3. QED BY <2>1, <3>1, <3>2 DEF decisionVars, DecisionTypeOK, InputsOK
  <2>2. QED BY <2>1, DecisionNextKeeps
<1>2. QED BY DecisionInitTypes, <1>1, EarnedWhenLabelled, PTL DEF DecisionSpec

-----------------------------------------------------------------------------
(* What a loss does to the label: the rank of the label in terms of what bars *)
(* the candidate, what makes it wait and what its case rests on.              *)

Decided == Supported /\ Grounded /\ MinimumComplete /\ PolicySelected
Barred == HardVeto \/ MandateMismatch \/ CompanyQuality = "fail"
Waits == CompanyQuality = "mixed" /\ Supportive = {}
Earns ==
    /\ CompanyQuality = "pass" /\ PriceAttractiveness = "pass" /\ FundFit = "pass"
    /\ CriticalComplete /\ ~Barred

LEMMA RanksAre ==
    /\ Rank["unavailable"] = 0 /\ Rank["error"] = 0 /\ Rank["Pass"] = 1 /\ Rank["Watch"] = 2
    /\ Rank["Advance"] = 3 /\ Rank["Invest Candidate"] = 4
BY DEF Rank

LEMMA UpToFour ==
    ASSUME NEW r, NEW s, \/ r \in {1, 2, 3} /\ s \in {3, 4}
                         \/ r = 4 /\ s = 4
    PROVE  r # 0 /\ r <= s
OBVIOUS

LEMMA RanksOf ==
    ASSUME NEW m \in {"Pass", "Watch", "Advance", "Invest Candidate"},
           NEW c \in {"Advance", "Invest Candidate"}, m = "Invest Candidate" => c = "Invest Candidate"
    PROVE  Rank[m] # 0 /\ Rank[m] <= Rank[c]
<1>1. /\ m = "Pass" => Rank[m] = 1
      /\ m = "Watch" => Rank[m] = 2
      /\ m = "Advance" => Rank[m] = 3
      /\ m = "Invest Candidate" => Rank[m] = 4
      /\ c = "Advance" => Rank[c] = 3
      /\ c = "Invest Candidate" => Rank[c] = 4
  BY RanksAre, Zenon
<1>2. \/ Rank[m] \in {1, 2, 3} /\ Rank[c] \in {3, 4}
      \/ Rank[m] = 4 /\ Rank[c] = 4
  BY <1>1, Zenon
<1>3. QED BY <1>2, UpToFour, Zenon

LabelFollows ==
    /\ ~Decided => Analysis.label \in {"unavailable", "error"}
    /\ Decided /\ Barred => Analysis.label = "Pass"
    /\ Decided /\ ~Barred /\ Waits => Analysis.label = "Watch"
    /\ Decided /\ ~Barred /\ ~Waits /\ ~(CompanyQuality = "pass" /\ PriceAttractiveness = "fail") =>
          Analysis.label = IF Earns THEN "Invest Candidate" ELSE "Advance"
    /\ Analysis.label = "Invest Candidate" => Earns
    /\ Analysis.label \in {"unavailable", "error", "Pass", "Watch", "Advance", "Invest Candidate"}
    /\ Decided => /\ Analysis.company = CompanyQuality /\ Analysis.price = PriceAttractiveness
                  /\ Analysis.ownershipVeto = OwnershipVeto

LEMMA LabelIs == LabelFollows
<1> DEFINE label == IF ~Supported \/ ~Grounded \/ ~MinimumComplete THEN "unavailable"
                    ELSE IF ~PolicySelected THEN "error" ELSE Capped
<1>1. Analysis.label = label
  BY DEF Analysis
<1>2. Matrix \in {"Pass", "Watch", "Advance", "Invest Candidate"} /\ (Matrix = "Invest Candidate" <=> Earns)
  BY DEF Matrix, Earns, Barred
<1>3. Capped = Matrix
  <2>1. Matrix = "Invest Candidate" => Ceiling = "Invest Candidate"
    BY <1>2 DEF Earns, Ceiling
  <2>2. Ceiling \in {"Advance", "Invest Candidate"}
    BY DEF Ceiling
  <2>3. Rank[Matrix] <= Rank[Ceiling]
    BY <1>2, <2>1, <2>2, RanksOf
  <2>4. QED BY <2>3 DEF Capped
<1>4. Decided => label = Matrix /\ Rank[label] # 0
  <2>1. Decided => label = Capped
    BY DEF Decided
  <2>2. "Advance" \in {"Advance", "Invest Candidate"} /\ "Invest Candidate" \in {"Advance", "Invest Candidate"}
    OBVIOUS
  <2>3. Rank[Matrix] # 0
    BY <1>2, <2>2, RanksOf, Zenon
  <2>4. QED BY <1>3, <2>1, <2>3
<1>5. Decided => /\ Analysis.company = CompanyQuality /\ Analysis.price = PriceAttractiveness
                 /\ Analysis.ownershipVeto = OwnershipVeto
  <2>1. Analysis = [label |-> label,
                    company |-> IF Rank[label] # 0 THEN CompanyQuality ELSE "unavailable",
                    price |-> IF Rank[label] # 0 THEN PriceAttractiveness ELSE "unavailable",
                    ownershipVeto |-> Rank[label] # 0 /\ OwnershipVeto]
    BY DEF Analysis
  <2> HIDE DEF label
  <2>2. OwnershipVeto \in BOOLEAN
    BY DEF OwnershipVeto
  <2>3. ASSUME Decided
        PROVE  /\ Analysis.company = CompanyQuality /\ Analysis.price = PriceAttractiveness
               /\ Analysis.ownershipVeto = OwnershipVeto
    <3>1. Rank[label] # 0
      BY <1>4, <2>3
    <3>2. Analysis.company = CompanyQuality /\ Analysis.price = PriceAttractiveness
      BY <2>1, <3>1
    <3>3. Analysis.ownershipVeto = (Rank[label] # 0 /\ OwnershipVeto)
      BY <2>1
    <3>4. QED BY <2>2, <3>1, <3>2, <3>3
  <2>4. QED BY <2>3
<1>6. ~Decided => label \in {"unavailable", "error"}
  BY DEF Decided
<1>7. /\ Barred => Matrix = "Pass"
      /\ ~Barred /\ Waits => Matrix = "Watch"
      /\ ~Barred /\ ~Waits /\ ~(CompanyQuality = "pass" /\ PriceAttractiveness = "fail") =>
            Matrix = IF Earns THEN "Invest Candidate" ELSE "Advance"
  BY DEF Matrix, Barred, Waits, Earns
<1> HIDE DEF label
<1>8. QED BY <1>1, <1>2, <1>4, <1>5, <1>6, <1>7 DEF LabelFollows

\* The label of a decided candidate, from the matrix.
LEMMA DecidedLabel ==
    ASSUME Decided
    PROVE  /\ Analysis.label \in {"Pass", "Watch", "Advance", "Invest Candidate"}
           /\ ~Barred => Analysis.label # "Pass"
           /\ ~Barred /\ CompanyQuality = "pass" /\ PriceAttractiveness = "fail" => Analysis.label = "Watch"
<1>1. /\ Matrix \in {"Pass", "Watch", "Advance", "Invest Candidate"} /\ (Matrix = "Invest Candidate" <=> Earns)
      /\ ~Barred => Matrix # "Pass"
      /\ ~Barred /\ CompanyQuality = "pass" /\ PriceAttractiveness = "fail" => Matrix = "Watch"
  BY DEF Matrix, Earns, Barred
<1>2. Matrix = "Invest Candidate" => Ceiling = "Invest Candidate"
  BY <1>1 DEF Earns, Ceiling
<1>3. Ceiling \in {"Advance", "Invest Candidate"}
  BY DEF Ceiling
<1>4. Rank[Matrix] <= Rank[Ceiling]
  BY <1>1, <1>2, <1>3, RanksOf
<1>5. Capped = Matrix
  BY <1>4 DEF Capped
<1>6. Analysis.label = Matrix
  BY <1>5 DEF Analysis, Decided
<1>7. QED BY <1>1, <1>6

LEMMA NineFields ==
    /\ Fields = {"stage", "business_model", "geography", "security_type", "customer_evidence", "arr",
                 "reported_valuation", "exit_multiple", "reported_valuation_basis"}
    /\ Critical \subseteq Fields /\ Minimum \subseteq Fields
BY DecisionAssumption DEF Fields, Values

LEMMA SelectedIsSound == \A field \in Fields : Sound(field) = {} => Selected(field) = "unconfirmed"
<1> SUFFICES ASSUME NEW field \in Fields, Sound(field) = {} PROVE Selected(field) = "unconfirmed"
  OBVIOUS
<1>1. ValuesOf(Sound(field)) = {}
  BY DEF ValuesOf
<1>2. Cardinality({}) = 0
  BY FS_EmptySet
<1>3. QED BY <1>1, <1>2 DEF Selected

\* An Invest Candidate has something accepted in every field the analysis reads.
FullCase ==
    /\ \A field \in Fields : Accepted(field) # {}
    /\ \A field \in {"stage", "business_model", "geography", "security_type", "arr", "reported_valuation"} :
           Sound(field) # {}
    /\ Market /\ Venture /\ Ownership /\ Selected("stage") = "seed"

LEMMA EarnsFromAll == Decided /\ Earns => FullCase
<1> SUFFICES ASSUME Decided, Earns PROVE FullCase
  OBVIOUS
<1>1. Market /\ Venture /\ Ownership
  BY DEF Earns, PriceAttractiveness, Returns
<1>2. Accepted("customer_evidence") # {}
  BY DEF Earns, CompanyQuality, PmfEvidence
<1>3. Sound("arr") # {} /\ Sound("reported_valuation") # {}
  BY DecisionAssumption DEF Earns, CriticalComplete, AcceptedFor
<1>4. \A field \in {"stage", "business_model", "geography", "security_type"} : Selected(field) # "unconfirmed"
  BY DEF Decided, Supported
<1>5. \A field \in {"stage", "business_model", "geography", "security_type"} : Sound(field) # {}
  BY <1>4, NineFields, SelectedIsSound
<1>6. \A field : Sound(field) # {} => Accepted(field) # {}
  BY DEF Sound
<1>7. Accepted("exit_multiple") # {} /\ Accepted("reported_valuation_basis") # {}
  BY <1>1 DEF Venture, Ownership
<1>8. Selected("stage") = "seed"
  BY DEF Decided, PolicySelected
<1>9. QED BY <1>1, <1>2, <1>3, <1>5, <1>6, <1>7, <1>8, NineFields DEF FullCase

\* Facts keep their ids, which tell them apart.
IdsDiffer ==
    /\ \A field \in Fields : \A f, g \in facts[field] : f.id = g.id => f = g
    /\ \A field \in Fields : \A f \in facts[field] : f.id <= edits /\ -f.id <= edits

DecisionInv == DecisionTypeOK /\ IdsDiffer

-----------------------------------------------------------------------------
(* What a loss does to the inputs. *)

\* Sound evidence stays or is gone, and disputes stay while there is any; references,
\* judgments and the policy change one way.
Weakened ==
    /\ \A field \in Fields :
          /\ Sound(field)' = Sound(field) \/ Sound(field)' = {}
          /\ Sound(field)' # {} /\ OpenConflict(field) => OpenConflict(field)'
    /\ published' => published
    /\ benchmark' => benchmark
    /\ specialist => specialist'
    /\ \A card \in Cards :
          \/ judgments'[card] = judgments[card]
          \/ judgments[card] \in {"supportive", "mixed"} /\ judgments'[card] \in {"mixed", "negative"}
          \/ judgments'[card] = "abstain"
    /\ policy' \in {policy, [policy EXCEPT !.veto = TRUE], [policy EXCEPT !.stages = {"series_a"}]}

LEMMA OneField ==
    ASSUME InputsOK, NEW field \in Fields, NEW fs, facts' = [facts EXCEPT ![field] = fs]
    PROVE  /\ facts'[field] = fs
           /\ \A g \in Fields \ {field} :
                 /\ Accepted(g)' = Accepted(g)
                 /\ Sound(g)' = Sound(g)
                 /\ OpenConflict(g)' = OpenConflict(g)
<1>1. facts'[field] = fs /\ \A g \in Fields \ {field} : facts'[g] = facts[g]
  BY DEF InputsOK
<1>2. ASSUME NEW g \in Fields \ {field}
      PROVE  Accepted(g)' = Accepted(g) /\ Sound(g)' = Sound(g) /\ OpenConflict(g)' = OpenConflict(g)
  BY <1>1 DEF Accepted, Sound, OpenConflict
<1>3. QED BY <1>1, <1>2

LEMMA WithdrawLeaves ==
    ASSUME InputsOK, NEW field \in Fields, NEW f \in facts[field], Accepted(field) = {f}, Withdraw(field, f)
    PROVE  Accepted(field)' = {} /\ Sound(field)' = {}
<1>1. facts' = [facts EXCEPT ![field] = facts[field] \ {f}]
  BY DEF Withdraw
<1>2. facts'[field] = facts[field] \ {f}
  BY <1>1, OneField
<1>3. QED BY <1>2 DEF Accepted, Sound

LEMMA OutdateLeaves ==
    ASSUME InputsOK, NEW field \in Fields, NEW f \in facts[field], Sound(field) = {f}, Outdate(field, f)
    PROVE  /\ Sound(field)' = {}
           /\ f \in Accepted(field)
           /\ Accepted(field)' = (Accepted(field) \ {f}) \cup {[f EXCEPT !.current = FALSE]}
<1> DEFINE old == [f EXCEPT !.current = FALSE]
<1>1. facts' = [facts EXCEPT ![field] = (facts[field] \ {f}) \cup {old}]
  BY DEF Outdate
<1>2. facts'[field] = (facts[field] \ {f}) \cup {old}
  BY <1>1, OneField
<1>3. f \in Accepted(field) /\ f.accepted
  BY DEF Sound, Accepted
<1>4. old.accepted /\ ~old.current
  BY <1>3 DEF InputsOK, FactsOf
<1> HIDE DEF old
<1>5. Accepted(field)' = (Accepted(field) \ {f}) \cup {old}
  BY <1>2, <1>4 DEF Accepted
<1>6. Sound(field)' = {}
  BY <1>4, <1>5 DEF Sound
<1>7. QED BY <1>3, <1>5, <1>6 DEF old

LEMMA DisputedLeaves ==
    ASSUME InputsOK, NEW field \in Fields, NEW id, NEW value, Tell(id, field, value, FALSE)
    PROVE  /\ \A g \in Fields : Accepted(g)' = Accepted(g) /\ Sound(g)' = Sound(g)
           /\ \A g \in Fields : OpenConflict(g) => OpenConflict(g)'
<1> DEFINE told == Fact(id, value, FALSE)
<1>1. facts' = [facts EXCEPT ![field] = facts[field] \cup {told}]
  BY DEF Tell
<1>2. facts'[field] = facts[field] \cup {told}
  BY <1>1, OneField
<1>3. ~told.accepted
  BY DEF Fact
<1> HIDE DEF told
<1>4. Accepted(field)' = Accepted(field)
  BY <1>2, <1>3 DEF Accepted
<1>5. Sound(field)' = Sound(field)
  BY <1>4 DEF Sound
<1>6. OpenConflict(field) => OpenConflict(field)'
  BY <1>2 DEF OpenConflict
<1>7. QED BY <1>1, <1>4, <1>5, <1>6, OneField

LEMMA FactsWeaken ==
    ASSUME InputsOK,
           NEW field \in Fields, NEW fs, facts' = [facts EXCEPT ![field] = fs], Sound(field)' = {},
           UNCHANGED <<judgments, specialist, policy, published, benchmark>>
    PROVE  Weakened
BY OneField DEF Weakened

LEMMA JudgedWeaker ==
    ASSUME InputsOK, NEW card \in Cards, NEW conclusion \in Conclusions,
           Severity[judgments[card]] < Severity[conclusion], Judge(card, conclusion)
    PROVE  Weakened
<1>1. UNCHANGED <<facts, specialist, policy, published, benchmark>> /\ judgments' = [judgments EXCEPT ![card] = conclusion]
  BY DEF Judge
<1>2. judgments[card] \in {"supportive", "mixed", "negative", "abstain"}
  BY DEF InputsOK, Conclusions
<1>3. /\ Severity["supportive"] = 0 /\ Severity["mixed"] = 1 /\ Severity["negative"] = 2 /\ Severity["abstain"] = 3
  BY DEF Severity
<1>4. \/ judgments[card] \in {"supportive", "mixed"} /\ conclusion \in {"mixed", "negative"}
      \/ conclusion = "abstain"
  <2>1. CASE conclusion = "supportive"
    <3>1. Severity[judgments[card]] < 0
      BY <1>3, <2>1
    <3>2. QED BY <1>2, <1>3, <3>1
  <2>2. CASE conclusion = "mixed"
    <3>1. Severity[judgments[card]] < 1
      BY <1>3, <2>2
    <3>2. QED BY <1>2, <1>3, <2>2, <3>1
  <2>3. CASE conclusion = "negative"
    <3>1. Severity[judgments[card]] < 2
      BY <1>3, <2>3
    <3>2. QED BY <1>2, <1>3, <2>3, <3>1
  <2>4. QED BY <2>1, <2>2, <2>3 DEF Conclusions
<1>5. \A c \in Cards : \/ judgments'[c] = judgments[c]
                       \/ judgments[c] \in {"supportive", "mixed"} /\ judgments'[c] \in {"mixed", "negative"}
                       \/ judgments'[c] = "abstain"
  BY <1>1, <1>4 DEF InputsOK
<1>6. \A field : Sound(field)' = Sound(field) /\ OpenConflict(field)' = OpenConflict(field)
  BY <1>1 DEF Sound, Accepted, OpenConflict
<1>7. QED BY <1>1, <1>5, <1>6 DEF Weakened

LEMMA RestWeakens ==
    ASSUME InputsOK, \/ SpecialistObjects
                     \/ Activate([policy EXCEPT !.veto = TRUE])
                     \/ Activate([policy EXCEPT !.stages = {"series_a"}])
                     \/ Retire
    PROVE  Weakened
<1>1. UNCHANGED <<facts, judgments>>
  BY DEF SpecialistObjects, Activate, Retire
<1>2. \A field : Sound(field)' = Sound(field) /\ OpenConflict(field)' = OpenConflict(field)
  BY <1>1 DEF Sound, Accepted, OpenConflict
<1>3. /\ published' => published
      /\ benchmark' => benchmark
      /\ specialist => specialist'
      /\ policy' \in {policy, [policy EXCEPT !.veto = TRUE], [policy EXCEPT !.stages = {"series_a"}]}
  BY DEF SpecialistObjects, Activate, Retire
<1>4. QED BY <1>1, <1>2, <1>3 DEF Weakened

LEMMA LossWeakens ==
    ASSUME InputsOK, Loss
    PROVE  Weakened
<1>1. ASSUME NEW field \in Fields, NEW f \in facts[field], Accepted(field) = {f}, Withdraw(field, f)
      PROVE  Weakened
  <2>1. facts' = [facts EXCEPT ![field] = facts[field] \ {f}]
    BY <1>1 DEF Withdraw
  <2>2. Sound(field)' = {}
    BY <1>1, WithdrawLeaves
  <2>3. UNCHANGED <<judgments, specialist, policy, published, benchmark>>
    BY <1>1 DEF Withdraw
  <2>4. QED BY <1>1, <2>1, <2>2, <2>3, FactsWeaken
<1>2. ASSUME NEW field \in Fields, NEW f \in facts[field], Sound(field) = {f}, Outdate(field, f)
      PROVE  Weakened
  <2>1. facts' = [facts EXCEPT ![field] = (facts[field] \ {f}) \cup {[f EXCEPT !.current = FALSE]}]
    BY <1>2 DEF Outdate
  <2>2. Sound(field)' = {}
    BY <1>2, OutdateLeaves
  <2>3. UNCHANGED <<judgments, specialist, policy, published, benchmark>>
    BY <1>2 DEF Outdate
  <2>4. QED BY <1>2, <2>1, <2>2, <2>3, FactsWeaken
<1>3. ASSUME NEW field \in Fields, NEW value, Tell(edits + 1, field, value, FALSE)
      PROVE  Weakened
  <2>1. UNCHANGED <<judgments, specialist, policy, published, benchmark>>
    BY <1>3 DEF Tell
  <2>2. QED BY <1>3, <2>1, DisputedLeaves DEF Weakened
<1>4. QED BY <1>1, <1>2, <1>3, JudgedWeaker, RestWeakens DEF Loss

-----------------------------------------------------------------------------
(* What weaker inputs do to the decision. *)

LEMMA SelectedStays ==
    ASSUME Weakened
    PROVE  \A field \in Fields : Selected(field)' # "unconfirmed" =>
               Sound(field)' = Sound(field) /\ Selected(field)' = Selected(field)
<1>1. (\A field \in Fields : Sound(field) = {} => Selected(field) = "unconfirmed")'
  BY SelectedIsSound, PTL
<1> SUFFICES ASSUME NEW field \in Fields, Selected(field)' # "unconfirmed"
             PROVE  Sound(field)' = Sound(field) /\ Selected(field)' = Selected(field)
  OBVIOUS
<1>2. Sound(field)' # {}
  BY <1>1
<1>3. Sound(field)' = Sound(field)
  BY <1>2 DEF Weakened
<1>4. ValuesOf(Sound(field))' = ValuesOf(Sound(field))
  BY <1>3 DEF ValuesOf
<1>5. QED BY <1>3, <1>4 DEF Selected

\* What a weaker case selects, the stronger one selected too.
LEMMA ContextStays ==
    ASSUME Weakened, Decided'
    PROVE  /\ \A field \in {"stage", "business_model", "geography", "security_type"} :
                  Selected(field)' = Selected(field)
           /\ HasBenchmarkPack' = HasBenchmarkPack
<1>1. \A field \in {"stage", "business_model", "geography", "security_type"} : Selected(field)' # "unconfirmed"
  BY DEF Decided, Supported
<1>2. \A field \in {"stage", "business_model", "geography", "security_type"} : Selected(field)' = Selected(field)
  BY <1>1, SelectedStays, NineFields
<1>3. QED BY <1>2 DEF HasBenchmarkPack

LEMMA DecidedBefore ==
    ASSUME Weakened, Decided'
    PROVE  Decided
<1>1. \A field \in {"stage", "business_model", "geography", "security_type"} : Selected(field)' = Selected(field)
  BY ContextStays
<1>2. Supported /\ PolicySelected
  BY <1>1 DEF Decided, Supported, PolicySelected
<1>3. Grounded
  BY ContextStays DEF Decided, Grounded, Weakened
<1>4. MinimumComplete
  <2>1. \A field \in Minimum : Sound(field)' # {}
    BY DEF Decided, MinimumComplete, AcceptedFor
  <2>2. \A field \in Minimum : Sound(field) # {}
    BY <2>1, NineFields DEF Weakened
  <2>3. QED BY <2>2 DEF MinimumComplete, AcceptedFor
<1>5. QED BY <1>2, <1>3, <1>4 DEF Decided

LEMMA CriticalBefore ==
    ASSUME Weakened, CriticalComplete'
    PROVE  CriticalComplete
<1>1. \A field \in Critical : Sound(field)' # {} /\ ~OpenConflict(field)'
  BY DEF CriticalComplete, AcceptedFor
<1>2. \A field \in Critical : Sound(field) # {} /\ ~OpenConflict(field)
  BY <1>1, NineFields DEF Weakened
<1>3. QED BY <1>2 DEF CriticalComplete, AcceptedFor, Weakened

\* An objection stays, or an abstention keeps it from being read.
LEMMA QualityFails ==
    ASSUME Weakened, CompanyQuality = "fail"
    PROVE  CompanyQuality' \in {"fail", "unavailable"}
<1>1. specialist \/ \E card \in Cards : judgments[card] = "negative"
  BY DEF CompanyQuality
<1>2. CASE \A card \in Cards : judgments'[card] # "abstain"
  <2>1. specialist' \/ \E card \in Cards : judgments'[card] = "negative"
    BY <1>1, <1>2 DEF Weakened
  <2>2. QED BY <1>2, <2>1 DEF CompanyQuality
<1>3. CASE \E card \in Cards : judgments'[card] = "abstain"
  BY <1>3 DEF CompanyQuality
<1>4. QED BY <1>2, <1>3

LEMMA SupportiveShrinks ==
    ASSUME Weakened
    PROVE  Supportive' \subseteq Supportive
BY DEF Weakened, Supportive

LEMMA QualityWaits ==
    ASSUME Weakened, Waits
    PROVE  Waits' \/ CompanyQuality' \in {"fail", "unavailable"}
<1>1. Supportive' = {}
  BY SupportiveShrinks DEF Waits
<1>2. CompanyQuality' \in {"fail", "mixed", "unavailable"}
  BY <1>1 DEF CompanyQuality
<1>3. QED BY <1>1, <1>2 DEF Waits

LEMMA QualityPassed ==
    ASSUME Weakened, CompanyQuality' = "pass", PmfEvidence
    PROVE  CompanyQuality = "pass"
<1>1. /\ \A card \in Cards : judgments'[card] \notin {"abstain", "negative"}
      /\ ~specialist'
      /\ "pmf" \in Supportive' /\ Cardinality(Supportive') >= 2
  BY DEF CompanyQuality
<1>2. \A card \in Cards : judgments[card] \notin {"abstain", "negative"}
  BY <1>1 DEF Weakened
<1>3. ~specialist
  BY <1>1 DEF Weakened
<1>4. "pmf" \in Supportive
  BY <1>1, SupportiveShrinks
<1>5. Cardinality(Supportive) >= 2
  <2>1. IsFiniteSet(Cards)
    <3>1. Cards = {"market"} \cup {"founder"} \cup {"pmf"}
      BY DEF Cards
    <3>2. QED BY <3>1, FS_Singleton, FS_Union
  <2>2. Supportive \subseteq Cards
    BY DEF Supportive
  <2>3. IsFiniteSet(Supportive)
    BY <2>1, <2>2, FS_Subset
  <2>4. IsFiniteSet(Supportive') /\ Cardinality(Supportive') <= Cardinality(Supportive)
    BY <2>3, SupportiveShrinks, FS_Subset
  <2>5. Cardinality(Supportive') \in Nat /\ Cardinality(Supportive) \in Nat
    BY <2>3, <2>4, FS_CardinalityType
  <2>6. QED BY <1>1, <2>4, <2>5
<1>6. QED BY <1>2, <1>3, <1>4, <1>5 DEF CompanyQuality

\* The policy bars no less.
LEMMA BarredStays ==
    ASSUME Weakened, Decided', policy \in Policies, Barred, ~OwnershipVeto,
           CompanyQuality = "fail" => CompanyQuality' # "unavailable"
    PROVE  Barred'
<1>1. CASE CompanyQuality = "fail"
  BY <1>1, QualityFails DEF Barred
<1>2. CASE MandateMismatch
  <2>1. Selected("stage") \notin policy.stages /\ Selected("stage")' = Selected("stage") /\ Selected("stage") = "seed"
    BY <1>2, ContextStays, DecidedBefore DEF MandateMismatch, Decided, PolicySelected
  <2>2. policy'.stages \in {policy.stages, {"series_a"}}
    BY DEF Weakened, Policies
  <2>3. "seed" \notin policy'.stages
    BY <2>1, <2>2
  <2>4. MandateMismatch'
    BY <2>1, <2>3 DEF MandateMismatch
  <2>5. QED BY <2>4 DEF Barred
<1>3. CASE policy.veto \/ ConcentrationVeto
  <2>1. policy.veto => policy'.veto
    BY DEF Weakened, Policies
  <2>2. policy'.selected = policy.selected
    BY DEF Weakened, Policies
  <2>3. Check' = Check
    BY <2>2 DEF Check
  <2>4. ConcentrationVeto => ConcentrationVeto'
    BY <2>3 DEF ConcentrationVeto
  <2>5. HardVeto'
    BY <1>3, <2>1, <2>4 DEF HardVeto
  <2>6. QED BY <2>5 DEF Barred
<1>4. QED BY <1>1, <1>2, <1>3 DEF Barred, HardVeto

\* What the price and the fit are read from.
LEMMA ReadsStay ==
    ASSUME policy' = policy, Selected("stage")' = Selected("stage"), HasBenchmarkPack' = HasBenchmarkPack,
           ArrPath' = ArrPath,
           \A field \in {"exit_multiple", "reported_valuation", "reported_valuation_basis"} :
               /\ Accepted(field)' # {} <=> Accepted(field) # {}
               /\ AcceptedFact(field)' = AcceptedFact(field)
    PROVE  /\ PriceAttractiveness' = PriceAttractiveness
           /\ FundFit' = FundFit
           /\ HardVeto' = HardVeto
           /\ MandateMismatch' = MandateMismatch
<1>1. /\ Accepted("exit_multiple")' # {} <=> Accepted("exit_multiple") # {}
      /\ Accepted("reported_valuation")' # {} <=> Accepted("reported_valuation") # {}
      /\ Accepted("reported_valuation_basis")' # {} <=> Accepted("reported_valuation_basis") # {}
      /\ AcceptedFact("exit_multiple")' = AcceptedFact("exit_multiple")
      /\ AcceptedFact("reported_valuation")' = AcceptedFact("reported_valuation")
      /\ AcceptedFact("reported_valuation_basis")' = AcceptedFact("reported_valuation_basis")
  OBVIOUS
<1>2. MaxPostMoney' = MaxPostMoney
  BY <1>1 DEF MaxPostMoney, Target
<1>3. /\ Market' <=> Market
      /\ Venture' <=> Venture
      /\ Ownership' <=> Ownership
      /\ Returns' <=> Returns
  BY <1>1, <1>2 DEF Market, Venture, Ownership, Returns
<1>4. CurrentAsk' = CurrentAsk /\ PostMoney' = PostMoney
  BY <1>1 DEF CurrentAsk, PostMoney
<1>5. PriceAttractiveness' = PriceAttractiveness
  BY <1>2, <1>3, <1>4 DEF PriceAttractiveness
<1>6. /\ Check' = Check
      /\ WithinRange' <=> WithinRange
      /\ OwnershipVeto' <=> OwnershipVeto
      /\ MandateMismatch' <=> MandateMismatch
      /\ ConcentrationVeto' <=> ConcentrationVeto
      /\ HardVeto' <=> HardVeto
  BY <1>3, <1>4 DEF Check, OwnershipVeto, HardVeto, MandateMismatch, ConcentrationVeto, WithinRange,
     OwnershipAtLeast
<1>7. FundFit' = FundFit
  BY <1>3, <1>4, <1>6 DEF FundFit, OwnershipAtLeast
<1>8. QED BY <1>5, <1>6, <1>7 DEF HardVeto, MandateMismatch

LEMMA FirstIs ==
    ASSUME NEW A, NEW f \in A, \A g \in A : f.id <= g.id, \A g \in A : g.id \in Int,
           \A g, h \in A : g.id = h.id => g = h
    PROVE  (CHOOSE g \in A : \A h \in A : g.id <= h.id) = f
<1> DEFINE first == CHOOSE g \in A : \A h \in A : g.id <= h.id
<1>1. first \in A /\ \A h \in A : first.id <= h.id
  OBVIOUS
<1> HIDE DEF first
<1>2. first.id = f.id
  <2>1. first.id <= f.id /\ f.id <= first.id /\ first.id \in Int /\ f.id \in Int
    BY <1>1
  <2>2. QED BY <2>1
<1>3. first = f
  BY <1>1, <1>2
<1>4. QED BY <1>3 DEF first

\* The first of some facts stays the first when one of them goes out of date.
LEMMA FirstOutdated ==
    ASSUME NEW A, NEW f \in A, NEW g \in A, NEW old, old.id = f.id, NEW B, B = (A \ {f}) \cup {old},
           \A h \in A : g.id <= h.id, \A h \in A : h.id \in Int,
           \A h, k \in A : h.id = k.id => h = k
    PROVE  (CHOOSE h \in B : \A k \in B : h.id <= k.id) = IF g = f THEN old ELSE g
<1> DEFINE first == IF g = f THEN old ELSE g
<1>1. first \in B /\ first.id = g.id
  OBVIOUS
<1> HIDE DEF first
<1>2. \A h \in B : first.id <= h.id /\ h.id \in Int
  BY <1>1
<1>3. \A h, k \in B : h.id = k.id => h = k
  OBVIOUS
<1>4. QED BY <1>1, <1>2, <1>3, FirstIs DEF first

LEMMA FirstStays ==
    ASSUME DecisionTypeOK, IdsDiffer, NEW field \in Fields, NEW f \in facts[field], Sound(field) = {f},
           Outdate(field, f)
    PROVE  /\ Accepted(field)' # {} /\ Accepted(field) # {}
           /\ AcceptedFact(field)' = AcceptedFact(field)
<1> DEFINE old == [f EXCEPT !.current = FALSE]
<1>1. InputsOK
  BY DEF DecisionTypeOK, InputsOK
<1>2. f \in Accepted(field) /\ Accepted(field)' = (Accepted(field) \ {f}) \cup {old}
  BY <1>1, OutdateLeaves
<1>3. f \in FactsOf(field) /\ old.id = f.id /\ old.value = f.value
  BY <1>1 DEF InputsOK, FactsOf
<1>4. \A h \in Accepted(field) : h.id \in -MaxEdits..MaxEdits /\ h.id \in Int
  <2>1. \A h \in Accepted(field) : h.id \in -MaxEdits..MaxEdits
    BY <1>1 DEF InputsOK, FactsOf, Accepted
  <2>2. MaxEdits \in Nat
    BY DecisionAssumption
  <2>3. QED BY <2>1, <2>2
<1> HIDE DEF old
<1>5. PICK g \in Accepted(field) : \A h \in Accepted(field) : g.id <= h.id
  BY <1>2, <1>4, FirstFactExists
<1>6. \A h, k \in Accepted(field) : h.id = k.id => h = k
  BY DEF IdsDiffer, Accepted
<1>7. AcceptedFact(field) = g.value
  BY <1>4, <1>5, <1>6, FirstIs DEF AcceptedFact
<1>8. (CHOOSE h \in Accepted(field)' : \A k \in Accepted(field)' : h.id <= k.id) = IF g = f THEN old ELSE g
  BY <1>2, <1>3, <1>4, <1>5, <1>6, FirstOutdated
<1>9. AcceptedFact(field)' = g.value
  BY <1>3, <1>8 DEF AcceptedFact
<1>10. QED BY <1>2, <1>7, <1>9

-----------------------------------------------------------------------------
(* An Invest Candidate after a loss was one before. *)

\* When nothing but judgments or disputes change, the price and the fit stay.
LEMMA SameEvidence ==
    ASSUME UNCHANGED policy, \A field \in Fields : Accepted(field)' = Accepted(field) /\ Sound(field)' = Sound(field),
           ArrPath' = ArrPath
    PROVE  /\ PriceAttractiveness' = PriceAttractiveness
           /\ FundFit' = FundFit
           /\ HardVeto' = HardVeto
           /\ MandateMismatch' = MandateMismatch
           /\ PmfEvidence' = PmfEvidence
<1>1. \A field \in Fields : Selected(field)' = Selected(field)
  <2>1. ASSUME NEW field \in Fields PROVE Selected(field)' = Selected(field)
    <3>1. ValuesOf(Sound(field))' = ValuesOf(Sound(field))
      BY DEF ValuesOf
    <3>2. QED BY <3>1 DEF Selected
  <2>2. QED BY <2>1
<1>2. Selected("stage")' = Selected("stage") /\ HasBenchmarkPack' = HasBenchmarkPack
  BY <1>1, NineFields DEF HasBenchmarkPack
<1>3. \A field \in {"exit_multiple", "reported_valuation", "reported_valuation_basis"} :
          /\ Accepted(field)' # {} <=> Accepted(field) # {}
          /\ AcceptedFact(field)' = AcceptedFact(field)
  BY NineFields DEF AcceptedFact
<1>4. Accepted("customer_evidence")' = Accepted("customer_evidence") /\ Accepted("arr")' = Accepted("arr")
  BY NineFields
<1>5. PmfEvidence' = PmfEvidence
  BY <1>2, <1>4 DEF PmfEvidence
<1>6. QED BY <1>2, <1>3, <1>5, ReadsStay

LEMMA EarnsParts ==
    /\ Earns <=> /\ CompanyQuality = "pass" /\ PriceAttractiveness = "pass" /\ FundFit = "pass"
                 /\ CriticalComplete /\ ~HardVeto /\ ~MandateMismatch
    /\ Earns => PmfEvidence
<1>1. CompanyQuality = "pass" => CompanyQuality # "fail" /\ PmfEvidence
  BY DEF CompanyQuality
<1>2. QED BY <1>1 DEF Earns, Barred

LEMMA EarnedBefore ==
    ASSUME Weakened, Earns', PriceAttractiveness' = PriceAttractiveness, FundFit' = FundFit,
           HardVeto' = HardVeto, MandateMismatch' = MandateMismatch, PmfEvidence' => PmfEvidence
    PROVE  Earns
<1>1. (/\ Earns <=> /\ CompanyQuality = "pass" /\ PriceAttractiveness = "pass" /\ FundFit = "pass"
                    /\ CriticalComplete /\ ~HardVeto /\ ~MandateMismatch
       /\ Earns => PmfEvidence)'
  BY EarnsParts, PTL
<1>2. CompanyQuality = "pass"
  BY <1>1, QualityPassed
<1>3. CriticalComplete
  BY <1>1, CriticalBefore
<1>4. QED BY <1>1, <1>2, <1>3, EarnsParts

LEMMA SameArrPath ==
    ASSUME Weakened, CriticalComplete', Accepted("arr")' = Accepted("arr")
    PROVE  ArrPath' = ArrPath
<1>1. "arr" \in Critical
  BY DecisionAssumption
<1>2. ~OpenConflict("arr")' /\ ~OpenConflict("arr")
  BY <1>1, CriticalBefore DEF CriticalComplete
<1>3. QED BY <1>2 DEF ArrPath

LEMMA OutdatedEarned ==
    ASSUME DecisionInv, NEW field \in Fields, NEW f \in facts[field], Sound(field) = {f}, Outdate(field, f),
           Weakened, Decided', Earns'
    PROVE  Earns
<1>1. InputsOK
  BY DEF DecisionInv, DecisionTypeOK, InputsOK
<1>2. FullCase'
  <2>1. (Decided /\ Earns => FullCase)'
    BY EarnsFromAll, PTL
  <2>2. QED BY <2>1
<1>3. Sound(field)' = {} /\ UNCHANGED policy
  BY <1>1, OutdateLeaves DEF Outdate
<1>4. field \in {"customer_evidence", "exit_multiple", "reported_valuation_basis"}
  BY <1>2, <1>3, NineFields DEF FullCase
<1>5. \A g \in Fields \ {field} : Accepted(g)' = Accepted(g)
  BY <1>1, OneField DEF Outdate
<1>6. \A g \in Fields : (Accepted(g)' # {} <=> Accepted(g) # {}) /\ AcceptedFact(g)' = AcceptedFact(g)
  <2>1. ASSUME NEW g \in Fields \ {field}
        PROVE  (Accepted(g)' # {} <=> Accepted(g) # {}) /\ AcceptedFact(g)' = AcceptedFact(g)
    BY <1>5 DEF AcceptedFact
  <2>2. (Accepted(field)' # {} <=> Accepted(field) # {}) /\ AcceptedFact(field)' = AcceptedFact(field)
    BY FirstStays DEF DecisionInv
  <2>3. QED BY <2>1, <2>2
<1>7. ArrPath' = ArrPath
  <2>1. Accepted("arr")' = Accepted("arr")
    BY <1>4, <1>5, NineFields
  <2>2. CriticalComplete'
    BY DEF Earns
  <2>3. QED BY <2>1, <2>2, SameArrPath
<1>8. Selected("stage")' = Selected("stage") /\ HasBenchmarkPack' = HasBenchmarkPack
  BY ContextStays
<1>9. /\ PriceAttractiveness' = PriceAttractiveness /\ FundFit' = FundFit
      /\ HardVeto' = HardVeto /\ MandateMismatch' = MandateMismatch
  <2>1. \A g \in {"exit_multiple", "reported_valuation", "reported_valuation_basis"} :
            (Accepted(g)' # {} <=> Accepted(g) # {}) /\ AcceptedFact(g)' = AcceptedFact(g)
    BY <1>6, NineFields
  <2>2. QED BY <1>3, <1>7, <1>8, <2>1, ReadsStay
<1>10. PmfEvidence
  BY <1>2, <1>6, <1>8, NineFields DEF PmfEvidence, FullCase
<1>11. QED BY <1>9, <1>10, EarnedBefore

LEMMA EarnedBeforeLoss ==
    ASSUME DecisionInv, Loss, Decided', Earns'
    PROVE  Earns
<1>1. InputsOK
  BY DEF DecisionInv, DecisionTypeOK, InputsOK
<1>2. Weakened
  BY <1>1, LossWeakens
<1>3. FullCase'
  <2>1. (Decided /\ Earns => FullCase)'
    BY EarnsFromAll, PTL
  <2>2. QED BY <2>1
<1>4. CriticalComplete' /\ ~HardVeto' /\ ~MandateMismatch'
  BY DEF Earns, Barred
<1>5. ASSUME NEW field \in Fields, NEW f \in facts[field], Accepted(field) = {f}, Withdraw(field, f)
      PROVE  Earns
  BY <1>1, <1>3, <1>5, WithdrawLeaves DEF FullCase
<1>6. ASSUME NEW field \in Fields, NEW f \in facts[field], Sound(field) = {f}, Outdate(field, f)
      PROVE  Earns
  BY <1>2, <1>6, OutdatedEarned
<1>7. ASSUME UNCHANGED policy, \A field \in Fields : Accepted(field)' = Accepted(field) /\ Sound(field)' = Sound(field)
      PROVE  Earns
  <2>1. ArrPath' = ArrPath
    BY <1>2, <1>4, <1>7, SameArrPath, NineFields
  <2>2. /\ PriceAttractiveness' = PriceAttractiveness /\ FundFit' = FundFit
        /\ HardVeto' = HardVeto /\ MandateMismatch' = MandateMismatch /\ PmfEvidence' = PmfEvidence
    BY <1>7, <2>1, SameEvidence
  <2>3. QED BY <1>2, <2>2, EarnedBefore
<1>8. ASSUME NEW field \in Fields, NEW value, Tell(edits + 1, field, value, FALSE)
      PROVE  Earns
  <2>1. \A g \in Fields : Accepted(g)' = Accepted(g) /\ Sound(g)' = Sound(g)
    BY <1>1, <1>8, DisputedLeaves
  <2>2. UNCHANGED policy
    BY <1>8 DEF Tell
  <2>3. QED BY <1>7, <2>1, <2>2
<1>9. ASSUME UNCHANGED <<facts, policy>> PROVE Earns
  <2>1. \A g \in Fields : Accepted(g)' = Accepted(g) /\ Sound(g)' = Sound(g)
    BY <1>9 DEF Accepted, Sound
  <2>2. QED BY <1>7, <1>9, <2>1
<1>10. ASSUME NEW card, NEW conclusion, Judge(card, conclusion) PROVE Earns
  BY <1>9, <1>10 DEF Judge
<1>11. CASE SpecialistObjects
  BY <1>9, <1>11 DEF SpecialistObjects
<1>12. CASE Activate([policy EXCEPT !.veto = TRUE])
  <2>1. policy'.veto
    BY <1>1, <1>12 DEF InputsOK, Activate, Policies
  <2>2. QED BY <1>4, <2>1 DEF HardVeto
<1>13. CASE Activate([policy EXCEPT !.stages = {"series_a"}])
  <2>1. policy'.stages = {"series_a"}
    BY <1>1, <1>13 DEF InputsOK, Activate, Policies
  <2>2. QED BY <1>3, <1>4, <2>1 DEF MandateMismatch, FullCase
<1>14. CASE Retire
  <2>1. published' /\ benchmark'
    BY <1>3, <1>4 DEF CriticalComplete, Decided, Grounded, Market, FullCase
  <2>2. QED BY <1>14, <2>1 DEF Retire
<1>15. QED BY <1>5, <1>6, <1>8, <1>10, <1>11, <1>12, <1>13, <1>14 DEF Loss

LEMMA AtMost ==
    ASSUME NEW r, NEW s, r \in {0, 1, 2, 3, 4}, s \in {0, 1, 2, 3, 4},
           \/ r = 0
           \/ r = 1 /\ s \in {1, 2, 3, 4}
           \/ r = 2 /\ s \in {2, 3, 4}
           \/ r = 3 /\ s \in {3, 4}
           \/ r = 4 /\ s = 4
    PROVE  r <= s
OBVIOUS

LEMMA RankIs ==
    ASSUME NEW l \in {"unavailable", "error", "Pass", "Watch", "Advance", "Invest Candidate"}
    PROVE  /\ l \in {"unavailable", "error"} => Rank[l] = 0
           /\ l = "Pass" => Rank[l] = 1
           /\ l = "Watch" => Rank[l] = 2
           /\ l = "Advance" => Rank[l] = 3
           /\ l = "Invest Candidate" => Rank[l] = 4
           /\ Rank[l] \in {0, 1, 2, 3, 4}
BY RanksAre, Zenon

NoBetter(after, before) ==
    \/ after \in {"unavailable", "error"}
    \/ after = "Pass" /\ before \in {"Pass", "Watch", "Advance", "Invest Candidate"}
    \/ after = "Watch" /\ before \in {"Watch", "Advance", "Invest Candidate"}
    \/ after = "Advance" /\ before \in {"Advance", "Invest Candidate"}
    \/ after = "Invest Candidate" /\ before = "Invest Candidate"

LEMMA NoBetterRanks ==
    ASSUME NEW after, NEW before \in {"unavailable", "error", "Pass", "Watch", "Advance", "Invest Candidate"},
           NoBetter(after, before)
    PROVE  Rank[after] <= Rank[before]
<1>1. after \in {"unavailable", "error", "Pass", "Watch", "Advance", "Invest Candidate"}
  BY DEF NoBetter
<1>2. /\ before = "Pass" => Rank[before] = 1
      /\ before = "Watch" => Rank[before] = 2
      /\ before = "Advance" => Rank[before] = 3
      /\ before = "Invest Candidate" => Rank[before] = 4
      /\ Rank[before] \in {0, 1, 2, 3, 4}
  BY RankIs
<1>3. /\ after \in {"unavailable", "error"} => Rank[after] = 0
      /\ after = "Pass" => Rank[after] = 1
      /\ after = "Watch" => Rank[after] = 2
      /\ after = "Advance" => Rank[after] = 3
      /\ after = "Invest Candidate" => Rank[after] = 4
      /\ Rank[after] \in {0, 1, 2, 3, 4}
  BY <1>1, RankIs
<1>4. \/ Rank[after] = 0
      \/ Rank[after] = 1 /\ Rank[before] \in {1, 2, 3, 4}
      \/ Rank[after] = 2 /\ Rank[before] \in {2, 3, 4}
      \/ Rank[after] = 3 /\ Rank[before] \in {3, 4}
      \/ Rank[after] = 4 /\ Rank[before] = 4
  BY <1>2, <1>3, Zenon DEF NoBetter
<1>5. QED BY <1>2, <1>3, <1>4, AtMost, Zenon

\* What the rules no longer know and read as no objection.
Unread ==
    \/ Analysis.price = "fail" /\ Analysis.label = "Watch"
    \/ Analysis.ownershipVeto
    \/ Analysis.company \in {"fail", "mixed"} /\ Analysis'.company = "unavailable"

LEMMA LossLowers ==
    ASSUME DecisionInv, Loss, ~Unread
    PROVE  Rank[Analysis'.label] <= Rank[Analysis.label]
<1>1. InputsOK
  BY DEF DecisionInv, DecisionTypeOK, InputsOK
<1>2. Weakened
  BY <1>1, LossWeakens
<1>3. LabelFollows'
  BY LabelIs, PTL
<1>4. LabelFollows
  BY LabelIs
<1>5. NoBetter(Analysis'.label, Analysis.label)
  <2>1. CASE ~Decided'
    BY <1>3, <2>1 DEF LabelFollows, NoBetter
  <2>2. CASE Decided'
    <3>1. Decided
      BY <1>2, <2>2, DecidedBefore
    <3>2. /\ ~(PriceAttractiveness = "fail" /\ Analysis.label = "Watch") /\ ~OwnershipVeto
          /\ CompanyQuality \in {"fail", "mixed"} => CompanyQuality' # "unavailable"
      BY <1>3, <1>4, <2>2, <3>1 DEF LabelFollows, Unread
    <3>3. Analysis.label \in {"Pass", "Watch", "Advance", "Invest Candidate"}
      BY <3>1, DecidedLabel
    <3>4. CASE Barred'
      BY <1>3, <2>2, <3>3, <3>4 DEF LabelFollows, NoBetter
    <3>5. CASE ~Barred'
      <4>1. ~Barred
        BY <1>1, <1>2, <2>2, <3>2, <3>5, BarredStays DEF InputsOK
      <4>2. CASE Waits'
        <5>1. Analysis'.label = "Watch"
          BY <1>3, <2>2, <3>5, <4>2 DEF LabelFollows
        <5>2. Analysis.label \in {"Watch", "Advance", "Invest Candidate"}
          BY <3>1, <4>1, DecidedLabel
        <5>3. QED BY <5>1, <5>2 DEF NoBetter
      <4>3. CASE ~Waits'
        <5>1. ~Waits
          <6>1. ASSUME Waits PROVE Waits' \/ CompanyQuality' = "fail"
            BY <1>2, <3>2, <6>1, QualityWaits DEF Waits
          <6>2. QED BY <3>5, <4>3, <6>1 DEF Barred
        <5>2. ~(CompanyQuality = "pass" /\ PriceAttractiveness = "fail")
          BY <3>1, <3>2, <4>1, DecidedLabel
        <5>3. Analysis.label = IF Earns THEN "Invest Candidate" ELSE "Advance"
          BY <1>4, <3>1, <4>1, <5>1, <5>2 DEF LabelFollows
        <5>4. Analysis'.label = "Invest Candidate" => Earns
          BY <1>3, <2>2, EarnedBeforeLoss DEF LabelFollows
        <5>5. Analysis'.label \in {"unavailable", "error", "Pass", "Watch", "Advance", "Invest Candidate"}
          BY <1>3 DEF LabelFollows
        <5>6. QED BY <5>3, <5>4, <5>5 DEF NoBetter
      <4>4. QED BY <4>2, <4>3
    <3>6. QED BY <3>4, <3>5
  <2>3. QED BY <2>1, <2>2
<1>6. Analysis.label \in {"unavailable", "error", "Pass", "Watch", "Advance", "Invest Candidate"}
  BY <1>4 DEF LabelFollows
<1>7. QED BY <1>5, <1>6, NoBetterRanks

LEMMA LossEarnsNothing ==
    ASSUME DecisionInv, Loss, Analysis'.label = "Invest Candidate"
    PROVE  Analysis.label = "Invest Candidate"
<1>1. InputsOK
  BY DEF DecisionInv, DecisionTypeOK, InputsOK
<1>2. Weakened
  BY <1>1, LossWeakens
<1>3. LabelFollows'
  BY LabelIs, PTL
<1>4. Decided' /\ Earns'
  BY <1>3 DEF LabelFollows
<1>5. Decided /\ Earns
  BY <1>2, <1>4, DecidedBefore, EarnedBeforeLoss
<1>6. ~Barred /\ ~Waits /\ PriceAttractiveness # "fail"
  BY <1>5 DEF Earns, Waits
<1>7. QED BY <1>5, <1>6, LabelIs DEF LabelFollows

-----------------------------------------------------------------------------
(* The ids of facts, through every change of an input. *)

LEMMA IdsChange ==
    ASSUME InputsOK, IdsDiffer, edits \in Nat, edits' = edits + 1,
           NEW field \in Fields, NEW fs, facts' = [facts EXCEPT ![field] = fs],
           \A f, g \in fs : f.id = g.id => f = g,
           \A f \in fs : f.id <= edits + 1 /\ -f.id <= edits + 1
    PROVE  IdsDiffer'
<1>1. facts'[field] = fs /\ \A g \in Fields \ {field} : facts'[g] = facts[g]
  BY DEF InputsOK
<1>2. ASSUME NEW g \in Fields
      PROVE  /\ \A f, h \in facts'[g] : f.id = h.id => f = h
             /\ \A f \in facts'[g] : f.id <= edits' /\ -f.id <= edits'
  <2>1. CASE g = field
    BY <1>1, <2>1
  <2>2. CASE g # field
    <3>1. facts'[g] = facts[g]
      BY <1>1, <2>2
    <3>2. \A f \in facts[g] : f.id \in Int /\ f.id <= edits /\ -f.id <= edits
      <4>1. \A f \in facts[g] : f.id \in -MaxEdits..MaxEdits
        BY DEF InputsOK, FactsOf
      <4>2. MaxEdits \in Nat
        BY DecisionAssumption
      <4>3. QED BY <4>1, <4>2 DEF IdsDiffer
    <3>3. \A f \in facts[g] : f.id <= edits' /\ -f.id <= edits'
      BY <3>2
    <3>4. QED BY <3>1, <3>3 DEF IdsDiffer
  <2>3. QED BY <2>1, <2>2
<1>3. QED BY <1>2 DEF IdsDiffer

LEMMA IdsBelow ==
    ASSUME InputsOK, IdsDiffer, edits \in Nat, NEW field \in Fields
    PROVE  \A f \in facts[field] : /\ f.id \in Int
                                   /\ f.id <= edits + 1 /\ -f.id <= edits + 1
                                   /\ f.id # edits + 1 /\ f.id # -edits - 1
<1>1. \A f \in facts[field] : f.id \in -MaxEdits..MaxEdits
  BY DEF InputsOK, FactsOf
<1>2. MaxEdits \in Nat
  BY DecisionAssumption
<1>3. \A f \in facts[field] : f.id \in Int /\ f.id <= edits /\ -f.id <= edits
  BY <1>1, <1>2 DEF IdsDiffer
<1>4. QED BY <1>3

LEMMA ToldIdsDiffer ==
    ASSUME InputsOK, IdsDiffer, edits \in Nat, edits' = edits + 1,
           NEW field \in Fields, NEW id \in {edits + 1, -edits - 1}, NEW value, NEW accepted,
           Tell(id, field, value, accepted)
    PROVE  IdsDiffer'
<1> DEFINE told == Fact(id, value, accepted)
           fs == facts[field] \cup {told}
<1>1. facts' = [facts EXCEPT ![field] = fs]
  BY DEF Tell
<1>2. told.id = id
  BY DEF Fact
<1>3. \A f \in facts[field] : f.id \in Int /\ f.id <= edits + 1 /\ -f.id <= edits + 1 /\ f.id # id
  BY IdsBelow
<1>4. id \in Int /\ id <= edits + 1 /\ -id <= edits + 1
  OBVIOUS
<1> HIDE DEF told
<1>5. \A f, g \in fs : f.id = g.id => f = g
  BY <1>2, <1>3 DEF IdsDiffer
<1>6. \A f \in fs : f.id <= edits + 1 /\ -f.id <= edits + 1
  BY <1>2, <1>3, <1>4
<1> HIDE DEF fs
<1>7. QED BY <1>1, <1>5, <1>6, IdsChange

LEMMA IdsStep ==
    ASSUME DecisionInv, DecisionNext
    PROVE  IdsDiffer'
<1>1. InputsOK /\ IdsDiffer /\ edits \in Nat /\ edits' = edits + 1
  BY DecisionAssumption DEF DecisionInv, DecisionTypeOK, InputsOK, DecisionNext
<1>2. ASSUME NEW field \in Fields, NEW f \in facts[field], Withdraw(field, f) PROVE IdsDiffer'
  <2> DEFINE fs == facts[field] \ {f}
  <2>1. facts' = [facts EXCEPT ![field] = fs]
    BY <1>2 DEF Withdraw
  <2>2. \A g, h \in fs : g.id = h.id => g = h
    BY <1>1 DEF IdsDiffer
  <2>3. \A g \in fs : g.id <= edits + 1 /\ -g.id <= edits + 1
    BY <1>1, IdsBelow
  <2> HIDE DEF fs
  <2>4. QED BY <1>1, <2>1, <2>2, <2>3, IdsChange
<1>3. ASSUME NEW field \in Fields, NEW f \in facts[field], Outdate(field, f) PROVE IdsDiffer'
  <2> DEFINE old == [f EXCEPT !.current = FALSE]
             fs == (facts[field] \ {f}) \cup {old}
  <2>1. facts' = [facts EXCEPT ![field] = fs]
    BY <1>3 DEF Outdate
  <2>2. old.id = f.id
    BY <1>1 DEF InputsOK, FactsOf
  <2> HIDE DEF old
  <2>3. \A g, h \in facts[field] : g.id = h.id => g = h
    BY <1>1 DEF IdsDiffer
  <2>4. \A g, h \in fs : g.id = h.id => g = h
    BY <2>2, <2>3
  <2>5. \A g \in fs : g.id <= edits + 1 /\ -g.id <= edits + 1
    BY <1>1, <2>2, IdsBelow
  <2> HIDE DEF fs
  <2>6. QED BY <1>1, <2>1, <2>4, <2>5, IdsChange
<1>4. ASSUME NEW field \in Fields, NEW value, NEW accepted, NEW id \in {edits + 1, -edits - 1},
             Tell(id, field, value, accepted)
      PROVE  IdsDiffer'
  BY <1>1, <1>4, ToldIdsDiffer
<1>5. ASSUME NEW field \in Fields, NEW value, Restate(field, value) PROVE IdsDiffer'
  <2> DEFINE fs == {Fact(0, value, TRUE)}
  <2>1. facts' = [facts EXCEPT ![field] = fs]
    BY <1>5 DEF Restate
  <2>2. Fact(0, value, TRUE).id = 0
    BY DEF Fact
  <2>3. \A g, h \in fs : g.id = h.id => g = h
    OBVIOUS
  <2>4. \A g \in fs : g.id <= edits + 1 /\ -g.id <= edits + 1
    <3>1. 0 <= edits + 1 /\ -0 <= edits + 1
      BY <1>1
    <3>2. \A g \in fs : g.id = 0
      BY <2>2
    <3>3. QED BY <3>1, <3>2
  <2> HIDE DEF fs
  <2>5. QED BY <1>1, <2>1, <2>3, <2>4, IdsChange
<1>6. ASSUME UNCHANGED facts PROVE IdsDiffer'
  <2>1. \A field \in Fields : \A f \in facts[field] : f.id <= edits' /\ -f.id <= edits'
    BY <1>1, IdsBelow
  <2>2. QED BY <1>1, <1>6, <2>1 DEF IdsDiffer
<1>7. CASE Loss
  <2>1. ASSUME NEW card, NEW conclusion, Judge(card, conclusion) PROVE IdsDiffer'
    BY <1>6, <2>1 DEF Judge
  <2>2. CASE SpecialistObjects \/ Retire
    BY <1>6, <2>2 DEF SpecialistObjects, Retire
  <2>3. ASSUME NEW p, Activate(p) PROVE IdsDiffer'
    BY <1>6, <2>3 DEF Activate
  <2>4. ASSUME NEW field \in Fields, NEW value, Tell(edits + 1, field, value, FALSE) PROVE IdsDiffer'
    BY <1>4, <2>4
  <2>5. QED BY <1>2, <1>3, <1>7, <2>1, <2>2, <2>3, <2>4 DEF Loss
<1>8. CASE OtherChange
  <2>1. ASSUME NEW card, NEW conclusion, Judge(card, conclusion) PROVE IdsDiffer'
    BY <1>6, <2>1 DEF Judge
  <2>2. ASSUME NEW p, Activate(p) PROVE IdsDiffer'
    BY <1>6, <2>2 DEF Activate
  <2>3. QED BY <1>4, <1>5, <1>8, <2>1, <2>2 DEF OtherChange
<1>9. QED BY <1>7, <1>8 DEF DecisionNext

LEMMA DecisionInvInit == DecisionInit => DecisionInv
<1> SUFFICES ASSUME DecisionInit PROVE DecisionInv
  OBVIOUS
<1>1. PICK ask : facts = [field \in Fields |-> {Fact(0, [First EXCEPT !.reported_valuation = ask][field], TRUE)}]
  BY DEF DecisionInit
<1>2. edits = 0
  BY DEF DecisionInit
<1>3. \A field \in Fields : \A f \in facts[field] : f.id = 0
  BY <1>1 DEF Fact
<1>4. \A field \in Fields : \A f, g \in facts[field] : f = g
  BY <1>1
<1>5. IdsDiffer
  BY <1>2, <1>3, <1>4 DEF IdsDiffer
<1>6. QED BY <1>5, DecisionInitTypes DEF DecisionInv

\* However the inputs came to be what they are, taking evidence, agreement, support or
\* consent away never makes an Invest Candidate, and raises a lower label only where the
\* price failed, the ownership was too small, or an abstention hides what the judgments
\* object to.
THEOREM LossNeverLiftsHolds == DecisionSpec => LossNeverLifts
<1>1. DecisionInv /\ [DecisionNext]_decisionVars => DecisionInv'
  <2>1. ASSUME DecisionInv, UNCHANGED decisionVars PROVE DecisionInv'
    <3>1. InputsOK /\ InputsOK'
      BY <2>1 DEF decisionVars, DecisionInv, DecisionTypeOK, InputsOK
    <3>2. Analysis' = Analysis
      BY <2>1, AnalysisStays
    <3>3. DecisionTypeOK'
      BY <2>1, <3>1, <3>2 DEF decisionVars, DecisionInv, DecisionTypeOK, InputsOK
    <3>4. IdsDiffer'
      BY <2>1 DEF decisionVars, DecisionInv, IdsDiffer
    <3>5. QED BY <3>3, <3>4 DEF DecisionInv
  <2>2. ASSUME DecisionInv, DecisionNext PROVE DecisionInv'
    BY <2>2, DecisionNextKeeps, IdsStep DEF DecisionInv
  <2>3. QED BY <2>1, <2>2
<1>2. DecisionInv /\ [DecisionNext]_decisionVars =>
        [lost' /\ Rank[result'.label] > Rank[result.label] =>
            /\ result'.label # "Invest Candidate"
            /\ \/ result.price = "fail" /\ result.label = "Watch"
               \/ result.ownershipVeto
               \/ result.company \in {"fail", "mixed"} /\ result'.company = "unavailable"]_decisionVars
  <2> SUFFICES ASSUME DecisionInv, DecisionNext, lost', Rank[result'.label] > Rank[result.label]
               PROVE  /\ result'.label # "Invest Candidate"
                      /\ \/ result.price = "fail" /\ result.label = "Watch"
                         \/ result.ownershipVeto
                         \/ result.company \in {"fail", "mixed"} /\ result'.company = "unavailable"
    OBVIOUS
  <2>1. Loss
    BY DEF DecisionNext
  <2>2. result = Analysis /\ result' = Analysis'
    BY DEF DecisionInv, DecisionTypeOK, DecisionNext
  <2>3. Rank[Analysis.label] \in {0, 1, 2, 3, 4} /\ (Rank[Analysis.label] \in {0, 1, 2, 3, 4})'
    <3>1. LabelFollows /\ LabelFollows'
      BY LabelIs, PTL
    <3>2. QED BY <3>1, RankIs, Zenon DEF LabelFollows
  <2>4. ~(Rank[Analysis'.label] <= Rank[Analysis.label])
    BY <2>2, <2>3
  <2>5. Unread
    BY <2>1, <2>4, LossLowers
  <2>6. Analysis'.label # "Invest Candidate"
    <3>1. SUFFICES ASSUME Analysis'.label = "Invest Candidate" PROVE FALSE
      OBVIOUS
    <3>2. Analysis.label = "Invest Candidate"
      BY <2>1, <3>1, LossEarnsNothing
    <3>3. Rank[Analysis'.label] = 4 /\ Rank[Analysis.label] = 4
      BY <3>1, <3>2, RanksAre
    <3>4. QED BY <2>4, <3>3
  <2>7. QED BY <2>2, <2>5, <2>6 DEF Unread
<1>3. QED BY DecisionInvInit, <1>1, <1>2, PTL DEF DecisionSpec, LossNeverLifts

-----------------------------------------------------------------------------
(* The market scan: sequences built one element at a time, by the smallest *)
(* index that is an exception.                                             *)

\* If something holds at no index, it holds at none up to the first.
LEMMA FirstExists ==
    ASSUME NEW n \in Nat, NEW Bad \in SUBSET (0..n), Bad # {}
    PROVE  \E k \in Bad : \A l \in 0..n : l < k => l \notin Bad
<1>1. Bad \in SUBSET Nat
  OBVIOUS
<1>2. PICK k \in Bad : \A l \in Bad : k <= l
  BY <1>1, LeastExists
<1>3. ASSUME NEW l \in 0..n, l < k, l \in Bad PROVE FALSE
  BY <1>2, <1>3
<1>4. QED BY <1>3

\* FlattenSeq of sequences over a set is one over that set.
LEMMA FlattenIs ==
    ASSUME NEW S, NEW n \in Nat, NEW parts, parts = [i \in 1..n |-> parts[i]], \A i \in 1..n : parts[i] \in Seq(S)
    PROVE  FlattenSeq(parts) \in Seq(S)
<1> DEFINE Flat(g, k) == g = [i \in 1..k |-> IF i = 1 THEN parts[i] ELSE g[i-1] \o parts[i]]
<1> DEFINE Bad == {k \in 0..n : ~\E g : Flat(g, k)}
<1>1. Bad = {}
  <2>1. SUFFICES ASSUME Bad # {} PROVE FALSE
    OBVIOUS
  <2>2. PICK k \in Bad : \A l \in 0..n : l < k => l \notin Bad
    <3>1. Bad \in SUBSET (0..n)
      OBVIOUS
    <3> HIDE DEF Bad
    <3>2. QED BY <2>1, <3>1, FirstExists
  <2>3. k # 0
    <3>1. Flat([i \in 1..0 |-> 0], 0)
      OBVIOUS
    <3>2. QED BY <3>1
  <2>4. k-1 \in 0..n /\ k-1 < k /\ k \in 1..n
    BY <2>2, <2>3
  <2>5. PICK g : Flat(g, k-1)
    BY <2>2, <2>4
  <2> DEFINE h == [i \in 1..k |-> IF i = k THEN (IF i = 1 THEN parts[i] ELSE g[i-1] \o parts[i]) ELSE g[i]]
  <2>6. ASSUME NEW i \in 1..k PROVE h[i] = IF i = 1 THEN parts[i] ELSE h[i-1] \o parts[i]
    <3>1. CASE i = k
      BY <3>1, <2>4
    <3>2. CASE i # k
      <4>1. i \in 1..(k-1) /\ (i # 1 => i-1 \in 1..(k-1) /\ i-1 # k)
        BY <3>2, <2>4
      <4>2. g[i] = IF i = 1 THEN parts[i] ELSE g[i-1] \o parts[i]
        BY <2>5, <4>1
      <4>3. h[i] = g[i] /\ (i # 1 => h[i-1] = g[i-1])
        BY <3>2, <4>1, <2>4
      <4>4. QED BY <4>2, <4>3
    <3>3. QED BY <3>1, <3>2
  <2>7. Flat(h, k)
    <3>1. h = [i \in 1..k |-> h[i]]
      OBVIOUS
    <3> HIDE DEF h
    <3>2. QED BY <2>6, <3>1
  <2>8. QED BY <2>2, <2>7
<1> DEFINE flatten[i \in 1..n] == IF i = 1 THEN parts[i] ELSE flatten[i-1] \o parts[i]
<1>2. Flat(flatten, n)
  <2>1. \E g : Flat(g, n)
    <3> HIDE DEF Flat
    <3>1. QED BY <1>1
  <2>2. QED BY <2>1
<1>3. Len(parts) = n
  OBVIOUS
<1>4. FlattenSeq(parts) = IF n = 0 THEN parts ELSE flatten[n]
  BY <1>3 DEF FlattenSeq
<1>5. ASSUME n # 0 PROVE flatten[n] \in Seq(S)
  <2> HIDE DEF flatten
  <2> DEFINE Off == {k \in 0..n : k # 0 /\ flatten[k] \notin Seq(S)}
  <2>1. SUFFICES ASSUME Off # {} PROVE FALSE
    BY <1>5
  <2>2. PICK k \in Off : \A l \in 0..n : l < k => l \notin Off
    <3>1. Off \in SUBSET (0..n)
      OBVIOUS
    <3> HIDE DEF Off
    <3>2. QED BY <2>1, <3>1, FirstExists
  <2>3. k \in 1..n /\ flatten[k] \notin Seq(S)
    BY <2>2
  <2>4. flatten[k] = IF k = 1 THEN parts[k] ELSE flatten[k-1] \o parts[k]
    BY <1>2, <2>3
  <2>5. CASE k = 1
    BY <2>3, <2>4, <2>5
  <2>6. CASE k # 1
    <3>1. k-1 \in 0..n /\ k-1 < k /\ k-1 # 0
      BY <2>3, <2>6
    <3>2. flatten[k-1] \in Seq(S)
      BY <2>2, <3>1
    <3>3. flatten[k-1] \o parts[k] \in Seq(S)
      BY <2>3, <3>2
    <3>4. QED BY <2>3, <2>4, <2>6, <3>3
  <2>7. QED BY <2>5, <2>6
<1>6. n = 0 => parts \in Seq(S)
  OBVIOUS
<1>7. QED BY <1>4, <1>5, <1>6

LEMMA MaxOf ==
    ASSUME NEW n \in Nat, NEW s \in SUBSET (1..n), s # {}
    PROVE  Max(s) \in s /\ \A x \in s : Max(s) >= x
<1> DEFINE Bad == {k \in 0..n : \E x \in s : x = n - k}
<1>1. Bad # {}
  <2>1. PICK x \in s : TRUE
    OBVIOUS
  <2>2. n - x \in 0..n /\ x = n - (n - x)
    OBVIOUS
  <2>3. QED BY <2>2
<1>2. PICK k \in Bad : \A l \in 0..n : l < k => l \notin Bad
  <2>1. Bad \in SUBSET (0..n)
    OBVIOUS
  <2> HIDE DEF Bad
  <2>2. QED BY <1>1, <2>1, FirstExists
<1>3. n - k \in s
  BY <1>2
<1>4. ASSUME NEW x \in s PROVE n - k >= x
  <2>1. n - x \in 0..n /\ x = n - (n - x) /\ k \in 0..n /\ x \in 0..n
    BY <1>2
  <2>2. n - x \in Bad
    BY <2>1
  <2>3. ~(n - x < k)
    BY <1>2, <2>1, <2>2
  <2>4. QED BY <2>1, <2>3
<1>5. \E m \in s : \A x \in s : m >= x
  BY <1>3, <1>4
<1>6. QED BY <1>5 DEF Max

LEMMA FirstOnes ==
    ASSUME NEW n \in Nat, NEW k \in 1..n
    PROVE  1..k \in SUBSET (1..n) /\ 1..k # {} /\ k \in 0..n /\ k-1 \in 0..n
<1>1. k \in 1..k /\ \A i \in 1..k : i \in 1..n
  OBVIOUS
<1>2. k \in 0..n /\ k-1 \in 0..n
  OBVIOUS
<1>3. 1..k # {}
  BY <1>1
<1>4. QED BY <1>1, <1>2, <1>3

LEMMA MaxOfFirst ==
    ASSUME NEW k \in Nat \ {0}
    PROVE  Max(1..k) = k /\ (1..k) \ {k} = 1..(k-1)
<1>1. k \in 1..k /\ k \in Nat /\ 1..k # {} /\ 1..k \in SUBSET (1..k)
  OBVIOUS
<1>2. Max(1..k) \in 1..k /\ \A x \in 1..k : Max(1..k) >= x
  BY <1>1, MaxOf
<1>3. Max(1..k) \in 1..k /\ Max(1..k) >= k
  BY <1>1, <1>2
<1>4. QED BY <1>3

\* Dedupe's step.
Joined(merged, e) ==
    LET at == SelectInSeq(merged, LAMBDA m : EventsMatch(m, e))
    IN IF at = 0 THEN Append(merged, e) ELSE [merged EXCEPT ![at] = MergeEvents(@, e)]

\* What the first k events are merged into.
IsMerged(g, events) ==
    /\ g[0] = <<>>
    /\ \A k \in 1..Len(events) : g[k] = Joined(g[k-1], events[k])

LEMMA DedupeIs ==
    ASSUME NEW S, NEW events \in Seq(S)
    PROVE  \E g : IsMerged(g, events) /\ Dedupe(events) = g[Len(events)]
<1> DEFINE n == Len(events)
<1> DEFINE Fold(h, k) ==
    h = [s \in SUBSET (1..k) |-> IF s = {} THEN <<>> ELSE Joined(h[s \ {Max(s)}], events[Max(s)])]
<1> DEFINE Bad == {k \in 0..n : ~\E h : Fold(h, k)}
<1>1. n \in Nat
  OBVIOUS
<1>2. Bad = {}
  <2> HIDE DEF n
  <2>1. SUFFICES ASSUME Bad # {} PROVE FALSE
    OBVIOUS
  <2>2. PICK k \in Bad : \A l \in 0..n : l < k => l \notin Bad
    <3>1. Bad \in SUBSET (0..n)
      OBVIOUS
    <3> HIDE DEF Bad
    <3>2. QED BY <1>1, <2>1, <3>1, FirstExists
  <2>3. k # 0
    <3> DEFINE h == [s \in SUBSET (1..0) |-> <<>>]
    <3>1. \A s \in SUBSET (1..0) : s = {}
      OBVIOUS
    <3>2. Fold(h, 0)
      BY <3>1
    <3>3. QED BY <3>2
  <2>4. k-1 \in 0..n /\ k-1 < k /\ k \in 1..n /\ k \in Nat
    BY <1>1, <2>2, <2>3
  <2>5. PICK g : Fold(g, k-1)
    <3> HIDE DEF Fold
    <3>1. QED BY <2>2, <2>4
  <2>6. \A s \in SUBSET (1..(k-1)) : g[s] = IF s = {} THEN <<>> ELSE Joined(g[s \ {Max(s)}], events[Max(s)])
    BY <2>5
  <2> DEFINE h == [s \in SUBSET (1..k) |-> IF k \in s THEN Joined(g[s \ {k}], events[k]) ELSE g[s]]
  <2>7. ASSUME NEW s \in SUBSET (1..k)
        PROVE  h[s] = IF s = {} THEN <<>> ELSE Joined(h[s \ {Max(s)}], events[Max(s)])
    <3>1. s # {} => Max(s) \in s /\ \A x \in s : Max(s) >= x
      BY <2>4, MaxOf
    <3>2. CASE k \in s
      <4>1. Max(s) = k
        <5>1. Max(s) \in 1..k /\ Max(s) >= k
          BY <3>1, <3>2
        <5>2. QED BY <5>1, <2>4
      <4>2. s \ {k} \in SUBSET (1..k) /\ k \notin s \ {k}
        OBVIOUS
      <4>3. h[s] = Joined(g[s \ {k}], events[k]) /\ h[s \ {k}] = g[s \ {k}]
        BY <3>2, <4>2
      <4> HIDE DEF h
      <4>4. QED BY <3>2, <4>1, <4>3
    <3>3. CASE k \notin s
      <4>1. s \in SUBSET (1..(k-1))
        BY <3>3, <2>4
      <4>2. h[s] = g[s] /\ h[s \ {Max(s)}] = g[s \ {Max(s)}]
        BY <3>3
      <4> HIDE DEF h
      <4>3. QED BY <2>6, <4>1, <4>2
    <3>4. QED BY <3>2, <3>3
  <2>8. Fold(h, k)
    <3>1. h = [s \in SUBSET (1..k) |-> h[s]]
      OBVIOUS
    <3> HIDE DEF h
    <3>2. QED BY <2>7, <3>1
  <2>9. QED BY <2>2, <2>8
<1> DEFINE iter[s \in SUBSET (1..n)] == IF s = {} THEN <<>> ELSE Joined(iter[s \ {Max(s)}], events[Max(s)])
<1>3. Fold(iter, n)
  <2>1. \E h : Fold(h, n)
    <3> HIDE DEF Fold
    <3>1. QED BY <1>1, <1>2
  <2>2. QED BY <2>1
<1>4. Dedupe(events) = iter[1..n]
  <2>1. DOMAIN events = 1..n
    OBVIOUS
  <2>2. QED BY <2>1 DEF Dedupe, FoldLeft, MapThenFoldSet, Joined
<1> DEFINE g == [k \in 0..n |-> iter[1..k]]
<1>5. g[0] = <<>> /\ g[n] = iter[1..n]
  <2>1. 1..0 = {} /\ {} \in SUBSET (1..n) /\ 0 \in 0..n /\ n \in 0..n
    BY <1>1
  <2>2. iter[{}] = <<>>
    BY <1>3, <2>1
  <2> HIDE DEF iter, n
  <2>3. QED BY <2>1, <2>2
<1>6. ASSUME NEW k \in 1..n PROVE g[k] = Joined(g[k-1], events[k])
  <2>1. k \in Nat \ {0} /\ k <= n
    BY <1>1
  <2>2. 1..k \in SUBSET (1..n) /\ 1..k # {} /\ k \in 0..n /\ k-1 \in 0..n
    BY <1>1, <1>6, FirstOnes
  <2>3. Max(1..k) = k /\ (1..k) \ {k} = 1..(k-1)
    BY <2>1, MaxOfFirst
  <2>4. iter[1..k] = Joined(iter[(1..k) \ {Max(1..k)}], events[Max(1..k)])
    BY <1>3, <2>2
  <2> HIDE DEF iter, n
  <2>5. QED BY <2>2, <2>3, <2>4
<1>7. IsMerged(g, events)
  <2> HIDE DEF g
  <2>1. QED BY <1>5, <1>6 DEF IsMerged
<1>8. QED BY <1>4, <1>5, <1>7

URLs == {item.url : item \in Items}
Texts == {item.text : item \in Items}
SourceIds == [provider : ToSet(Providers), url : URLs, externalId : {item.externalId : item \in Items}]
Source == [id : SourceIds, text : Texts]

\* The sources of an event have different ids; an event just reported has one source.
MarketEvent == {e \in [url : URLs, text : Texts, confident : BOOLEAN, sources : SUBSET Source] :
    IsFiniteSet(e.sources) /\ \A s, t \in e.sources : s.id = t.id => s = t}
ReportedEvent == {e \in MarketEvent : \E s : e.sources = {s}}

\* e is worded as x, and has the sources x has.
Words(x, e) == x.url = e.url /\ x.text = e.text /\ IdsOf(x) \subseteq IdsOf(e)
Apart(x, e) == IdsOf(x) \cap IdsOf(e) = {}

Providing == 1..Len(Providers)
AnswerSet == [state : {"waiting", "succeeded", "failed"}, items : Seq(Items)]

LEMMA EventIs ==
    ASSUME NEW p \in ToSet(Providers), NEW item \in Items
    PROVE  Event(p, item) \in ReportedEvent
<1> DEFINE s == [id |-> SourceId(p, item), text |-> item.text]
           e == Event(p, item)
<1>1. s \in Source /\ item.url \in URLs /\ item.text \in Texts /\ item.confident \in BOOLEAN
  BY MarketAssumption DEF Source, SourceIds, SourceId, URLs, Texts
<1>2. e = [url |-> item.url, text |-> item.text, confident |-> item.confident, sources |-> {s}]
  BY DEF Event
<1>3. IsFiniteSet({s})
  BY FS_Singleton
<1> HIDE DEF s, e
<1>4. e \in [url : URLs, text : Texts, confident : BOOLEAN, sources : SUBSET Source]
  BY <1>1, <1>2
<1>5. e.sources = {s}
  BY <1>2
<1>6. e \in ReportedEvent
  BY <1>3, <1>4, <1>5 DEF MarketEvent, ReportedEvent
<1>7. QED BY <1>6 DEF e

LEMMA MergedSourcesAre ==
    ASSUME NEW l \in MarketEvent, NEW r \in MarketEvent
    PROVE  LET ss == MergedSources(l, r)
           IN /\ ss \in SUBSET Source /\ IsFiniteSet(ss)
              /\ \A s, t \in ss : s.id = t.id => s = t
              /\ l.sources \subseteq ss /\ ss \subseteq l.sources \cup r.sources
              /\ {s.id : s \in ss} = IdsOf(l) \cup IdsOf(r)
              /\ Apart(l, r) => r.sources \subseteq ss
<1> DEFINE new == {s \in r.sources : \A t \in l.sources : t.id # s.id}
           ss == MergedSources(l, r)
<1>1. ss = l.sources \cup new
  BY DEF MergedSources
<1>2. /\ l.sources \subseteq Source /\ r.sources \subseteq Source
      /\ IsFiniteSet(l.sources) /\ IsFiniteSet(r.sources)
      /\ \A s, t \in l.sources : s.id = t.id => s = t
      /\ \A s, t \in r.sources : s.id = t.id => s = t
  BY DEF MarketEvent
<1>3. new \subseteq r.sources /\ \A s \in new, t \in l.sources : t.id # s.id
  OBVIOUS
<1>4. \A s \in r.sources : s \in new \/ \E t \in l.sources : t.id = s.id
  OBVIOUS
<1> HIDE DEF new, ss
<1>5. IsFiniteSet(ss)
  BY <1>1, <1>2, <1>3, FS_Subset, FS_Union
<1>6. \A s, t \in ss : s.id = t.id => s = t
  BY <1>1, <1>2, <1>3
<1>7. {s.id : s \in ss} = IdsOf(l) \cup IdsOf(r)
  BY <1>1, <1>3, <1>4 DEF IdsOf
<1>8. Apart(l, r) => r.sources \subseteq ss
  BY <1>1, <1>4 DEF Apart, IdsOf
<1>9. QED BY <1>1, <1>2, <1>3, <1>5, <1>6, <1>7, <1>8 DEF ss

LEMMA MergeIs ==
    ASSUME NEW l \in MarketEvent, NEW r \in MarketEvent
    PROVE  /\ MergeEvents(l, r) \in MarketEvent
           /\ l.sources \subseteq MergeEvents(l, r).sources
           /\ IdsOf(MergeEvents(l, r)) = IdsOf(l) \cup IdsOf(r)
           /\ Apart(l, r) => r.sources \subseteq MergeEvents(l, r).sources
           /\ Words(l, MergeEvents(l, r)) \/ Words(r, MergeEvents(l, r))
<1> DEFINE best == Preferred(l, r)
           ss == MergedSources(l, r)
           m == MergeEvents(l, r)
<1>1. best \in {l, r} /\ best \in MarketEvent
  BY DEF Preferred
<1>2. m = [best EXCEPT !.sources = ss]
  BY DEF MergeEvents
<1>3. /\ ss \in SUBSET Source /\ IsFiniteSet(ss)
      /\ \A s, t \in ss : s.id = t.id => s = t
      /\ l.sources \subseteq ss
      /\ {s.id : s \in ss} = IdsOf(l) \cup IdsOf(r)
      /\ Apart(l, r) => r.sources \subseteq ss
  BY MergedSourcesAre
<1> HIDE DEF best, ss, m
<1>4. best \in [url : URLs, text : Texts, confident : BOOLEAN, sources : SUBSET Source]
  BY <1>1 DEF MarketEvent
<1>5. /\ m \in [url : URLs, text : Texts, confident : BOOLEAN, sources : SUBSET Source]
      /\ m.url = best.url /\ m.text = best.text /\ m.sources = ss
  BY <1>2, <1>3, <1>4
<1>6. m \in MarketEvent
  BY <1>3, <1>5 DEF MarketEvent
<1>7. IdsOf(m) = IdsOf(l) \cup IdsOf(r)
  BY <1>3, <1>5 DEF IdsOf
<1>8. Words(l, m) \/ Words(r, m)
  BY <1>1, <1>5, <1>7 DEF Words
<1>9. QED BY <1>3, <1>5, <1>6, <1>7, <1>8 DEF m

LEMMA JoinedIs ==
    ASSUME NEW merged \in Seq(MarketEvent), NEW e \in MarketEvent
    PROVE  LET j == Joined(merged, e)
           IN /\ j \in Seq(MarketEvent) /\ Len(j) >= Len(merged)
              /\ \A i \in 1..Len(merged) : merged[i].sources \subseteq j[i].sources
              /\ (\A i \in 1..Len(merged) : Apart(merged[i], e)) =>
                    \E i \in 1..Len(j) : e.sources \subseteq j[i].sources
              /\ \A i \in 1..Len(j) :
                    /\ IdsOf(j[i]) \subseteq IdsOf(e) \cup UNION {IdsOf(merged[x]) : x \in 1..Len(merged)}
                    /\ Words(e, j[i]) \/ \E x \in 1..Len(merged) : Words(merged[x], j[i])
<1> DEFINE at == SelectInSeq(merged, LAMBDA m : EventsMatch(m, e))
           hits == {i \in 1..Len(merged) : EventsMatch(merged[i], e)}
           j == Joined(merged, e)
           before == UNION {IdsOf(merged[x]) : x \in 1..Len(merged)}
<1>1. at = IF hits # {} THEN Min(hits) ELSE 0
  BY DEF SelectInSeq
<1>2. at = 0 \/ at \in 1..Len(merged)
  <2>1. ASSUME hits # {} PROVE Min(hits) \in hits
    <3>1. hits \in SUBSET Nat
      OBVIOUS
    <3> HIDE DEF hits
    <3>2. PICK x \in hits : \A y \in hits : x <= y
      BY <2>1, <3>1, LeastExists
    <3>3. QED BY <3>2 DEF Min
  <2> HIDE DEF at
  <2>2. hits # {} => at \in hits
    BY <1>1, <2>1
  <2>3. QED BY <1>1, <2>2
<1>3. j = IF at = 0 THEN Append(merged, e) ELSE [merged EXCEPT ![at] = MergeEvents(@, e)]
  BY DEF Joined
<1>4. \A x \in 1..Len(merged) : IdsOf(merged[x]) \subseteq before
  OBVIOUS
<1> HIDE DEF at, hits, j, before
<1>5. Len(merged) \in Nat /\ \A x \in 1..Len(merged) : merged[x] \in MarketEvent
  OBVIOUS
<1>6. \A x : Words(x, x)
  BY DEF Words
<1>7. CASE at = 0
  <2>1. j = Append(merged, e)
    BY <1>3, <1>7
  <2>2. j \in Seq(MarketEvent) /\ Len(j) = Len(merged) + 1 /\ j[Len(merged) + 1] = e
    BY <2>1
  <2>3. \A i \in 1..Len(merged) : j[i] = merged[i]
    BY <2>1
  <2>4. Len(merged) + 1 \in 1..Len(j) /\ Len(j) >= Len(merged)
    BY <2>2, <1>5
  <2>5. \A i \in 1..Len(j) : i \in 1..Len(merged) \/ i = Len(merged) + 1
    BY <1>5, <2>2
  <2>6. ASSUME NEW i \in 1..Len(j)
        PROVE  /\ IdsOf(j[i]) \subseteq IdsOf(e) \cup before
               /\ Words(e, j[i]) \/ \E x \in 1..Len(merged) : Words(merged[x], j[i])
    <3>1. CASE i \in 1..Len(merged)
      BY <1>4, <1>6, <2>3, <3>1
    <3>2. CASE i = Len(merged) + 1
      BY <1>6, <2>2, <3>2
    <3>3. QED BY <2>5, <3>1, <3>2
  <2>7. e.sources \subseteq j[Len(merged) + 1].sources
    BY <2>2
  <2>8. QED BY <2>2, <2>3, <2>4, <2>6, <2>7 DEF j, before
<1>8. CASE at # 0
  <2> DEFINE m == MergeEvents(merged[at], e)
  <2>1. at \in 1..Len(merged) /\ j = [merged EXCEPT ![at] = m]
    BY <1>2, <1>3, <1>8
  <2>2. merged[at] \in MarketEvent
    BY <1>5, <2>1
  <2>3. /\ m \in MarketEvent /\ merged[at].sources \subseteq m.sources
        /\ IdsOf(m) = IdsOf(merged[at]) \cup IdsOf(e)
        /\ Apart(merged[at], e) => e.sources \subseteq m.sources
        /\ Words(merged[at], m) \/ Words(e, m)
    BY <2>2, MergeIs
  <2> HIDE DEF m
  <2>4. j \in Seq(MarketEvent) /\ Len(j) = Len(merged)
    BY <2>1, <2>3
  <2>5. \A i \in 1..Len(merged) : j[i] = IF i = at THEN m ELSE merged[i]
    BY <2>1
  <2>6. \A i \in 1..Len(merged) : merged[i].sources \subseteq j[i].sources
    BY <2>3, <2>5
  <2>7. ASSUME \A i \in 1..Len(merged) : Apart(merged[i], e) PROVE e.sources \subseteq j[at].sources
    BY <2>1, <2>3, <2>5, <2>7
  <2>8. ASSUME NEW i \in 1..Len(merged)
        PROVE  /\ IdsOf(j[i]) \subseteq IdsOf(e) \cup before
               /\ Words(e, j[i]) \/ \E x \in 1..Len(merged) : Words(merged[x], j[i])
    <3>1. CASE i = at
      BY <1>4, <2>1, <2>3, <2>5, <3>1
    <3>2. CASE i # at
      BY <1>4, <1>6, <2>5, <3>2
    <3>3. QED BY <3>1, <3>2
  <2>9. Len(j) >= Len(merged)
    BY <1>5, <2>4
  <2>10. QED BY <2>1, <2>4, <2>6, <2>7, <2>8, <2>9 DEF j, before
<1>9. QED BY <1>7, <1>8

\* Dedupe keeps each source as it was first reported, and its events are worded as
\* something reported for one of their own sources.
LEMMA DedupeKeeps ==
    ASSUME NEW events \in Seq(MarketEvent)
    PROVE  /\ Dedupe(events) \in Seq(MarketEvent)
           /\ \A i \in 1..Len(events) :
                 (\A h \in 1..(i-1) : Apart(events[h], events[i])) =>
                    \E j \in 1..Len(Dedupe(events)) : events[i].sources \subseteq Dedupe(events)[j].sources
           /\ \A j \in 1..Len(Dedupe(events)) : \E i \in 1..Len(events) : Words(events[i], Dedupe(events)[j])
<1> DEFINE n == Len(events)
<1>1. n \in Nat
  OBVIOUS
<1>2. PICK g : IsMerged(g, events) /\ Dedupe(events) = g[n]
  BY DedupeIs
<1> DEFINE Foremost(i) == \A h \in 1..(i-1) : Apart(events[h], events[i])
           Reported(k) == UNION {IdsOf(events[i]) : i \in 1..k}
           Keeps(k) ==
    /\ g[k] \in Seq(MarketEvent)
    /\ \A i \in 1..k : Foremost(i) => \E j \in 1..Len(g[k]) : events[i].sources \subseteq g[k][j].sources
    /\ \A j \in 1..Len(g[k]) : IdsOf(g[k][j]) \subseteq Reported(k) /\ \E i \in 1..k : Words(events[i], g[k][j])
<1> DEFINE Bad == {k \in 0..n : ~Keeps(k)}
<1>3. SUFFICES Bad = {}
  <2>1. Bad = {} => Keeps(n)
    <3> HIDE DEF Keeps
    <3>1. QED BY <1>1
  <2>2. QED BY <1>2, <2>1
<1>4. SUFFICES ASSUME Bad # {} PROVE FALSE
  OBVIOUS
<1>5. PICK k \in Bad : \A l \in 0..n : l < k => l \notin Bad
  <2>1. Bad \in SUBSET (0..n)
    OBVIOUS
  <2> HIDE DEF Bad, n
  <2>2. QED BY <1>1, <1>4, <2>1, FirstExists
<1>6. Keeps(0)
  <2>1. g[0] = <<>> /\ 1..0 = {}
    BY <1>2 DEF IsMerged
  <2>2. QED BY <2>1
<1>7. k \in 0..n /\ ~Keeps(k)
  <2> HIDE DEF Keeps
  <2>1. QED BY <1>5
<1>8. k \in 1..n /\ k-1 \in 0..n /\ k-1 < k
  <2>1. k # 0
    <3> HIDE DEF Keeps
    <3>1. QED BY <1>6, <1>7
  <2> HIDE DEF Keeps, Bad, n
  <2>2. QED BY <1>1, <1>7, <2>1
<1>9. Keeps(k-1)
  <2> HIDE DEF Keeps
  <2>1. QED BY <1>5, <1>8
<1>10. events[k] \in MarketEvent /\ g[k] = Joined(g[k-1], events[k])
  BY <1>2, <1>8 DEF IsMerged
<1> DEFINE m == g[k-1]
           j == Joined(m, events[k])
<1> HIDE DEF Foremost, Reported
<1>11. /\ m \in Seq(MarketEvent)
       /\ \A i \in 1..(k-1) : Foremost(i) => \E x \in 1..Len(m) : events[i].sources \subseteq m[x].sources
       /\ \A x \in 1..Len(m) : IdsOf(m[x]) \subseteq Reported(k-1) /\ \E i \in 1..(k-1) : Words(events[i], m[x])
  BY <1>9
<1>12. /\ j \in Seq(MarketEvent) /\ Len(j) >= Len(m)
       /\ \A i \in 1..Len(m) : m[i].sources \subseteq j[i].sources
       /\ (\A i \in 1..Len(m) : Apart(m[i], events[k])) => \E i \in 1..Len(j) : events[k].sources \subseteq j[i].sources
       /\ \A i \in 1..Len(j) :
             /\ IdsOf(j[i]) \subseteq IdsOf(events[k]) \cup UNION {IdsOf(m[x]) : x \in 1..Len(m)}
             /\ Words(events[k], j[i]) \/ \E x \in 1..Len(m) : Words(m[x], j[i])
  <2> HIDE DEF m
  <2>1. QED BY <1>10, <1>11, JoinedIs
<1>13. g[k] = j
  BY <1>10
<1>14. k \in 1..k /\ \A i \in 1..k : i = k \/ i \in 1..(k-1)
  BY <1>8
<1>15. 1..(k-1) \subseteq 1..k
  BY <1>8
<1>16. Reported(k-1) \subseteq Reported(k) /\ IdsOf(events[k]) \subseteq Reported(k)
  BY <1>14, <1>15 DEF Reported
<1> HIDE DEF j, m
<1>17. ASSUME NEW i \in 1..k, Foremost(i) PROVE \E x \in 1..Len(j) : events[i].sources \subseteq j[x].sources
  <2>1. CASE i = k
    <3>1. \A h \in 1..(k-1) : Apart(events[h], events[k])
      BY <1>17, <2>1 DEF Foremost
    <3>2. Reported(k-1) \cap IdsOf(events[k]) = {}
      BY <3>1 DEF Apart, Reported
    <3>3. \A x \in 1..Len(m) : Apart(m[x], events[k])
      BY <1>11, <3>2 DEF Apart
    <3>4. QED BY <1>12, <2>1, <3>3
  <2>2. CASE i # k
    <3>1. i \in 1..(k-1)
      BY <1>14, <2>2
    <3>2. PICK x \in 1..Len(m) : events[i].sources \subseteq m[x].sources
      BY <1>11, <1>17, <3>1
    <3>3. Len(m) \in Nat /\ Len(j) \in Nat
      BY <1>11, <1>12
    <3>4. x \in 1..Len(j)
      BY <1>12, <3>2, <3>3
    <3>5. QED BY <1>12, <3>2, <3>4
  <2>3. QED BY <2>1, <2>2
<1>18. ASSUME NEW x \in 1..Len(j)
       PROVE  IdsOf(j[x]) \subseteq Reported(k) /\ \E i \in 1..k : Words(events[i], j[x])
  <2>1. IdsOf(j[x]) \subseteq Reported(k)
    <3>1. UNION {IdsOf(m[y]) : y \in 1..Len(m)} \subseteq Reported(k)
      BY <1>11, <1>16
    <3>2. QED BY <1>12, <1>16, <3>1
  <2>2. CASE Words(events[k], j[x])
    BY <1>14, <2>1, <2>2
  <2>3. CASE \E y \in 1..Len(m) : Words(m[y], j[x])
    <3>1. PICK y \in 1..Len(m) : Words(m[y], j[x])
      BY <2>3
    <3>2. PICK i \in 1..(k-1) : Words(events[i], m[y])
      BY <1>11
    <3>3. Words(events[i], j[x])
      BY <3>1, <3>2 DEF Words
    <3>4. QED BY <1>15, <2>1, <3>3
  <2>4. QED BY <1>12, <2>2, <2>3
<1>19. Keeps(k)
  BY <1>12, <1>13, <1>17, <1>18
<1>20. QED BY <1>7, <1>19

Steps == {"market_scan", "save", "select", "analysis", "failed"}

\* The answers are complete and merged before anything is made of them, and rows with
\* one id are not saved.
MarketInv ==
    /\ answers \in [Providing -> AnswerSet]
    /\ step \in Steps
    /\ step # "market_scan" =>
          /\ \A i \in Providing : answers[i] # Waiting
          /\ market.events = Dedupe(AllAccepted)
    /\ step \in {"select", "analysis"} =>
          Cardinality({e.text : e \in ToSet(market.events)}) = Len(market.events)
    /\ step = "analysis" => chosen = {f \in Eligible : Cardinality({e \in Eligible : Before(e, f)}) < Slots}

LEMMA ProvidersAre ==
    Len(Providers) \in Nat /\ \A i \in Providing : Providers[i] \in ToSet(Providers)
<1>1. Providers \in Seq(ToSet(Providers))
  BY MarketAssumption
<1>2. QED BY <1>1 DEF Providing

LEMMA AcceptedIs ==
    ASSUME answers \in [Providing -> AnswerSet]
    PROVE  AllAccepted \in Seq(ReportedEvent)
<1> DEFINE eventsOf(i) == [n \in 1..Len(answers[i].items) |-> Event(Providers[i], answers[i].items[n])]
           parts == [i \in 1..Len(Providers) |-> eventsOf(i)]
<1>1. ASSUME NEW i \in Providing PROVE eventsOf(i) \in Seq(ReportedEvent)
  <2>1. answers[i] \in AnswerSet /\ answers[i].items \in Seq(Items)
    BY DEF AnswerSet
  <2>2. Providers[i] \in ToSet(Providers)
    BY ProvidersAre
  <2> DEFINE items == answers[i].items
  <2> HIDE DEF items
  <2>3. items \in Seq(Items)
    BY <2>1 DEF items
  <2>4. \A n \in 1..Len(items) : Event(Providers[i], items[n]) \in ReportedEvent
    BY <2>2, <2>3, EventIs
  <2>5. [n \in 1..Len(items) |-> Event(Providers[i], items[n])] \in Seq(ReportedEvent)
    BY <2>3, <2>4
  <2>6. QED BY <2>5 DEF items
<1>2. AllAccepted = FlattenSeq(parts)
  BY DEF AllAccepted
<1>3. parts = [i \in 1..Len(Providers) |-> parts[i]] /\ \A i \in 1..Len(Providers) : parts[i] \in Seq(ReportedEvent)
  BY <1>1 DEF Providing
<1>4. Len(Providers) \in Nat
  BY ProvidersAre
<1> HIDE DEF parts
<1>5. FlattenSeq(parts) \in Seq(ReportedEvent)
  BY <1>3, <1>4, FlattenIs
<1>6. QED BY <1>2, <1>5

LEMMA MarketInitSound == MarketInit => MarketInv
<1> SUFFICES ASSUME MarketInit PROVE MarketInv
  OBVIOUS
<1>1. Waiting \in AnswerSet
  BY DEF Waiting, AnswerSet
<1>2. answers \in [Providing -> AnswerSet]
  BY <1>1 DEF MarketInit, Providing
<1>3. step = "market_scan"
  BY DEF MarketInit
<1>4. QED BY <1>2, <1>3 DEF MarketInv, Steps

LEMMA AnswerKeeps ==
    ASSUME MarketInv, NEW i \in Providing, NEW a \in AnswerSet, answers[i] = Waiting,
           answers' = [answers EXCEPT ![i] = a], UNCHANGED <<market, stored, chosen, step>>
    PROVE  MarketInv'
<1>1. step = "market_scan"
  BY DEF MarketInv
<1>2. answers' \in [Providing -> AnswerSet]
  BY DEF MarketInv
<1>3. step' = "market_scan"
  BY <1>1
<1>4. QED BY <1>2, <1>3 DEF MarketInv, Steps

LEMMA MarketNextSound == MarketInv /\ [MarketNext]_marketVars => MarketInv'
<1> SUFFICES ASSUME MarketInv, [MarketNext]_marketVars PROVE MarketInv'
  OBVIOUS
<1>1. ASSUME NEW i \in Providing, NEW n \in 0..MaxItems, NEW items \in [1..n -> Items], Answer(i, items)
      PROVE  MarketInv'
  <2>1. n \in Nat
    BY <1>1
  <2>2. items \in Seq(Items)
    BY <1>1, <2>1
  <2>3. [state |-> "succeeded", items |-> items] \in AnswerSet
    BY <2>2 DEF AnswerSet
  <2>4. QED BY <1>1, <2>3, AnswerKeeps DEF Answer
<1>2. ASSUME NEW i \in Providing, ProviderFails(i) PROVE MarketInv'
  <2>1. Failed \in AnswerSet
    BY DEF Failed, AnswerSet
  <2>2. QED BY <1>2, <2>1, AnswerKeeps DEF ProviderFails
<1>3. CASE Merge
  <2>1. answers' = answers /\ step' = "save"
    BY <1>3 DEF Merge
  <2>2. AllAccepted' = AllAccepted
    BY <2>1 DEF AllAccepted
  <2>3. market'.events = Dedupe(AllAccepted)
    BY <1>3 DEF Merge
  <2>4. \A i \in Providing : answers[i] # Waiting
    BY <1>3 DEF Merge, Providing
  <2>5. QED BY <2>1, <2>2, <2>3, <2>4 DEF MarketInv, Steps
<1>4. CASE SaveMarketEvents
  <2>1. answers' = answers /\ market' = market /\ step = "save"
    BY <1>4 DEF SaveMarketEvents
  <2>2. AllAccepted' = AllAccepted
    BY <2>1 DEF AllAccepted
  <2>3. \/ step' = "select" /\ Cardinality({e.text : e \in ToSet(market.events)}) = Len(market.events)
        \/ step' = "failed"
    BY <1>4 DEF SaveMarketEvents
  <2>4. QED BY <2>1, <2>2, <2>3 DEF MarketInv, Steps
<1>5. CASE SelectEvents
  <2>1. /\ answers' = answers /\ market' = market /\ step = "select" /\ step' = "analysis"
        /\ chosen' = {f \in Eligible : Cardinality({e \in Eligible : Before(e, f)}) < Slots}
    BY <1>5 DEF SelectEvents
  <2>2. AllAccepted' = AllAccepted
    BY <2>1 DEF AllAccepted
  <2>3. Eligible' = Eligible
    BY <2>1 DEF Eligible
  <2>4. Reserved' = Reserved
    BY <2>3 DEF Reserved, BestForDeal
  <2>5. chosen' = {f \in Eligible' : Cardinality({e \in Eligible' : Before(e, f)'}) < Slots}
    BY <2>1, <2>3, <2>4 DEF Before
  <2>6. QED BY <2>1, <2>2, <2>5 DEF MarketInv, Steps
<1>6. CASE UNCHANGED marketVars
  <2>1. answers' = answers /\ market' = market /\ step' = step /\ chosen' = chosen
    BY <1>6 DEF marketVars
  <2>2. AllAccepted' = AllAccepted /\ Eligible' = Eligible
    BY <2>1 DEF AllAccepted, Eligible
  <2>3. Reserved' = Reserved
    BY <2>2 DEF Reserved, BestForDeal
  <2>4. {f \in Eligible' : Cardinality({e \in Eligible' : Before(e, f)'}) < Slots}
        = {f \in Eligible : Cardinality({e \in Eligible : Before(e, f)}) < Slots}
    BY <2>2, <2>3 DEF Before
  <2>5. QED BY <2>1, <2>2, <2>4 DEF MarketInv
<1>7. QED
  BY <1>1, <1>2, <1>3, <1>4, <1>5, <1>6 DEF MarketNext, Providing

\* Whatever the providers report, in whatever order, a source is still a source of an
\* event after merging, with what was first reported for it, no event has one twice, and
\* an event says what was reported for one of its sources.
THEOREM NoSourceLostHolds == MarketSpec => []NoSourceLost
<1>1. ASSUME MarketInv PROVE NoSourceLost
  <2> DEFINE all == AllAccepted
             events == Dedupe(all)
             first(n) == \A m \in 1..(n - 1) : IdsOf(all[m]) # IdsOf(all[n])
  <2> SUFFICES ASSUME step # "market_scan"
               PROVE  /\ \A n \in 1..Len(all) :
                            first(n) => \E e \in ToSet(market.events) : all[n].sources \subseteq e.sources
                      /\ \A e \in ToSet(market.events) :
                            /\ \A s, t \in e.sources : s.id = t.id => s = t
                            /\ \E n \in 1..Len(all) : /\ all[n].url = e.url /\ all[n].text = e.text
                                                      /\ IdsOf(all[n]) \subseteq IdsOf(e)
    BY DEF NoSourceLost
  <2>1. all \in Seq(ReportedEvent) /\ market.events = events
    BY <1>1, AcceptedIs DEF MarketInv
  <2> HIDE DEF all
  <2>2. all \in Seq(MarketEvent) /\ Len(all) \in Nat /\ \A n \in 1..Len(all) : all[n] \in ReportedEvent
    <3>1. ReportedEvent \subseteq MarketEvent
      BY DEF ReportedEvent
    <3>2. Len(all) \in Nat /\ \A n \in 1..Len(all) : all[n] \in ReportedEvent
      BY <2>1
    <3>3. all \in Seq(MarketEvent)
      BY <2>1, <3>1
    <3>4. QED BY <3>2, <3>3
  <2>3. /\ events \in Seq(MarketEvent)
        /\ \A i \in 1..Len(all) :
              (\A h \in 1..(i-1) : Apart(all[h], all[i])) =>
                  \E j \in 1..Len(events) : all[i].sources \subseteq events[j].sources
        /\ \A j \in 1..Len(events) : \E i \in 1..Len(all) : Words(all[i], events[j])
    BY <2>2, DedupeKeeps
  <2> HIDE DEF events
  <2>4. \A j \in 1..Len(events) : events[j] \in ToSet(events)
    BY <2>3 DEF ToSet
  <2>5. \A e \in ToSet(events) : e \in MarketEvent /\ \E j \in 1..Len(events) : e = events[j]
    BY <2>3 DEF ToSet
  <2>6. ASSUME NEW n \in 1..Len(all), first(n)
        PROVE  \E e \in ToSet(events) : all[n].sources \subseteq e.sources
    <3>1. ASSUME NEW h \in 1..(n - 1) PROVE Apart(all[h], all[n])
      <4>1. h \in 1..Len(all)
        BY <2>2
      <4>2. PICK s, t : all[h].sources = {s} /\ all[n].sources = {t}
        BY <2>2, <4>1 DEF ReportedEvent
      <4>3. IdsOf(all[h]) = {s.id} /\ IdsOf(all[n]) = {t.id}
        BY <4>2 DEF IdsOf
      <4>4. QED BY <2>6, <4>3 DEF Apart
    <3>2. QED BY <2>3, <2>4, <3>1
  <2>7. ASSUME NEW e \in ToSet(events)
        PROVE  /\ \A s, t \in e.sources : s.id = t.id => s = t
               /\ \E n \in 1..Len(all) : /\ all[n].url = e.url /\ all[n].text = e.text
                                         /\ IdsOf(all[n]) \subseteq IdsOf(e)
    <3>1. \A s, t \in e.sources : s.id = t.id => s = t
      BY <2>5 DEF MarketEvent
    <3>2. PICK j \in 1..Len(events) : e = events[j]
      BY <2>5
    <3>3. PICK n \in 1..Len(all) : Words(all[n], e)
      BY <2>3, <3>2
    <3>4. QED BY <3>1, <3>3 DEF Words
  <2>8. QED BY <2>1, <2>6, <2>7
<1>2. QED
  BY MarketInitSound, MarketNextSound, <1>1, PTL DEF MarketSpec

-----------------------------------------------------------------------------
(* The choice of events: the ranking is a strict total order, so each deal *)
(* has one best event, and the reserved ones are never more than the deals. *)

Ahead(a, b) ==
    \/ a[1] > b[1]
    \/ a[1] = b[1] /\ a[2] > b[2]
    \/ a[1] = b[1] /\ a[2] = b[2] /\ a[3] > b[3]
    \/ a[1] = b[1] /\ a[2] = b[2] /\ a[3] = b[3] /\ a[4] > b[4]
    \/ a[1] = b[1] /\ a[2] = b[2] /\ a[3] = b[3] /\ a[4] = b[4] /\ a[5] < b[5]

Standing(e, d) == [i \in 1..5 |->
    CASE i = 1 -> Overlap[e.text][d] [] i = 2 -> Relevance(e) [] i = 3 -> (IF e.confident THEN 1 ELSE 0)
      [] i = 4 -> Cardinality(e.sources) [] i = 5 -> e.text]

LEMMA AheadOrders ==
    ASSUME NEW a \in [1..5 -> Int], NEW b \in [1..5 -> Int], NEW c \in [1..5 -> Int]
    PROVE  /\ ~Ahead(a, a)
           /\ Ahead(a, b) /\ Ahead(b, c) => Ahead(a, c)
           /\ Ahead(a, b) => ~Ahead(b, a)
           /\ a[5] # b[5] => Ahead(a, b) \/ Ahead(b, a)
<1>1. \A i \in {1, 2, 3, 4, 5} : a[i] \in Int /\ b[i] \in Int /\ c[i] \in Int
  OBVIOUS
<1>2. QED BY <1>1 DEF Ahead

LEMMA SmallestExists ==
    ASSUME NEW S, IsFiniteSet(S), NEW Bad \in SUBSET (SUBSET S), Bad # {}
    PROVE  \E T \in Bad : \A U \in SUBSET T : U # T => U \notin Bad
<1> DEFINE sizes == {Cardinality(T) : T \in Bad}
<1>1. \A T \in SUBSET S : IsFiniteSet(T) /\ Cardinality(T) \in Nat
  BY FS_Subset, FS_CardinalityType
<1>2. sizes \in SUBSET Nat /\ sizes # {}
  BY <1>1
<1> HIDE DEF sizes
<1>3. PICK n \in sizes : \A m \in sizes : n <= m
  BY <1>2, LeastExists
<1>4. PICK T \in Bad : n = Cardinality(T)
  BY <1>3 DEF sizes
<1>5. ASSUME NEW U \in SUBSET T, U # T, U \in Bad PROVE FALSE
  <2>1. IsFiniteSet(T) /\ IsFiniteSet(U) /\ Cardinality(T) \in Nat /\ Cardinality(U) \in Nat
    BY <1>1
  <2>2. Cardinality(U) <= Cardinality(T) /\ Cardinality(T) # Cardinality(U)
    BY <1>5, <2>1, FS_Subset
  <2>3. Cardinality(U) \in sizes
    BY <1>5 DEF sizes
  <2>4. QED BY <1>3, <1>4, <2>1, <2>2, <2>3
<1>6. QED BY <1>5

\* A finite set that a relation orders has a first element.
LEMMA BestExists ==
    ASSUME NEW S, IsFiniteSet(S), S # {}, NEW R,
           \A x, y \in S : x # y => <<x, y>> \in R \/ <<y, x>> \in R,
           \A x, y, z \in S : <<x, y>> \in R /\ <<y, z>> \in R => <<x, z>> \in R
    PROVE  \E m \in S : \A x \in S \ {m} : <<m, x>> \in R
<1> DEFINE Bad == {T \in SUBSET S : T # {} /\ ~\E m \in T : \A x \in T \ {m} : <<m, x>> \in R}
<1>1. SUFFICES ASSUME Bad # {} PROVE FALSE
  <2>1. S \notin Bad => \E m \in S : \A x \in S \ {m} : <<m, x>> \in R
    OBVIOUS
  <2> HIDE DEF Bad
  <2>2. QED BY <2>1
<1>2. PICK T \in Bad : \A U \in SUBSET T : U # T => U \notin Bad
  <2>1. Bad \in SUBSET (SUBSET S)
    OBVIOUS
  <2> HIDE DEF Bad
  <2>2. QED BY <1>1, <2>1, SmallestExists
<1>3. T \in SUBSET S /\ T # {} /\ ~\E m \in T : \A x \in T \ {m} : <<m, x>> \in R
  BY <1>2
<1>4. PICK y \in T : TRUE
  BY <1>3
<1>5. T \ {y} \in SUBSET T /\ T \ {y} # T /\ T \ {y} \in SUBSET S
  BY <1>3, <1>4
<1>6. T \ {y} \notin Bad
  BY <1>2, <1>5
<1>7. T \ {y} # {}
  BY <1>3, <1>4
<1>8. PICK m \in T \ {y} : \A x \in (T \ {y}) \ {m} : <<m, x>> \in R
  BY <1>5, <1>6, <1>7
<1>9. CASE <<m, y>> \in R
  <2>1. \A x \in T \ {m} : <<m, x>> \in R
    BY <1>8, <1>9
  <2>2. QED BY <1>3, <2>1
<1>10. CASE <<y, m>> \in R
  <2>1. \A x \in T \ {y} : <<y, x>> \in R
    BY <1>3, <1>4, <1>8, <1>10
  <2>2. QED BY <1>3, <1>4, <2>1
<1>11. QED
  BY <1>3, <1>4, <1>8, <1>9, <1>10

LEMMA ImageIs ==
    ASSUME NEW S, IsFiniteSet(S), NEW f, f = [x \in S |-> f[x]]
    PROVE  LET T == {f[x] : x \in S}
           IN /\ IsFiniteSet(T) /\ Cardinality(T) <= Cardinality(S)
              /\ Cardinality(T) = Cardinality(S) => \A x, y \in S : f[x] = f[y] => x = y
<1> DEFINE T == {f[x] : x \in S}
<1>1. f \in [S -> T] /\ \A t \in T : \E x \in S : f[x] = t
  OBVIOUS
<1> HIDE DEF T
<1>2. f \in Surjection(S, T)
  BY <1>1 DEF Surjection
<1>3. IsFiniteSet(T) /\ Cardinality(T) <= Cardinality(S) /\ (Cardinality(T) = Cardinality(S) <=> f \in Injection(S, T))
  BY <1>2, FS_Surjection
<1>4. f \in Injection(S, T) => \A x, y \in S : f[x] = f[y] => x = y
  BY DEF Injection, IsInjective
<1>5. QED BY <1>3, <1>4 DEF T

LEMMA RelevanceIs ==
    ASSUME NEW e \in MarketEvent, Portfolio # {}
    PROVE  Relevance(e) \in Nat /\ \A d \in Portfolio : Overlap[e.text][d] \in Nat
<1>1. \A d \in Portfolio : Overlap[e.text][d] \in Nat
  BY MarketAssumption DEF MarketEvent, Texts
<1> DEFINE Numbers == {Overlap[e.text][d] : d \in Portfolio}
           R == {p \in Numbers \X Numbers : p[1] > p[2]}
<1>2. IsFiniteSet(Numbers) /\ Numbers # {} /\ Numbers \in SUBSET Nat
  <2>1. IsFiniteSet(Portfolio)
    BY MarketAssumption
  <2> DEFINE f == [d \in Portfolio |-> Overlap[e.text][d]]
  <2>2. f = [d \in Portfolio |-> f[d]] /\ Numbers = {f[d] : d \in Portfolio}
    OBVIOUS
  <2>3. IsFiniteSet(Numbers)
    <3> HIDE DEF f, Numbers
    <3>1. QED BY <2>1, <2>2, ImageIs
  <2>4. QED BY <1>1, <2>3
<1>3. PICK m \in Numbers : \A x \in Numbers \ {m} : m > x
  <2> HIDE DEF Numbers
  <2>1. \A x, y \in Numbers : <<x, y>> \in R <=> x > y
    OBVIOUS
  <2>2. \A x \in Numbers : x \in Nat
    BY <1>2
  <2>3. \A x, y \in Numbers : x # y => <<x, y>> \in R \/ <<y, x>> \in R
    BY <2>1, <2>2
  <2>4. \A x, y, z \in Numbers : <<x, y>> \in R /\ <<y, z>> \in R => <<x, z>> \in R
    BY <2>1, <2>2
  <2>5. \E m \in Numbers : \A x \in Numbers \ {m} : <<m, x>> \in R
    <3> HIDE DEF R
    <3>1. QED BY <1>2, <2>3, <2>4, BestExists
  <2>6. QED BY <2>1, <2>5
<1>4. ASSUME NEW d \in Portfolio PROVE m >= Overlap[e.text][d]
  <2>1. Overlap[e.text][d] \in Numbers /\ Overlap[e.text][d] \in Nat /\ m \in Nat
    BY <1>1, <1>2, <1>3
  <2> HIDE DEF Numbers
  <2>2. Overlap[e.text][d] = m \/ m > Overlap[e.text][d]
    BY <1>3, <2>1
  <2>3. QED BY <2>1, <2>2
<1>5. Relevance(e) \in Numbers
  BY <1>3, <1>4 DEF Relevance
<1>6. QED BY <1>1, <1>2, <1>5

LEMMA StandingIs ==
    ASSUME NEW e \in MarketEvent, NEW d \in Portfolio
    PROVE  /\ Standing(e, d) \in [1..5 -> Int]
           /\ Standing(e, d)[1] = Overlap[e.text][d] /\ Standing(e, d)[2] = Relevance(e)
           /\ Standing(e, d)[3] = (IF e.confident THEN 1 ELSE 0)
           /\ Standing(e, d)[4] = Cardinality(e.sources) /\ Standing(e, d)[5] = e.text
<1>1. Overlap[e.text][d] \in Int /\ Relevance(e) \in Int
  BY RelevanceIs
<1>2. Cardinality(e.sources) \in Int
  BY FS_CardinalityType DEF MarketEvent
<1>3. e.text \in Int
  BY MarketAssumption DEF MarketEvent, Texts
<1>4. (IF e.confident THEN 1 ELSE 0) \in Int
  OBVIOUS
<1> DEFINE v(i) == CASE i = 1 -> Overlap[e.text][d] [] i = 2 -> Relevance(e) [] i = 3 -> (IF e.confident THEN 1 ELSE 0)
      [] i = 4 -> Cardinality(e.sources) [] i = 5 -> e.text
<1>5. v(1) = Overlap[e.text][d] /\ v(2) = Relevance(e) /\ v(3) = (IF e.confident THEN 1 ELSE 0)
      /\ v(4) = Cardinality(e.sources) /\ v(5) = e.text
  OBVIOUS
<1>6. Standing(e, d) = [i \in 1..5 |-> v(i)]
  BY DEF Standing
<1>7. \A i \in 1..5 : i = 1 \/ i = 2 \/ i = 3 \/ i = 4 \/ i = 5
  OBVIOUS
<1> HIDE DEF v
<1>8. \A i \in 1..5 : v(i) \in Int
  BY <1>1, <1>2, <1>3, <1>4, <1>5, <1>7
<1>9. 1 \in 1..5 /\ 2 \in 1..5 /\ 3 \in 1..5 /\ 4 \in 1..5 /\ 5 \in 1..5
  OBVIOUS
<1>10. QED BY <1>5, <1>6, <1>8, <1>9

\* e comes before f in the choice for a deal.
Beats(e, f, d) ==
    \/ Overlap[e.text][d] > Overlap[f.text][d]
    \/ Overlap[e.text][d] = Overlap[f.text][d] /\ Better(e, f)

LEMMA BeatsIs ==
    ASSUME NEW e \in MarketEvent, NEW f \in MarketEvent, NEW d \in Portfolio
    PROVE  Beats(e, f, d) <=> Ahead(Standing(e, d), Standing(f, d))
<1> DEFINE a == Standing(e, d)
           b == Standing(f, d)
<1>1. /\ a[1] = Overlap[e.text][d] /\ a[2] = Relevance(e) /\ a[3] = (IF e.confident THEN 1 ELSE 0)
      /\ a[4] = Cardinality(e.sources) /\ a[5] = e.text
  BY StandingIs
<1>2. /\ b[1] = Overlap[f.text][d] /\ b[2] = Relevance(f) /\ b[3] = (IF f.confident THEN 1 ELSE 0)
      /\ b[4] = Cardinality(f.sources) /\ b[5] = f.text
  BY StandingIs
<1>3. e.confident \in BOOLEAN /\ f.confident \in BOOLEAN
  BY DEF MarketEvent
<1>4. (e.confident = f.confident) <=> (e.confident <=> f.confident)
  BY <1>3
<1>5. a[3] > b[3] <=> e.confident /\ ~f.confident
  BY <1>1, <1>2
<1>6. a[3] = b[3] <=> (e.confident <=> f.confident)
  BY <1>1, <1>2
<1> HIDE DEF a, b
<1>7. Beats(e, f, d) <=> Ahead(a, b)
  BY <1>1, <1>2, <1>4, <1>5, <1>6 DEF Beats, Better, Ahead
<1>8. QED BY <1>7 DEF a, b

LEMMA EligibleAre ==
    ASSUME MarketInv, step \in {"select", "analysis"}
    PROVE  /\ IsFiniteSet(Eligible) /\ Eligible \subseteq MarketEvent
           /\ \A e, f \in Eligible : e.text = f.text => e = f
<1> DEFINE all == AllAccepted
           events == Dedupe(all)
<1>1. market.events = events /\ all \in Seq(MarketEvent)
  BY AcceptedIs DEF MarketInv, ReportedEvent
<1>2. events \in Seq(MarketEvent)
  <2> HIDE DEF all
  <2>1. QED BY <1>1, DedupeKeeps
<1>3. Cardinality({e.text : e \in ToSet(market.events)}) = Len(market.events)
  BY DEF MarketInv
<1> HIDE DEF events
<1> DEFINE n == Len(events)
           f == [i \in 1..n |-> events[i]]
           t == [i \in 1..n |-> events[i].text]
<1>4. n \in Nat /\ IsFiniteSet(1..n) /\ Cardinality(1..n) = n
  <2>1. n \in Nat
    BY <1>2
  <2> HIDE DEF n
  <2>2. 0 \in Int /\ 1 \in Int /\ n \in Int
    BY <2>1
  <2>3. IsFiniteSet(1..n) /\ Cardinality(1..n) = IF 1 > n THEN 0 ELSE n - 1 + 1
    BY <2>2, FS_Interval
  <2>4. QED BY <2>1, <2>3
<1>5. ToSet(events) = {f[i] : i \in 1..n} /\ f = [i \in 1..n |-> f[i]]
  BY <1>2 DEF ToSet
<1>6. {e.text : e \in ToSet(events)} = {t[i] : i \in 1..n} /\ t = [i \in 1..n |-> t[i]]
  BY <1>2 DEF ToSet
<1>7. IsFiniteSet(ToSet(events))
  <2> HIDE DEF f, n
  <2>1. QED BY <1>4, <1>5, ImageIs
<1>8. \A i, j \in 1..n : t[i] = t[j] => i = j
  <2>1. Cardinality({t[i] : i \in 1..n}) = Cardinality(1..n)
    BY <1>1, <1>3, <1>4, <1>6
  <2> HIDE DEF t, n
  <2>2. QED BY <1>4, <1>6, <2>1, ImageIs
<1>9. ASSUME NEW e \in ToSet(events), NEW g \in ToSet(events), e.text = g.text PROVE e = g
  <2>1. PICK i \in 1..n : e = events[i]
    BY <1>2, <1>9 DEF ToSet
  <2>2. PICK j \in 1..n : g = events[j]
    BY <1>2, <1>9 DEF ToSet
  <2>3. t[i] = t[j]
    BY <1>9, <2>1, <2>2
  <2>4. i = j
    <3> HIDE DEF t
    <3>1. QED BY <1>8, <2>3, <2>1, <2>2
  <2>5. QED BY <2>1, <2>2, <2>4
<1>10. Eligible \subseteq ToSet(events)
  BY <1>1 DEF Eligible
<1>11. ToSet(events) \subseteq MarketEvent
  BY <1>2 DEF ToSet
<1>12. IsFiniteSet(Eligible)
  BY <1>7, <1>10, FS_Subset
<1>13. QED BY <1>9, <1>10, <1>11, <1>12

LEMMA BeatsOrders ==
    ASSUME MarketInv, step \in {"select", "analysis"}, NEW d \in Portfolio
    PROVE  /\ \A e \in Eligible : ~Beats(e, e, d)
           /\ \A e, f \in Eligible : e # f => Beats(e, f, d) \/ Beats(f, e, d)
           /\ \A e, f \in Eligible : Beats(e, f, d) => ~Beats(f, e, d)
           /\ \A e, f, g \in Eligible : Beats(e, f, d) /\ Beats(f, g, d) => Beats(e, g, d)
<1>1. Eligible \subseteq MarketEvent /\ \A e, f \in Eligible : e.text = f.text => e = f
  BY EligibleAre
<1>2. \A e \in Eligible : Standing(e, d) \in [1..5 -> Int] /\ Standing(e, d)[5] = e.text
  BY <1>1, StandingIs
<1>3. \A e, f \in Eligible : Beats(e, f, d) <=> Ahead(Standing(e, d), Standing(f, d))
  BY <1>1, BeatsIs
<1>4. \A e \in Eligible : ~Beats(e, e, d)
  BY <1>2, <1>3, AheadOrders
<1>5. \A e, f \in Eligible : e # f => Beats(e, f, d) \/ Beats(f, e, d)
  <2>1. \A e, f \in Eligible : e # f => Standing(e, d)[5] # Standing(f, d)[5]
    BY <1>1, <1>2
  <2>2. QED BY <2>1, <1>2, <1>3, AheadOrders
<1>6. \A e, f \in Eligible : Beats(e, f, d) => ~Beats(f, e, d)
  BY <1>2, <1>3, AheadOrders
<1>7. \A e, f, g \in Eligible : Beats(e, f, d) /\ Beats(f, g, d) => Beats(e, g, d)
  BY <1>2, <1>3, AheadOrders
<1>8. QED BY <1>4, <1>5, <1>6, <1>7

\* Each deal that an eligible event is about has exactly one best event.
LEMMA BestIs ==
    ASSUME MarketInv, step \in {"select", "analysis"}, NEW d \in Portfolio
    PROVE  /\ \A e, f \in Eligible : BestForDeal(e, d) /\ BestForDeal(f, d) => e = f
           /\ \A e \in Eligible : Overlap[e.text][d] > 0 =>
                  \E b \in Eligible : BestForDeal(b, d) /\ Overlap[b.text][d] >= Overlap[e.text][d]
<1>1. \A e : BestForDeal(e, d) <=> Overlap[e.text][d] > 0 /\ \A f \in Eligible \ {e} : Beats(e, f, d)
  BY DEF BestForDeal, Beats
<1>2. \A e, f \in Eligible : BestForDeal(e, d) /\ BestForDeal(f, d) => e = f
  BY <1>1, BeatsOrders
<1>3. ASSUME NEW e \in Eligible, Overlap[e.text][d] > 0
      PROVE  \E b \in Eligible : BestForDeal(b, d) /\ Overlap[b.text][d] >= Overlap[e.text][d]
  <2> DEFINE R == {p \in Eligible \X Eligible : Beats(p[1], p[2], d)}
  <2>1. \A x, y \in Eligible : <<x, y>> \in R <=> Beats(x, y, d)
    OBVIOUS
  <2> HIDE DEF R
  <2>2. /\ \A x, y \in Eligible : x # y => <<x, y>> \in R \/ <<y, x>> \in R
        /\ \A x, y, z \in Eligible : <<x, y>> \in R /\ <<y, z>> \in R => <<x, z>> \in R
    BY <2>1, BeatsOrders
  <2>3. IsFiniteSet(Eligible) /\ Eligible # {} /\ Eligible \subseteq MarketEvent
    BY <1>3, EligibleAre
  <2>4. PICK b \in Eligible : \A x \in Eligible \ {b} : <<b, x>> \in R
    BY <2>2, <2>3, BestExists
  <2>5. \A x \in Eligible \ {b} : Beats(b, x, d)
    BY <2>1, <2>4
  <2>6. Overlap[b.text][d] \in Nat /\ Overlap[e.text][d] \in Nat
    BY <2>3, <2>4, <1>3, RelevanceIs
  <2>7. Overlap[b.text][d] >= Overlap[e.text][d]
    BY <2>5, <2>6, <1>3 DEF Beats
  <2>8. Overlap[b.text][d] > 0
    BY <1>3, <2>6, <2>7
  <2>9. QED BY <1>1, <2>4, <2>5, <2>7, <2>8
<1>4. QED BY <1>2, <1>3

LEMMA ReservedFit ==
    ASSUME MarketInv, step \in {"select", "analysis"}
    PROVE  IsFiniteSet(Reserved) /\ Cardinality(Reserved) <= Cardinality(Portfolio)
<1> DEFINE best == [d \in Portfolio |-> CHOOSE e \in Eligible : BestForDeal(e, d)]
           T == {best[d] : d \in Portfolio}
<1>1. IsFiniteSet(Portfolio)
  BY MarketAssumption
<1>2. IsFiniteSet(T) /\ Cardinality(T) <= Cardinality(Portfolio)
  <2>1. best = [d \in Portfolio |-> best[d]]
    OBVIOUS
  <2> HIDE DEF best
  <2>2. QED BY <1>1, <2>1, ImageIs
<1>3. ASSUME NEW e \in Reserved PROVE e \in T
  <2>1. PICK d \in Portfolio : BestForDeal(e, d)
    BY <1>3 DEF Reserved
  <2>2. e \in Eligible
    BY <1>3 DEF Reserved
  <2>3. (CHOOSE x \in Eligible : BestForDeal(x, d)) = e
    BY <2>1, <2>2, BestIs
  <2>4. best[d] = e
    BY <2>3
  <2>5. QED BY <2>4
<1>4. Reserved \subseteq T
  BY <1>3
<1> HIDE DEF T
<1>5. IsFiniteSet(Reserved) /\ Cardinality(Reserved) <= Cardinality(T)
  BY <1>2, <1>4, FS_Subset
<1>6. Cardinality(Reserved) \in Nat /\ Cardinality(T) \in Nat /\ Cardinality(Portfolio) \in Nat
  BY <1>1, <1>2, <1>5, FS_CardinalityType
<1>7. QED BY <1>2, <1>5, <1>6

\* The analysis gets, for every deal an eligible event is about, one that shares as much
\* with the deal as any, as long as there are no more deals than slots.
THEOREM DealsKeepTheirEventHolds ==
    ASSUME Cardinality(Portfolio) <= Slots
    PROVE  MarketSpec => []DealsKeepTheirEvent
<1>1. ASSUME MarketInv PROVE DealsKeepTheirEvent
  <2> SUFFICES ASSUME step = "analysis", NEW d \in Portfolio, NEW e \in Eligible, Overlap[e.text][d] > 0
               PROVE  \E f \in chosen : Overlap[f.text][d] >= Overlap[e.text][d]
    BY DEF DealsKeepTheirEvent
  <2>1. chosen = {f \in Eligible : Cardinality({x \in Eligible : Before(x, f)}) < Slots}
    BY <1>1 DEF MarketInv
  <2>2. PICK b \in Eligible : BestForDeal(b, d) /\ Overlap[b.text][d] >= Overlap[e.text][d]
    BY <1>1, BestIs
  <2>3. b \in Reserved
    BY <2>2 DEF Reserved
  <2> DEFINE Earlier == {x \in Eligible : Before(x, b)}
  <2>4. ~Better(b, b)
    <3>1. ~Beats(b, b, d)
      BY <1>1, <2>2, BeatsOrders
    <3>2. QED BY <3>1 DEF Beats
  <2>5. Earlier \subseteq Reserved \ {b}
    BY <2>3, <2>4 DEF Before
  <2>6. IsFiniteSet(Reserved) /\ Cardinality(Reserved) <= Cardinality(Portfolio)
    BY <1>1, ReservedFit
  <2>7. IsFiniteSet(Earlier) /\ Cardinality(Earlier) < Cardinality(Reserved)
    <3>1. Earlier \subseteq Reserved /\ Earlier # Reserved
      BY <2>3, <2>5
    <3> HIDE DEF Earlier
    <3>2. IsFiniteSet(Earlier) /\ Cardinality(Earlier) <= Cardinality(Reserved) /\ Cardinality(Earlier) # Cardinality(Reserved)
      BY <2>6, <3>1, FS_Subset
    <3>3. Cardinality(Earlier) \in Nat /\ Cardinality(Reserved) \in Nat
      BY <2>6, <3>2, FS_CardinalityType
    <3>4. QED BY <3>2, <3>3
  <2>8. Cardinality(Earlier) \in Nat /\ Cardinality(Reserved) \in Nat /\ Cardinality(Portfolio) \in Nat /\ Slots \in Nat
    BY <2>6, <2>7, FS_CardinalityType, MarketAssumption
  <2>9. Cardinality(Earlier) < Slots
    <3> HIDE DEF Earlier
    <3>1. Cardinality(Portfolio) <= Slots
      OBVIOUS
    <3>2. QED BY <2>6, <2>7, <2>8, <3>1
  <2>10. b \in chosen
    BY <2>1, <2>9
  <2>11. QED BY <2>2, <2>10
<1>2. QED
  BY MarketInitSound, MarketNextSound, <1>1, PTL DEF MarketSpec

-----------------------------------------------------------------------------
(* Matching: what a match's texts keep is made of claims that its sources  *)
(* contain, sentence by sentence.                                          *)

KnownClaims == [text : Statements, sources : SUBSET Catalog]

\* What a text keeps of the claims is quoted from the sources it names for them.
LEMMA GroundedIs ==
    ASSUME NEW match, match.claims \in Seq(KnownClaims), NEW text, NEW valid
    PROVE  /\ GroundedText(text, match, valid).sources \subseteq valid \cap Catalog
           /\ GroundedText(text, match, valid).text \in
                  Seq(UNION {Range(Excerpt[s]) : s \in GroundedText(text, match, valid).sources})
<1> DEFINE claims == match.claims
           n == Len(claims)
           matched == {i \in DOMAIN claims : IsSupported(claims[i], valid) /\ Includes(text, claims[i].text)}
           parts == [i \in DOMAIN claims |-> IF i \in matched THEN claims[i].text ELSE <<>>]
           named == UNION {claims[i].sources : i \in matched}
           words == UNION {Range(Excerpt[s]) : s \in named}
           g == GroundedText(text, match, valid)
<1>1. g.text = FlattenSeq(parts) /\ g.sources = named
  BY DEF GroundedText
<1>2. claims \in Seq(KnownClaims) /\ DOMAIN claims = 1..n /\ n \in Nat
  OBVIOUS
<1>3. \A i \in DOMAIN claims : claims[i] \in KnownClaims
  BY <1>2
<1> HIDE DEF claims, n, g
<1>4. named \subseteq valid \cap Catalog
  BY <1>3 DEF IsSupported, KnownClaims
<1>5. ASSUME NEW i \in matched PROVE claims[i].text \in Seq(words)
  <2>1. claims[i] \in KnownClaims /\ IsSupported(claims[i], valid)
    BY <1>3
  <2>2. PICK s \in claims[i].sources : s \in valid /\ Includes(Excerpt[s], claims[i].text)
    BY <2>1 DEF IsSupported
  <2>3. s \in Catalog /\ s \in named /\ Range(Excerpt[s]) \subseteq words
    BY <2>1 DEF KnownClaims
  <2> DEFINE x == Excerpt[s]
             t == claims[i].text
  <2>4. x \in Seq(Range(x)) /\ t \in Seq(Range(t))
    BY <2>1, <2>3, MatchingAssumption DEF KnownClaims
  <2>5. PICK k \in 0..Len(x) : k + Len(t) <= Len(x) /\ SubSeq(x, k + 1, k + Len(t)) = t
    BY <2>2 DEF Includes
  <2> HIDE DEF x, t
  <2>6. ASSUME NEW j \in 1..Len(t) PROVE t[j] \in Range(x)
    <3>1. Len(t) \in Nat /\ Len(x) \in Nat /\ k \in Nat
      BY <2>4, <2>5
    <3>2. k + j \in 1..Len(x)
      BY <2>5, <3>1
    <3>3. SubSeq(x, k + 1, k + Len(t))[j] = x[k + j]
      <4> DEFINE l == Len(t)
      <4>1. l \in Nat /\ j \in 1..l
        BY <3>1
      <4> HIDE DEF l
      <4>2. SubSeq(x, k + 1, k + l) = [i_1 \in 1..(k + l - (k + 1) + 1) |-> x[k + 1 + i_1 - 1]]
        BY <2>4, <3>1, <4>1
      <4>3. j \in 1..(k + l - (k + 1) + 1) /\ k + 1 + j - 1 = k + j
        BY <3>1, <4>1
      <4>4. QED BY <4>2, <4>3 DEF l
    <3>4. t[j] = x[k + j]
      BY <2>5, <3>3
    <3>5. DOMAIN x = 1..Len(x)
      BY <2>4
    <3>6. QED BY <3>2, <3>4, <3>5 DEF Range
  <2>7. \A j \in 1..Len(t) : t[j] \in words
    BY <2>3, <2>6 DEF x
  <2> HIDE DEF words
  <2>8. t \in Seq(words)
    BY <2>4, <2>7
  <2>9. QED BY <2>8 DEF t
<1>6. \A i \in 1..n : parts[i] \in Seq(words)
  <2> HIDE DEF words
  <2>1. \A i \in DOMAIN claims : parts[i] = IF i \in matched THEN claims[i].text ELSE <<>>
    OBVIOUS
  <2>2. \A i \in matched : claims[i].text \in Seq(words)
    BY <1>5
  <2> HIDE DEF matched, parts
  <2>3. ASSUME NEW i \in 1..n PROVE parts[i] \in Seq(words)
    <3>1. parts[i] = IF i \in matched THEN claims[i].text ELSE <<>>
      BY <1>2, <2>1
    <3>2. <<>> \in Seq(words)
      OBVIOUS
    <3>3. QED BY <2>2, <3>1, <3>2
  <2>4. QED BY <2>3
<1>7. FlattenSeq(parts) \in Seq(words)
  <2>1. parts = [i \in 1..n |-> parts[i]]
    BY <1>2
  <2> HIDE DEF parts, words
  <2>2. QED BY <1>2, <1>6, <2>1, FlattenIs
<1>8. QED BY <1>1, <1>4, <1>7 DEF g

LEMMA QuotedIs ==
    ASSUME NEW from, NEW text \in Seq(UNION {Range(Excerpt[s]) : s \in from}), NEW sources, from \subseteq sources
    PROVE  Quoted(text, sources)
<1> DEFINE words == UNION {Range(Excerpt[s]) : s \in from}
<1>1. \A i \in DOMAIN text : text[i] \in words
  <2> HIDE DEF words
  <2>1. text \in Seq(words)
    BY DEF words
  <2>2. QED BY <2>1
<1>2. QED BY <1>1 DEF Quoted

Match == [deal : Matched, why : Statements, previous : Statements, implications : Seq(Statements),
          cited : Citations, fixtures : Citations, rating : Ratings, claims : Seq(Claims)]

LEMMA NormalisedIs ==
    ASSUME NEW match \in Match
    PROVE  /\ Normalised(match).claims \in Seq(KnownClaims) /\ Normalised(match).cited \subseteq Catalog
           /\ Normalised(match).deal \in Matched
           /\ Normalised(match).implications \in Seq(Statements)
<1> DEFINE claims == [i \in DOMAIN match.claims |-> Resolved(match.claims[i])]
<1>1. /\ Normalised(match).claims = claims /\ Normalised(match).cited = match.cited \cap Catalog
      /\ Normalised(match).deal = match.deal /\ Normalised(match).implications = match.implications
  <2>1. match = [deal |-> match.deal, why |-> match.why, previous |-> match.previous,
                 implications |-> match.implications, cited |-> match.cited, fixtures |-> match.fixtures,
                 rating |-> match.rating, claims |-> match.claims]
    BY DEF Match
  <2>2. Normalised(match) = [match EXCEPT !.cited = match.cited \cap Catalog, !.claims = claims]
    BY DEF Normalised
  <2> HIDE DEF claims
  <2>3. QED BY <2>1, <2>2
<1>2. match.claims \in Seq(Claims)
  BY DEF Match
<1>3. \A i \in 1..Len(match.claims) : Resolved(match.claims[i]) \in KnownClaims
  <2>1. ASSUME NEW c \in Claims PROVE Resolved(c) \in KnownClaims
    BY DEF Resolved, Claims, KnownClaims
  <2>2. \A i \in 1..Len(match.claims) : match.claims[i] \in Claims
    BY <1>2
  <2>3. QED BY <2>1, <2>2
<1>4. claims \in Seq(KnownClaims)
  <2>1. DOMAIN match.claims = 1..Len(match.claims) /\ Len(match.claims) \in Nat
    BY <1>2
  <2>2. claims = [i \in 1..Len(match.claims) |-> claims[i]]
    BY <2>1
  <2>3. \A i \in 1..Len(match.claims) : claims[i] \in KnownClaims
    BY <1>3, <2>1
  <2> DEFINE k == Len(match.claims)
  <2> HIDE DEF claims, k
  <2>4. k \in Nat /\ claims = [i \in 1..k |-> claims[i]] /\ \A i \in 1..k : claims[i] \in KnownClaims
    BY <2>1, <2>2, <2>3 DEF k
  <2>5. QED BY <2>4
<1>5. QED BY <1>1, <1>4 DEF Match

\* What is reported of a match, whatever it is.
LEMMA ReportedIs ==
    ASSUME NEW match \in Match, IsGrounded(Normalised(match))
    PROVE  LET m == AsReported(Normalised(match)) IN
           /\ m.sources \subseteq Catalog
           /\ m.why # <<>> /\ Quoted(m.why, m.sources \cap Public)
           /\ m.previous # <<>> /\ Quoted(m.previous, m.sources \cap Lineage[m.deal])
           /\ \A t \in Range(m.implications) : Quoted(t, m.sources)
           /\ m.fixtures \subseteq m.sources \cap Lineage[m.deal]
<1> DEFINE n == Normalised(match)
           m == AsReported(n)
<1>1. n.claims \in Seq(KnownClaims) /\ n.cited \subseteq Catalog /\ n.deal \in Matched /\ n.implications \in Seq(Statements)
  BY NormalisedIs
<1>2. Why(n).text # <<>> /\ Previous(n).text # <<>>
  BY DEF IsGrounded
<1> HIDE DEF n
<1>3. /\ m.deal = n.deal /\ m.why = Why(n).text /\ m.previous = Previous(n).text
      /\ m.implications = Shown(n.implications, n) /\ m.sources = UsedSources(n)
      /\ m.fixtures \subseteq Lineage[n.deal] \cap UsedSources(n)
  BY DEF AsReported
<1> HIDE DEF m
<1>4. /\ Why(n).sources \subseteq UsedSources(n) /\ Previous(n).sources \subseteq UsedSources(n)
      /\ \A g \in Implications(n) : g.sources \subseteq UsedSources(n)
  BY DEF UsedSources
<1>5. /\ Why(n).sources \subseteq Public \cap Catalog
      /\ Why(n).text \in Seq(UNION {Range(Excerpt[s]) : s \in Why(n).sources})
  BY <1>1, GroundedIs DEF Why
<1>6. /\ Previous(n).sources \subseteq Lineage[n.deal] \cap Catalog
      /\ Previous(n).text \in Seq(UNION {Range(Excerpt[s]) : s \in Previous(n).sources})
  BY <1>1, GroundedIs DEF Previous
<1>7. ASSUME NEW g \in Implications(n)
      PROVE  g.sources \subseteq Catalog /\ g.text \in Seq(UNION {Range(Excerpt[s]) : s \in g.sources})
  <2>1. PICK text \in Range(n.implications) : g = GroundedText(text, n, n.cited)
    BY <1>7 DEF Implications
  <2>2. QED BY <1>1, <2>1, GroundedIs
<1>8. UsedSources(n) \subseteq Catalog
  BY <1>5, <1>6, <1>7 DEF UsedSources
<1>9. Quoted(Why(n).text, UsedSources(n) \cap Public)
  <2>1. Why(n).sources \subseteq UsedSources(n) \cap Public
    BY <1>4, <1>5
  <2>2. QED BY <1>5, <2>1, QuotedIs
<1>10. Quoted(Previous(n).text, UsedSources(n) \cap Lineage[n.deal])
  <2>1. Previous(n).sources \subseteq UsedSources(n) \cap Lineage[n.deal]
    BY <1>4, <1>6
  <2>2. QED BY <1>6, <2>1, QuotedIs
<1>11. ASSUME NEW t \in Range(Shown(n.implications, n)) PROVE Quoted(t, UsedSources(n))
  <2> DEFINE texts == n.implications
             shown == {i \in DOMAIN texts : \E g \in Implications(n) : g.text = texts[i]}
             parts == [i \in DOMAIN texts |-> IF i \in shown THEN <<texts[i]>> ELSE <<>>]
             T == {g.text : g \in Implications(n)}
  <2>1. Shown(texts, n) = FlattenSeq(parts)
    BY DEF Shown
  <2>2. texts \in Seq(Statements) /\ Len(texts) \in Nat /\ DOMAIN texts = 1..Len(texts)
    BY <1>1
  <2> HIDE DEF texts
  <2>3. parts = [i \in 1..Len(texts) |-> parts[i]]
    BY <2>2
  <2>4. ASSUME NEW i \in 1..Len(texts) PROVE parts[i] \in Seq(T)
    <3>1. parts[i] = IF i \in shown THEN <<texts[i]>> ELSE <<>>
      BY <2>2
    <3>2. i \in shown => texts[i] \in T
      OBVIOUS
    <3> HIDE DEF T, shown, parts
    <3>3. QED BY <3>1, <3>2
  <2> HIDE DEF parts, T
  <2>5. FlattenSeq(parts) \in Seq(T)
    BY <2>2, <2>3, <2>4, FlattenIs
  <2>6. t \in T
    <3>1. t \in Range(FlattenSeq(parts))
      BY <1>11, <2>1 DEF texts
    <3>2. QED BY <2>5, <3>1 DEF Range
  <2>7. PICK g \in Implications(n) : t = g.text
    BY <2>6 DEF T
  <2>8. g.sources \subseteq UsedSources(n) /\ g.text \in Seq(UNION {Range(Excerpt[s]) : s \in g.sources})
    BY <1>4, <1>7
  <2>9. QED BY <2>7, <2>8, QuotedIs
<1>12. QED BY <1>2, <1>3, <1>8, <1>9, <1>10, <1>11 DEF m, n

MatchInv == answer \in Seq(Match)

LEMMA BoundedIsSeq ==
    ASSUME NEW S, NEW n \in Nat, NEW s \in SeqOf(S, n)
    PROVE  s \in Seq(S)
<1>1. PICK k \in 0..n : s \in [1..k -> S]
  BY DEF SeqOf
<1>2. QED BY <1>1

\* Whatever the reasoner answers, what is reported of it is quoted from the sources listed.
THEOREM MatchesGroundedHolds == MatchingSpec => []MatchesGrounded
<1>1. MatchingInit => MatchInv
  BY DEF MatchingInit, MatchInv
<1>2. MatchInv /\ [MatchingNext]_matchingVars => MatchInv'
  <2> SUFFICES ASSUME MatchInv, [MatchingNext]_matchingVars PROVE MatchInv'
    OBVIOUS
  <2>1. CASE MatchingNext
    <3>1. PICK d \in Matched, why \in Statements, previous \in Statements,
               implications \in SeqOf(Statements, MaxImplications),
               cited \in Citations, rating \in Ratings,
               claims \in {c \in SeqOf(Claims, MaxClaims) : Keyed(c)} :
               answer' = Append(answer,
                   [deal |-> d, why |-> why, previous |-> previous, implications |-> implications,
                    cited |-> cited, fixtures |-> cited, rating |-> rating, claims |-> claims])
      BY <2>1 DEF MatchingNext, Propose
    <3>2. implications \in Seq(Statements) /\ claims \in Seq(Claims)
      BY MatchingAssumption, BoundedIsSeq
    <3>3. [deal |-> d, why |-> why, previous |-> previous, implications |-> implications,
           cited |-> cited, fixtures |-> cited, rating |-> rating, claims |-> claims] \in Match
      BY <3>2 DEF Match
    <3>4. QED BY <3>1, <3>3 DEF MatchInv
  <2>2. CASE UNCHANGED matchingVars
    BY <2>2 DEF MatchInv, matchingVars
  <2>3. QED BY <2>1, <2>2
<1>3. MatchInv => MatchesGrounded
  <2> SUFFICES ASSUME MatchInv, NEW m \in Reports
               PROVE  /\ m.sources \subseteq Catalog
                      /\ m.why # <<>> /\ Quoted(m.why, m.sources \cap Public)
                      /\ m.previous # <<>> /\ Quoted(m.previous, m.sources \cap Lineage[m.deal])
                      /\ \A t \in Range(m.implications) : Quoted(t, m.sources)
                      /\ m.fixtures \subseteq m.sources \cap Lineage[m.deal]
    BY DEF MatchesGrounded
  <2>1. PICK i \in DOMAIN answer : IsGrounded(Normalised(answer[i])) /\ m = AsReported(Normalised(answer[i]))
    BY DEF Reports, Kept
  <2>2. answer[i] \in Match
    BY <2>1 DEF MatchInv
  <2>3. QED BY <2>1, <2>2, ReportedIs
<1>4. QED
  BY <1>1, <1>2, <1>3, PTL DEF MatchingSpec
=============================================================================
