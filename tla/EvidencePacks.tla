----------------------------- MODULE EvidencePacks -----------------------------
(***************************************************************************)
(* The grounding of one candidate: what its analysis recalled is resolved  *)
(* to the revisions of the deal, and the Evidence Pack is built from them, *)
(* saved once under the fingerprint of its inputs, and read back.  The     *)
(* links of memories to revisions change meanwhile, and the stage runtime  *)
(* repeats a build whose request was lost, though its save may still land. *)
(***************************************************************************)
EXTENDS Naturals, FiniteSets

CONSTANTS
    SourceOf,       \* function: the source of each revision of the deal
    Strangers,      \* the revisions with evidence that names another company
    RowRevision,    \* function: the revision of each evidence row a legacy link may name
    Recallable,     \* memories of the deal in XTrace
    Links,          \* what a memory may be linked to: [revisions, sources]
    NoLink,
    MaxBuilds,      \* maxAttempts of the stage
    MaxEntries      \* bound on the benchmark entries published meanwhile

ASSUME PacksAssumption == MaxBuilds \in Nat \ {0} /\ MaxEntries \in Nat /\ NoLink \notin Links

DealRevisions == DOMAIN SourceOf

VARIABLES
    memoryLinks,    \* xtrace_memory_links
    offered,        \* the newest benchmark entry for the candidate's date, 0 for none
    grounding,      \* the candidate's progress, its snapshot and its pack
    builds,         \* evidence_pack_builds
    late            \* saves whose answer was lost and that may still run

packVars == <<memoryLinks, offered, grounding, builds, late>>

NoPack == [inputs |-> {}, at |-> 0]

\* needed: the context of the deal selects a benchmark.
PacksInit ==
    /\ memoryLinks = [m \in Recallable |-> NoLink]
    /\ offered = 0
    /\ \E needed \in BOOLEAN :
          grounding = [step |-> "idle", needed |-> needed, revisions |-> {}, recalled |-> {},
                       unresolved |-> {}, lineage |-> {}, builds |-> 0, pack |-> NoPack]
    /\ builds = {} /\ late = {}

-----------------------------------------------------------------------------
(* The memory worker and the references move on: what no step reads again is     *)
(* left as it is.                                                                *)

\* The upsert of recordCompletion.
LinkMemory(m, link) ==
    /\ grounding.step = "load"
    /\ memoryLinks' = [memoryLinks EXCEPT ![m] = link]
    /\ UNCHANGED <<offered, grounding, builds, late>>

\* An entry is immutable; getSelectedBenchmark takes the newest that was in effect.
PublishBenchmark ==
    /\ grounding.step = "build" /\ grounding.needed
    /\ offered < MaxEntries /\ offered' = offered + 1
    /\ UNCHANGED <<memoryLinks, grounding, builds, late>>

-----------------------------------------------------------------------------
(* load *)

Turns(step) == grounding' = [grounding EXCEPT !.step = step]
Rest == UNCHANGED <<memoryLinks, offered, builds, late>>

\* A revision supersedes the one before it of its source.
IsActiveSet(set) == \A r, s \in set : SourceOf[r] = SourceOf[s] => r = s

NamesAnotherCompany(set) == set \cap Strangers # {}

\* The analysis names what it recalled, the deal is as the scan read it; a revision is
\* immutable, and so is its evidence.
PinCandidate(active, recalled) ==
    /\ grounding.step = "idle" /\ IsActiveSet(active)
    /\ grounding' = [grounding EXCEPT
           !.step = IF active = {} \/ NamesAnotherCompany(active) THEN "unavailable" ELSE "load",
           !.revisions = active, !.recalled = recalled, !.unresolved = recalled]
    /\ Rest

\* A legacy link names evidence rows in place of revisions.
RevisionsOf(link) ==
    IF link.revisions # {} THEN link.revisions
    ELSE {IF e \in DOMAIN RowRevision THEN RowRevision[e] ELSE "unknown" : e \in link.sources}

SourcesOf(set) == {SourceOf[r] : r \in set}

IsExact(link) ==
    /\ RevisionsOf(link) \subseteq grounding.revisions
    /\ link.revisions # {} => SourcesOf(link.revisions) = link.sources

\* The memories are resolved one request at a time.
ResolveMemory(m) ==
    /\ grounding.step = "load" /\ m \in grounding.unresolved
    /\ IF memoryLinks[m] # NoLink /\ IsExact(memoryLinks[m])
       THEN grounding' = [grounding EXCEPT !.unresolved = @ \ {m},
                                           !.lineage = @ \cup RevisionsOf(memoryLinks[m])]
       ELSE Turns("unavailable")
    /\ Rest

FinishLoad ==
    /\ grounding.step = "load" /\ grounding.unresolved = {}
    /\ IF grounding.recalled # {} /\ grounding.lineage = {} THEN Turns("unavailable")
       ELSE Turns("build")
    /\ Rest

-----------------------------------------------------------------------------
(* buildEvidencePack and build *)

\* The fingerprint leaves out when the pack was made.
InputsOf(version) == [revisions |-> grounding.revisions, memories |-> grounding.recalled,
                      lineage |-> grounding.lineage, benchmark |-> version]

\* The builder's own look at the lineage it is given.
IsValidLineage(inputs) ==
    /\ inputs.lineage \subseteq inputs.revisions
    /\ (inputs.memories = {}) = (inputs.lineage = {})

StartBuild ==
    /\ grounding.step = "build"
    /\ LET version == IF grounding.needed THEN offered ELSE 0
       IN IF grounding.needed /\ version = 0 THEN Turns("unavailable")
          ELSE IF ~IsValidLineage(InputsOf(version)) THEN Turns("failed")
          ELSE grounding' = [grounding EXCEPT
                   !.step = "find", !.builds = @ + 1,
                   !.pack = [inputs |-> InputsOf(version), at |-> grounding.builds + 1]]
    /\ Rest

Saved(inputs) == {p \in builds : p.inputs = inputs}

\* An earlier build of these inputs is the pack.
FindBuild ==
    /\ grounding.step = "find"
    /\ IF Saved(grounding.pack.inputs) = {} THEN Turns("save")
       ELSE \E p \in Saved(grounding.pack.inputs) :
                grounding' = [grounding EXCEPT !.step = "check", !.pack = p]
    /\ Rest

\* Saves that replace the build of the same inputs.
WithNewest(p) == (builds \ Saved(p.inputs)) \cup {p}

\* save_evidence_pack_build: on conflict do nothing.
With(p) == IF Saved(p.inputs) = {} THEN builds \cup {p} ELSE builds

\* It raises when what is stored differs, and that is not retried.
SaveBuild ==
    /\ grounding.step = "save"
    /\ builds' = With(grounding.pack)
    /\ IF grounding.pack \in With(grounding.pack) THEN Turns("check") ELSE Turns("failed")
    /\ UNCHANGED <<memoryLinks, offered, late>>

\* findByPackId must return the same pack.
CheckBuild ==
    /\ grounding.step = "check"
    /\ IF Saved(grounding.pack.inputs) = {grounding.pack} THEN Turns("packed")
       ELSE Turns("unavailable")
    /\ Rest

\* A request or its answer is lost: the stage runtime repeats the build while it may.
LoseBuildRequest ==
    /\ grounding.step \in {"find", "save", "check"}
    /\ IF grounding.builds < MaxBuilds THEN Turns("build") ELSE Turns("failed")
    /\ late' \in IF grounding.step = "save" THEN {late, late \cup {grounding.pack}} ELSE {late}
    /\ UNCHANGED <<memoryLinks, offered, builds>>

LandLate(p) ==
    /\ builds' = With(p)
    /\ late' = late \ {p}
    /\ UNCHANGED <<memoryLinks, offered, grounding>>

PacksNext ==
    \/ \E m \in grounding.unresolved, link \in Links : LinkMemory(m, link)
    \/ PublishBenchmark
    \/ \E active \in SUBSET DealRevisions, recalled \in SUBSET Recallable :
          PinCandidate(active, recalled)
    \/ \E m \in grounding.unresolved : ResolveMemory(m)
    \/ FinishLoad \/ StartBuild \/ FindBuild \/ SaveBuild \/ CheckBuild \/ LoseBuildRequest
    \/ \E p \in late : LandLate(p)

PacksSpec == PacksInit /\ [][PacksNext]_packVars
-----------------------------------------------------------------------------
(* The build a candidate was given stays the one stored for its inputs, so that  *)
(* its finalization finds it, whichever attempt saved it and whatever an earlier  *)
(* one still does; and what a build says its memories rest on are revisions of    *)
(* this pack, none of which speaks of another company.                            *)

PacksGrounded ==
    /\ grounding.step = "packed" => Saved(grounding.pack.inputs) = {grounding.pack}
    /\ \A p \in builds : /\ p.inputs.lineage \subseteq p.inputs.revisions
                         /\ ~NamesAnotherCompany(p.inputs.revisions)
                         /\ p.inputs.memories # {} => p.inputs.lineage # {}
=============================================================================
