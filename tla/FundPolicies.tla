------------------------------ MODULE FundPolicies ------------------------------
(***************************************************************************)
(* The Fund Policy of a workspace: an append-only sequence of versions and *)
(* the one in force.  Managers save, apply the recommended values and      *)
(* restore over requests of their own; whoever reads first appends the     *)
(* recommended policy.  Apply and restore read the policy in force in one  *)
(* request and replace it in the next.                                     *)
(***************************************************************************)
EXTENDS Naturals, Sequences

CONSTANTS
    Managers,
    PolicyValues,       \* the values a manager may save
    RecommendedValues,
    MaxPolicies         \* bound on the versions

ASSUME PoliciesAssumption == RecommendedValues \in PolicyValues /\ MaxPolicies \in Nat \ {0}

VARIABLES
    policyVersions,     \* fund_policy_versions: values and source; how each came to be
    activePolicy,       \* workspace_active_fund_policies: 0 for none
    desk                \* per manager: the policy shown, and the request under way

policyVars == <<policyVersions, activePolicy, desk>>

AtRest == [request |-> "none", shown |-> 0, read |-> 0, chosen |-> 0]

PoliciesInit ==
    /\ policyVersions = <<>>
    /\ activePolicy = 0
    /\ desk = [a \in Managers |-> AtRest]

-----------------------------------------------------------------------------
(* activate_fund_policy_version, one transaction under the lock of the workspace. *)

AppendBlindly(a, expected, row) ==
    /\ Len(policyVersions) < MaxPolicies
    /\ policyVersions' = Append(policyVersions, row)
    /\ activePolicy' = Len(policyVersions) + 1
    /\ desk' = [desk EXCEPT ![a] = [AtRest EXCEPT !.shown = activePolicy']]

\* The version expected to be in force must be; else the request is a conflict.
AppendVersion(a, expected, row) ==
    IF activePolicy = expected
    THEN /\ Len(policyVersions) < MaxPolicies
         /\ policyVersions' = Append(policyVersions, row)
         /\ activePolicy' = Len(policyVersions) + 1
         /\ desk' = [desk EXCEPT ![a] = [AtRest EXCEPT !.shown = activePolicy']]
    ELSE /\ desk' = [desk EXCEPT ![a] = [AtRest EXCEPT !.shown = desk[a].shown]]
         /\ UNCHANGED <<policyVersions, activePolicy>>

\* by, over, decided and told: the request, the version it replaced, the one its manager
\* had been shown, and the one whose difference it reports.
NewVersion(values, source, by, decided, told) ==
    [values |-> values, source |-> source, by |-> by, over |-> activePolicy,
     decided |-> decided, told |-> told]

Recommended(by, decided, told) ==
    NewVersion(RecommendedValues, "recommended_policy", by, decided, told)

Asks(a, request) ==
    /\ desk' = [desk EXCEPT ![a] = request]
    /\ UNCHANGED <<policyVersions, activePolicy>>

-----------------------------------------------------------------------------
\* activeFundPolicy: what is in force, or the recommended policy is appended.
ViewPolicy(a) ==
    /\ desk[a].request = "none"
    /\ Asks(a, IF activePolicy = 0 THEN [desk[a] EXCEPT !.request = "first"]
               ELSE [desk[a] EXCEPT !.shown = activePolicy])

ActivateFirst(a) ==
    /\ desk[a].request = "first"
    /\ AppendVersion(a, 0, Recommended("first", 0, 0))

\* saveCustomPolicy: the version shown goes with the request.
SavePolicy(a, values) ==
    /\ desk[a].request = "none" /\ desk[a].shown # 0
    /\ AppendVersion(a, desk[a].shown, NewVersion(values, "user_custom", "save", desk[a].shown, 0))

\* applyBalancedDefaults reads what is in force; it must be the version shown.
AskRecommended(a) ==
    /\ desk[a].request = "none" /\ desk[a].shown # 0
    /\ desk[a].shown = activePolicy
    /\ Asks(a, [desk[a] EXCEPT !.request = "apply", !.read = activePolicy])

ApplyRecommended(a) ==
    /\ desk[a].request = "apply"
    /\ AppendVersion(a, desk[a].shown, Recommended("apply", desk[a].shown, desk[a].read))

\* restorePolicyVersion expects what it reads, whatever was shown.
AskRestore(a, version) ==
    /\ desk[a].request = "none" /\ desk[a].shown # 0
    /\ Asks(a, [desk[a] EXCEPT !.request = "restore", !.read = activePolicy, !.chosen = version])

RestorePolicy(a) ==
    /\ desk[a].request = "restore"
    /\ LET old == policyVersions[desk[a].chosen]
       IN AppendVersion(a, desk[a].read,
                   NewVersion(old.values, old.source, "restore", desk[a].shown, desk[a].read))

PoliciesNext ==
    \E a \in Managers :
        \/ ViewPolicy(a) \/ ActivateFirst(a)
        \/ \E values \in PolicyValues : SavePolicy(a, values)
        \/ AskRecommended(a) \/ ApplyRecommended(a)
        \/ \E version \in DOMAIN policyVersions : AskRestore(a, version)
        \/ RestorePolicy(a)

PoliciesSpec == PoliciesInit /\ [][PoliciesNext]_policyVars
-----------------------------------------------------------------------------
(* No manager's policy is overwritten unseen by a save or by the recommended     *)
(* values: each replaces the version its manager was shown, and the fields it is *)
(* said to overwrite are those of the version it replaced.  A restore replaces   *)
(* what was in force when it read it.  The first policy is appended once.        *)
PoliciesReplaceWhatWasSeen ==
    \A n \in DOMAIN policyVersions :
        LET p == policyVersions[n]
        IN /\ p.over = n - 1
           /\ p.by \in {"save", "apply"} => p.over = p.decided
           /\ p.by \in {"apply", "restore"} => p.over = p.told
           /\ (p.by = "first") = (n = 1)
=============================================================================
