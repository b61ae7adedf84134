--------------------------- MODULE UploadPromise ---------------------------
(***************************************************************************)
(* What a user may rely on after uploading a document.  One preview is     *)
(* shown, or the document is rejected; one choice made on that preview is  *)
(* accepted, with evidence for exactly that preview and that choice; an    *)
(* accepted document may become ready and is never asked for again.        *)
(* Leases, retries and competing workers are invisible.                    *)
(***************************************************************************)
CONSTANTS Docs, Previews, NoPreview, Choices

VARIABLES phase, shown, record

vars == <<phase, shown, record>>

Init ==
    /\ phase = [d \in Docs |-> "unknown"]
    /\ shown = [d \in Docs |-> NoPreview]
    /\ record = [d \in Docs |-> {}]

Move(d, from, to) == phase[d] = from /\ phase' = [phase EXCEPT ![d] = to]

Submit(d) == Move(d, "unknown", "pending") /\ UNCHANGED <<shown, record>>

Show(d, p) ==
    /\ Move(d, "pending", "review")
    /\ shown' = [shown EXCEPT ![d] = p]
    /\ UNCHANGED record

Reject(d) == Move(d, "pending", "rejected") /\ UNCHANGED <<shown, record>>

Accept(d, c) ==
    /\ Move(d, "review", "accepted")
    /\ record' = [record EXCEPT ![d] = {[choice |-> c, preview |-> shown[d]]}]
    /\ UNCHANGED shown

Publish(d) == Move(d, "accepted", "ready") /\ UNCHANGED <<shown, record>>

Next ==
    \E d \in Docs :
        \/ Submit(d) \/ Reject(d) \/ Publish(d)
        \/ \E p \in Previews : Show(d, p)
        \/ \E c \in Choices : Accept(d, c)

Spec == Init /\ [][Next]_vars

=============================================================================
