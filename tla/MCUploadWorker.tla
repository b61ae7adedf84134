--------------------------- MODULE MCUploadWorker ---------------------------
(* Small instances of UploadWorker. *)
EXTENDS UploadWorker, TLC

CONSTANT id

\* Two processes with one WORKER_ID: less protection than the README asks for.
OneId == [w \in Workers |-> id]
ThreeTokens == 1..3
NobodyFails == {}
OldestFails == {1}
YoungestFails == {2}

\* Workers, clients, choices and previews are told apart by nothing.
Symmetry ==
    Permutations(Workers) \cup Permutations(Clients)
        \cup Permutations(Choices) \cup Permutations(Previews)
=============================================================================
