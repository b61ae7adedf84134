---------------------------- MODULE MCScanWorker ----------------------------
(* Small instances of ScanWorker. *)
EXTENDS ScanWorker, TLC

CONSTANTS w1, w2, xtraceKey, structuredKey

MCWorkers == {w1, w2}
MCKeys == {xtraceKey, structuredKey}
OneKey == {xtraceKey}
MCStructured == {structuredKey}
NoSkew == [w \in MCWorkers |-> 0]
\* w2's clock is one tick behind.
LaggingClock == w1 :> 0 @@ w2 :> -1

ShortPipeline == <<"report", "underwriting", "notification">>
\* One stage of every kind: memory_ingest_sync both warns and degrades and is
\* skipped in structured mode, report is fatal, underwriting is guarded.
OneOfEachKind == <<"memory_ingest_sync", "report", "underwriting", "notification">>
=============================================================================
