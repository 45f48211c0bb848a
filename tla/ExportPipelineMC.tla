-------------------------- MODULE ExportPipelineMC --------------------------
(* Small instances of ExportPipeline for TLC. *)
EXTENDS ExportPipeline, TLC

\* Exports, handlers and workers are interchangeable (safety runs only).
Symmetry == Permutations(Exports) \cup Permutations(Requests) \cup Permutations(Workers)

\* A state of ExportPipeline without retries that the run on two exports starts
\* from: one export was asked for under a key and its build has failed before
\* there was a package, while its handler has yet to write "queued". A client
\* may ask again with the key, ask for another export, or retry this one.
FailedOnce ==
   \E e \in Exports, r \in Requests, k \in Keys :
      /\ row = [x \in Exports |-> IF x = e
                  THEN [NoRow EXCEPT !.status = "failed", !.attempt = e,
                                     !.stage = "gathering_incident_data"]
                  ELSE NoRow]
      /\ vault = [x \in Exports |-> 0]
      /\ builds = [x \in Exports |-> 0]
      /\ caseStatus = "ready_for_export"
      /\ requested = <<[exp |-> e, key |-> k]>>
      /\ log = [x \in Exports |-> IF x = e
                  THEN {"EXPORT_PROCESSING_STARTED", "EXPORT_FAILED"} ELSE {}]
      /\ generated = [x \in Exports |-> <<>>]
      /\ req = [x \in Requests |-> IF x = r
                  THEN [pc |-> "mark_queued", key |-> k, exp |-> e, parent |-> None]
                  ELSE IdleHandler]
      /\ queue = {}
      /\ wk = [w \in Workers |-> IdleWorker]
      /\ deadLetters = {e}
      /\ crashes = 0 /\ outages = 0 /\ copies = 0 /\ requeues = 0

PairSpec == FailedOnce /\ [][Next]_vars
=============================================================================
