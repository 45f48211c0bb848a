---------------------------- MODULE CaseReadiness ----------------------------
(***************************************************************************)
(* What the case desk derives from a case's evidence, events and exports:  *)
(* the blockers, the completeness score and the readiness state            *)
(* (case_ops/blockers.py, completeness.py, readiness.py).  Evidence is a   *)
(* record:                                                                 *)
(*   artifacts   the status of each artifact row, or absent                *)
(*   collected, validated, exported                                        *)
(*               some event speaks of a capture, of a hash, of an export   *)
(*   ready       some export of the case is ready; requested: there is one *)
(* Messages, hints and the categories of missing items are left out.       *)
(***************************************************************************)
EXTENDS Integers, FiniteSets

ArtifactStatuses == {"absent", "pending", "captured", "unavailable"}

InStatus(e, s) == {a \in DOMAIN e.artifacts : e.artifacts[a] = s}
Rows(e) == DOMAIN e.artifacts \ InStatus(e, "absent")

Blockers(e) ==
    LET found(code, severity, blocks) == [code |-> code, severity |-> severity, blocks |-> blocks]
        when(condition, blocker) == IF condition THEN {blocker} ELSE {}
    IN UNION {
        when(InStatus(e, "pending") # {}, found("evidence_capture_incomplete", "critical", TRUE)),
        when(InStatus(e, "captured") = {} /\ Rows(e) # {},
             found("no_captured_evidence", "critical", TRUE)),
        when(InStatus(e, "unavailable") # {}, found("evidence_unavailable", "important", TRUE)),
        when(~e.validated, found("timeline_validation_missing", "important", TRUE)),
        when(~e.requested, found("export_not_requested", "optional", FALSE)),
        when(e.requested /\ ~e.ready, found("export_not_ready", "optional", FALSE))}

Blocking(e) == {b \in Blockers(e) : b.blocks}
Critical(e) == {b \in Blockers(e) : b.severity = "critical"}

\* Rounded to the nearest: no score these denominators give is a tie.
Rounded(n, d) == (2 * n + d) \div (2 * d)
Share(earned, possible) == IF possible = 0 THEN 100 ELSE Rounded(100 * earned, possible)

TimelineChecks(e) == {c \in {"collected", "validated", "exported"} : e[c]}

\* 0.6 of the artifacts, 0.25 of the timeline, 0.15 of the exports.
Percent(e) ==
    Rounded(12 * Share(Cardinality(InStatus(e, "captured")), Cardinality(Rows(e)))
              + 5 * Share(Cardinality(TimelineChecks(e)), 3)
              + 3 * (IF e.ready THEN 100 ELSE 0), 20)

\* Mutant of Readiness: the threshold a package without an export can reach.
ReadinessAt85(status, e) ==
    CASE status \in {"closed", "exported"} -> status
      [] Critical(e) # {} -> "not_ready"
      [] Critical(e) = {} /\ (Blocking(e) # {} \/ Percent(e) < 85) -> "conditionally_ready"
      [] OTHER -> "ready_for_export"

Readiness(status, e) ==
    CASE status \in {"closed", "exported"} -> status
      [] status \notin {"closed", "exported"} /\ Critical(e) # {} -> "not_ready"
      [] /\ status \notin {"closed", "exported"}
         /\ Critical(e) = {}
         /\ Blocking(e) # {} \/ Percent(e) < 90 -> "conditionally_ready"
      [] OTHER -> "ready_for_export"
==============================================================================
