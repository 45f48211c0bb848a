-------------------------- MODULE IncidentCaptures --------------------------
(***************************************************************************)
(* The background captures of one incident, together: the office's         *)
(* creation of the incident, whose handler queues them one after the other *)
(* (api/routes_incidents.py, create_incident_endpoint;                     *)
(* services/incident_evidence_orchestrator.py, begin_capture), and the     *)
(* captures themselves, which begin to run while it is at work.            *)
(*                                                                         *)
(* The dashcam's capture is queued by the same handler in the same way; it *)
(* is left out here, being the subject of DashcamCapture.  The captures    *)
(* share no row but the incident's, so that large instances of the one are *)
(* combined with small ones of the other.                                  *)
(***************************************************************************)
EXTENDS TelematicsCapture, ViolationHistory

CONSTANTS
    NewCase,    \* the incident
    Instances   \* bounds: how the bundle began, its shape and the history's scope

\* The incident that the office creates is among those of the carrier.  The
\* column of a unit's start cannot be empty, nor can it in rows known before.
ASSUME InstancesAssumption ==
    /\ NewCase \in Cases
    /\ \A n \in Instances :
        /\ n.origin \in {"driver", "office", "over"}
        /\ n.shape \in [sets : Nat \ {0}, formats : Nat \ {0}, faults : Nat, any : BOOLEAN]
        /\ n.scope.cases \subseteq Cases /\ IsFiniteSet(n.scope.cases) /\ n.scope.syncs \subseteq Syncs
        /\ {n.scope.refreshes, n.scope.losses} \subseteq Nat
        /\ (n.origin = "office" /\ n.scope.cases # {}) => NewCase \in n.scope.cases
        /\ \A known \in Known[n.scope.sample] :
            /\ DOMAIN known = UnitIds
            /\ \A u \in UnitIds : known[u] # Nil => Given(known[u].start)

VARIABLES
    office,     \* how far the handler is
    attempted,  \* the log says that the captures were attempted
    gaveUp       \* history: the handler was lost on the way

officeVars == <<office, attempted, gaveUp>>
vars == <<bundleVars, historyVars, tmsVars, officeVars>>

\* An organisation without a carrier's number, which gets no violation history.
NoHistory == scope.cases = {}

Init ==
    /\ \E n \in Instances :
        /\ shape = n.shape /\ scope = n.scope
        /\ BundleInit(n.origin)
        /\ HistoryInit(IF n.origin = "office" THEN {} ELSE n.scope.cases)
        /\ TmsInit(n.scope.syncs, Known[n.scope.sample])
        /\ office = IF n.origin = "office" THEN "create" ELSE "over"
    /\ attempted = FALSE /\ gaveUp = FALSE

-----------------------------------------------------------------------------
(* The handler: each step is a commit, or the message                      *)

Office(from, to) == office = from /\ office' = to

\* A request for each dataset; the commits between are one step.
OpenRequests ==
    /\ Office("create", "operation")
    /\ request' = [q \in Requests |-> IF q[1] = First /\ q[3] = 1
                                      THEN [status |-> "open", op |-> NoOperation] ELSE request[q]]
    /\ UNCHANGED <<shape, run, operation, artifacts, log, mapped, operator, history, faults>>
    /\ UNCHANGED <<historyVars, attempted, gaveUp>>

QueueBundle ==
    /\ Office("operation", "link")
    /\ operation' = [operation EXCEPT ![First] = "queued"]
    /\ UNCHANGED <<shape, run, request, artifacts, log, mapped, operator, history, faults>>
    /\ UNCHANGED <<historyVars, attempted, gaveUp>>

LinkRequests ==
    /\ Office("link", "publish")
    /\ request' = [q \in Requests |-> IF q[1] = First /\ q[3] = 1
                                      THEN [status |-> "in_progress", op |-> First] ELSE request[q]]
    /\ UNCHANGED <<shape, run, operation, artifacts, log, mapped, operator, history, faults>>
    /\ UNCHANGED <<historyVars, attempted, gaveUp>>

PublishBundle ==
    /\ Office("publish", IF NoHistory THEN "attempt" ELSE "history")
    /\ run' = [run EXCEPT !["first"] = [Unpublished EXCEPT !.pc = "queued", !.carried = First]]
    /\ UNCHANGED <<shape, operation, request, artifacts, log, mapped, operator, history, faults>>
    /\ UNCHANGED <<historyVars, attempted, gaveUp>>

\* The operation and the request, in two commits of which the first alone only
\* shows after a loss.
QueueHistory ==
    /\ Office("history", "send")
    /\ capture' = [capture EXCEPT ![NewCase] = "queued"]
    /\ evidence' = [evidence EXCEPT ![NewCase] = "in_progress"]
    /\ UNCHANGED <<scope, task, link, told, cache, pulls, inspections, warming, stored, basis,
                   lostRuns, refreshes, losses>>
    /\ UNCHANGED <<bundleVars, attempted, gaveUp>>

\* Mutant of PublishHistory: the message is forgotten.
PublishHistoryNot ==
    /\ Office("send", "attempt")
    /\ UNCHANGED <<bundleVars, historyVars, attempted, gaveUp>>

PublishHistory ==
    /\ Office("send", "attempt")
    /\ task' = [task EXCEPT ![NewCase] = TaskIdle]
    /\ UNCHANGED <<scope, capture, evidence, link, told, cache, pulls, inspections, warming, stored,
                   basis, lostRuns, refreshes, losses>>
    /\ UNCHANGED <<bundleVars, attempted, gaveUp>>

EmitAttempted ==
    /\ Office("attempt", "over")
    /\ attempted' = TRUE
    /\ UNCHANGED <<bundleVars, historyVars, gaveUp>>

\* The process is lost, or a commit or the broker fails, which ends the handler
\* with an error; nobody takes the captures up again.
OfficeGivesUp ==
    /\ office # "over" /\ office' = "over"
    /\ gaveUp' = TRUE
    /\ UNCHANGED <<bundleVars, historyVars, attempted>>

BeginCaptures ==
    \/ OpenRequests \/ QueueBundle \/ LinkRequests \/ PublishBundle
    \/ QueueHistory \/ PublishHistory \/ EmitAttempted

OfficeNext == (BeginCaptures \/ OfficeGivesUp) /\ UNCHANGED tmsVars

Next ==
    \/ OfficeNext
    \/ BundleNext /\ UNCHANGED <<historyVars, tmsVars, officeVars>>
    \/ CaptureNext /\ UNCHANGED <<scope, bundleVars, tmsVars, officeVars>>
    \/ TmsNext /\ UNCHANGED <<bundleVars, historyVars, officeVars>>

\* Workers serve the queues, and a handler or a retry that has begun goes on;
\* nobody has to ask for a retry.
Fairness ==
    /\ WF_vars(BeginCaptures /\ UNCHANGED tmsVars)
    /\ \A m \in Messages : WF_vars(Work(m) /\ UNCHANGED <<shape, historyVars, tmsVars, officeVars>>)
    /\ WF_vars(Requeue /\ UNCHANGED <<shape, historyVars, tmsVars, officeVars>>)
    /\ \A i \in Cases : WF_vars(Capture(i) /\ UNCHANGED <<scope, bundleVars, tmsVars, officeVars>>)
    /\ \A s \in Syncs : WF_vars(Synchronise(s) /\ UNCHANGED <<bundleVars, historyVars, officeVars>>)

Spec == Init /\ [][Next]_vars /\ Fairness

-----------------------------------------------------------------------------
(* Properties                                                              *)

\* What the log says was attempted was begun: every dataset's request has its
\* operation, and every operation its message; one without is left behind only
\* by a handler that was lost.
AttemptIsTrue ==
    /\ attempted =>
        /\ run["first"].pc # "none" /\ operation[First] # "none"
        /\ \A d \in Sets : request[<<First, d, 1>>].op # NoOperation
        /\ NoHistory \/ (task[NewCase].pc # "none" /\ evidence[NewCase] # "none")
    /\ (office = "over" /\ ~gaveUp) =>
        /\ operation[First] # "none" => run["first"].pc # "none"
        /\ \A i \in Cases : capture[i] # "none" => task[i].pc # "none"

\* The bundle's operations and requests come to their end, but for the reasons
\* of OpenWork, a fault, two runs at once or a handler that was lost; the retry
\* of a bundle that succeeded with failed datasets is skipped as a duplicate.
BundlesEnd == (OpenWork # {}) ~> (OpenWork = {} \/ faults > 0 \/ overlapped \/ gaveUp)

\* Each history's operation comes to its end unless its own run or the handler
\* is lost.
HistoriesEnd ==
    \A i \in Cases : (capture[i] # "none") ~>
                        (capture[i] \in {"succeeded", "failed"} \/ WasLost(i) \/ gaveUp)

\* The captures of an incident come to their end, each for itself.
CapturesEnd == BundlesEnd /\ HistoriesEnd

=============================================================================
