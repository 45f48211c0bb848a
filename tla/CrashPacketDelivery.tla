------------------------ MODULE CrashPacketDelivery ------------------------
(***************************************************************************)
(* The crash packet of one incident: the transition that declares the      *)
(* accident and queues the dispatch                                        *)
(* (services/incident_workflow_service.py), the Celery task that mails the *)
(* packet to each recipient, and the watchdog that flags deliveries past   *)
(* their service level (tasks/crash_packet_tasks.py), over the one         *)
(* delivery row of the incident (db/repo/crash_packet_deliveries.py).      *)
(*                                                                         *)
(* An action is one commit, one read or one mail.  The session writes a    *)
(* column only when it differs from the value it loaded, and it writes     *)
(* without looking at what the row holds by then; a commit expires what    *)
(* was loaded, so later writes are unconditional.  Incidents do not share  *)
(* rows: one is followed here.                                             *)
(***************************************************************************)
EXTENDS Naturals, FiniteSets

CONSTANTS
    Callers,        \* processes that declare the accident; each queues one task
    MaxRecipients,  \* bound: entries of the notification control file
    MaxRetries,     \* Celery's max_retries for the task
    MaxFaults       \* bound: processes lost, publications refused, errors

ASSUME DeliveryAssumption ==
    /\ IsFiniteSet(Callers)
    /\ MaxRecipients \in Nat /\ MaxRetries \in Nat /\ MaxFaults \in Nat

VARIABLES
    occurred,       \* the incident's status is accident_occurred
    log,            \* the kinds of event committed for the incident
    row,            \* the delivery row
    late,           \* the service level has passed since the row's reference time
    recipients,     \* how many active recipients the control file lists
    caller,         \* the processes declaring the accident
    task,           \* the dispatch task each of them publishes
    mails,          \* how many copies the provider sent to each recipient
    watchdog,       \* the sweep in progress
    overlapped,     \* history: a run started while another was under way
    overtaken,      \* history: the watchdog overwrote a sent or partial row
    lost, refused, errors   \* faults so far

incident == <<occurred, log, row, late, recipients>>
history == <<overlapped, overtaken>>
faults == <<lost, refused, errors>>
vars == <<incident, caller, task, mails, watchdog, history, faults>>

MayFail == lost + refused + errors < MaxFaults

Unsettled == {"queued", "dispatched"}
Settled == {"sent", "partial"}
Statuses == Unsettled \cup Settled \cup {"failed", "overdue"}

NoRow == [status |-> "none", sent |-> {}, failed |-> {}]
Unpublished == [pc |-> "none", tries |-> 0, seen |-> "none", next |-> 1, sent |-> {}, failed |-> {}]
Running == {"create", "mark", "announce", "send", "event", "ack"}

Init ==
    /\ occurred = FALSE
    /\ log = {}
    /\ row = NoRow
    /\ late = FALSE
    /\ recipients \in 0..MaxRecipients
    /\ caller = [c \in Callers |-> "idle"]
    /\ task = [c \in Callers |-> Unpublished]
    /\ mails = [n \in 1..MaxRecipients |-> 0]
    /\ watchdog = "idle"
    /\ overlapped = FALSE
    /\ overtaken = FALSE
    /\ lost = 0 /\ refused = 0 /\ errors = 0

-----------------------------------------------------------------------------
(* Declaring the accident                                                  *)

\* A caller that loaded the incident before it was flipped flips it, even
\* if another has done so since.
FlipStatus(c) ==
    /\ caller[c] = "idle"
    /\ occurred' = TRUE
    /\ caller' = [caller EXCEPT ![c] = "record"]
    /\ UNCHANGED <<log, row, late, recipients, task, mails, watchdog, history, faults>>

AlreadyFlipped(c) ==
    /\ caller[c] = "idle"
    /\ occurred
    /\ caller' = [caller EXCEPT ![c] = "check"]
    /\ UNCHANGED <<incident, task, mails, watchdog, history, faults>>

RecordFlip(c) ==
    /\ caller[c] = "record"
    /\ log' = log \cup {"status_changed"}
    /\ caller' = [caller EXCEPT ![c] = "check"]
    /\ UNCHANGED <<occurred, row, late, recipients, task, mails, watchdog, history, faults>>

\* Mutant of CheckRow: the row is left to the task to create.
CheckRowSkipped(c) ==
    /\ caller[c] = "check"
    /\ caller' = [caller EXCEPT ![c] = "enqueue"]
    /\ UNCHANGED <<incident, task, mails, watchdog, history, faults>>

CheckRow(c) ==
    /\ caller[c] = "check"
    /\ caller' = [caller EXCEPT ![c] = IF row = NoRow THEN "create" ELSE "enqueue"]
    /\ UNCHANGED <<incident, task, mails, watchdog, history, faults>>

\* The read fails; that is logged, and the task is queued without a row.
CheckRowFails(c) ==
    /\ caller[c] = "check"
    /\ MayFail
    /\ errors' = errors + 1
    /\ caller' = [caller EXCEPT ![c] = "enqueue"]
    /\ UNCHANGED <<incident, task, mails, watchdog, history, lost, refused>>

NewRow ==
    /\ row' = [NoRow EXCEPT !.status = "queued"]
    /\ late' = FALSE

PreCreateRow(c) ==
    /\ caller[c] = "create"
    /\ row = NoRow
    /\ NewRow
    /\ caller' = [caller EXCEPT ![c] = "enqueue"]
    /\ UNCHANGED <<occurred, log, recipients, task, mails, watchdog, history, faults>>

\* The unique key refuses a second row.  The failed flush leaves the session
\* unusable, so the handler that logs the failure raises in its turn (it reads
\* the expired incident) and this caller queues nothing.
PreCreateConflict(c) ==
    /\ caller[c] = "create"
    /\ row # NoRow
    /\ caller' = [caller EXCEPT ![c] = "over"]
    /\ UNCHANGED <<incident, task, mails, watchdog, history, faults>>

Enqueue(c) ==
    /\ caller[c] = "enqueue"
    /\ caller' = [caller EXCEPT ![c] = "over"]
    /\ task' = [task EXCEPT ![c].pc = "queued"]
    /\ UNCHANGED <<incident, mails, watchdog, history, faults>>

\* The broker refuses the publication; the failure is logged, not raised.
EnqueueRefused(c) ==
    /\ caller[c] = "enqueue"
    /\ MayFail
    /\ refused' = refused + 1
    /\ caller' = [caller EXCEPT ![c] = "over"]
    /\ UNCHANGED <<incident, task, mails, watchdog, history, lost, errors>>

CallerLost(c) ==
    /\ caller[c] \in {"record", "check", "create", "enqueue"}
    /\ MayFail
    /\ lost' = lost + 1
    /\ caller' = [caller EXCEPT ![c] = "over"]
    /\ UNCHANGED <<incident, task, mails, watchdog, history, refused, errors>>

-----------------------------------------------------------------------------
(* The dispatch task                                                       *)

Done == [Unpublished EXCEPT !.pc = "done"]
Goto(c, pc) == task' = [task EXCEPT ![c].pc = pc]
Overlap(c) == overlapped' = (overlapped \/ \E o \in Callers \ {c} : task[o].pc \in Running)

SkipSettled(c) ==
    /\ task[c].pc = "queued"
    /\ row.status \in Settled
    /\ task' = [task EXCEPT ![c] = Done]
    /\ UNCHANGED <<incident, caller, mails, watchdog, history, faults>>

\* Mutant of Begin: a run already sent in part is begun again.
BeginUnlessSent(c) ==
    /\ task[c].pc = "queued"
    /\ row.status # "sent"
    /\ task' = [task EXCEPT ![c] = [Unpublished EXCEPT
                   !.pc = IF row = NoRow THEN "create" ELSE "mark",
                   !.seen = row.status, !.tries = task[c].tries]]
    /\ Overlap(c)
    /\ UNCHANGED <<incident, caller, mails, watchdog, overtaken, faults>>

\* The row is loaded: the session knows the status as it was then.
Begin(c) ==
    /\ task[c].pc = "queued"
    /\ row.status \notin Settled
    /\ task' = [task EXCEPT ![c] = [Unpublished EXCEPT
                   !.pc = IF row = NoRow THEN "create" ELSE "mark",
                   !.seen = row.status, !.tries = task[c].tries]]
    /\ Overlap(c)
    /\ UNCHANGED <<incident, caller, mails, watchdog, overtaken, faults>>

CreateRow(c) ==
    /\ task[c].pc = "create"
    /\ row = NoRow
    /\ NewRow
    /\ task' = [task EXCEPT ![c].pc = "mark", ![c].seen = "queued"]
    /\ UNCHANGED <<occurred, log, recipients, caller, mails, watchdog, history, faults>>

\* Celery retries after any exception, until the retries are used up.
Retry(c) ==
    task' = [task EXCEPT ![c] = [Unpublished EXCEPT
                !.pc = IF task[c].tries < MaxRetries THEN "queued" ELSE "dead",
                !.tries = IF task[c].tries < MaxRetries THEN task[c].tries + 1
                                                         ELSE task[c].tries]]

CreateConflict(c) ==
    /\ task[c].pc = "create"
    /\ row # NoRow
    /\ Retry(c)
    /\ UNCHANGED <<incident, caller, mails, watchdog, history, faults>>

\* The status is written unless the session loaded it as dispatched; the time
\* of dispatch is always written and restarts the service level.
MarkDispatched(c) ==
    /\ task[c].pc = "mark"
    /\ row' = [row EXCEPT !.status = IF task[c].seen = "dispatched" THEN @ ELSE "dispatched"]
    /\ late' = FALSE
    /\ task' = [task EXCEPT ![c].pc = "announce", ![c].seen = "none"]
    /\ UNCHANGED <<occurred, log, recipients, caller, mails, watchdog, history, faults>>

Announce(c) ==
    /\ task[c].pc = "announce"
    /\ log' = log \cup {"dispatched"}
    /\ Goto(c, "send")
    /\ UNCHANGED <<occurred, row, late, recipients, caller, mails, watchdog, history, faults>>

Due(c) == task[c].pc = "send" /\ task[c].next =< recipients

SendAccepted(c) ==
    /\ Due(c)
    /\ mails' = [mails EXCEPT ![task[c].next] = @ + 1]
    /\ task' = [task EXCEPT ![c].sent = @ \cup {task[c].next}, ![c].next = @ + 1]
    /\ UNCHANGED <<incident, caller, watchdog, history, faults>>

SendFailed(c) ==
    /\ Due(c)
    /\ task' = [task EXCEPT ![c].failed = @ \cup {task[c].next}, ![c].next = @ + 1]
    /\ UNCHANGED <<incident, caller, mails, watchdog, history, faults>>

\* The provider took the mail and its answer was lost: recorded as failed.
SendUnanswered(c) ==
    /\ Due(c)
    /\ MayFail
    /\ errors' = errors + 1
    /\ mails' = [mails EXCEPT ![task[c].next] = @ + 1]
    /\ task' = [task EXCEPT ![c].failed = @ \cup {task[c].next}, ![c].next = @ + 1]
    /\ UNCHANGED <<incident, caller, watchdog, history, lost, refused>>

\* Mutant of Outcome: one recipient reached is enough to call it sent.
OutcomeOptimistic(sent, failed) == IF sent # {} THEN "sent" ELSE "failed"

Outcome(sent, failed) ==
    IF sent = {} THEN "failed" ELSE IF failed = {} THEN "sent" ELSE "partial"

\* No recipients at all is a failure as well.
RecordResult(c) ==
    /\ task[c].pc = "send"
    /\ task[c].next > recipients
    /\ row' = [status |-> Outcome(task[c].sent, task[c].failed),
               sent |-> task[c].sent, failed |-> task[c].failed]
    /\ Goto(c, "event")
    /\ UNCHANGED <<occurred, log, late, recipients, caller, mails, watchdog, history, faults>>

EmitResult(c) ==
    /\ task[c].pc = "event"
    /\ log' = log \cup {IF task[c].sent = {} THEN "failed" ELSE "sent"}
    /\ Goto(c, "ack")
    /\ UNCHANGED <<occurred, row, late, recipients, caller, mails, watchdog, history, faults>>

Acknowledge(c) ==
    /\ task[c].pc = "ack"
    /\ task' = [task EXCEPT ![c] = Done]
    /\ UNCHANGED <<incident, caller, mails, watchdog, history, faults>>

\* A database error in mid-run.
RunRaises(c) ==
    /\ task[c].pc \in Running \ {"ack"}
    /\ MayFail
    /\ errors' = errors + 1
    /\ Retry(c)
    /\ UNCHANGED <<incident, caller, mails, watchdog, history, lost, refused>>

\* The worker is lost: the broker delivers the unacknowledged message again.
WorkerLost(c) ==
    /\ task[c].pc \in Running
    /\ MayFail
    /\ lost' = lost + 1
    /\ task' = [task EXCEPT ![c] = [Unpublished EXCEPT !.pc = "queued", !.tries = task[c].tries]]
    /\ UNCHANGED <<incident, caller, mails, watchdog, history, refused, errors>>

-----------------------------------------------------------------------------
(* The watchdog                                                            *)

TimePasses ==
    /\ row # NoRow
    /\ ~late
    /\ late' = TRUE
    /\ UNCHANGED <<occurred, log, row, recipients, caller, task, mails, watchdog, history, faults>>

\* Mutant of Scan: rows whose task never ran are not looked at.
ScanDispatched ==
    /\ watchdog = "idle"
    /\ row.status = "dispatched"
    /\ late
    /\ watchdog' = "mark"
    /\ UNCHANGED <<incident, caller, task, mails, history, faults>>

\* A sweep lists the row; one that finds nothing changes nothing.
Scan ==
    /\ watchdog = "idle"
    /\ row.status \in Unsettled
    /\ late
    /\ watchdog' = "mark"
    /\ UNCHANGED <<incident, caller, task, mails, history, faults>>

\* It writes the status by the row's id, whatever the row says by now.
MarkOverdue ==
    /\ watchdog = "mark"
    /\ row' = [row EXCEPT !.status = "overdue"]
    /\ watchdog' = "emit"
    /\ overtaken' = (overtaken \/ row.status \in Settled)
    /\ UNCHANGED <<occurred, log, late, recipients, caller, task, mails, overlapped, faults>>

EmitOverdue ==
    /\ watchdog = "emit"
    /\ log' = log \cup {"overdue"}
    /\ watchdog' = "idle"
    /\ UNCHANGED <<occurred, row, late, recipients, caller, task, mails, history, faults>>

\* The sweep is lost; the redelivered one lists the rows anew.
WatchdogLost ==
    /\ watchdog # "idle"
    /\ MayFail
    /\ lost' = lost + 1
    /\ watchdog' = "idle"
    /\ UNCHANGED <<incident, caller, task, mails, history, refused, errors>>

-----------------------------------------------------------------------------
Declare(c) ==
    \/ RecordFlip(c) \/ CheckRow(c)
    \/ PreCreateRow(c) \/ PreCreateConflict(c) \/ Enqueue(c)

Dispatch(c) ==
    \/ SkipSettled(c) \/ Begin(c) \/ CreateRow(c) \/ CreateConflict(c)
    \/ MarkDispatched(c) \/ Announce(c) \/ SendAccepted(c) \/ SendFailed(c)
    \/ RecordResult(c) \/ EmitResult(c) \/ Acknowledge(c)

Sweep == Scan \/ MarkOverdue \/ EmitOverdue

Fault(c) ==
    \/ CheckRowFails(c) \/ EnqueueRefused(c) \/ CallerLost(c)
    \/ SendUnanswered(c) \/ RunRaises(c) \/ WorkerLost(c)

Next ==
    \/ \E c \in Callers : FlipStatus(c) \/ AlreadyFlipped(c) \/ Declare(c) \/ Dispatch(c) \/ Fault(c)
    \/ TimePasses \/ Sweep \/ WatchdogLost

Spec == Init /\ [][Next]_vars

\* Processes that have begun go on, time passes and the sweep is run again and
\* again.  Nothing is assumed of the workers that run the dispatch task.
FairSpec ==
    /\ Spec
    /\ \A c \in Callers : WF_vars(Declare(c))
    /\ WF_vars(TimePasses) /\ SF_vars(Sweep)

-----------------------------------------------------------------------------
(* Properties                                                              *)

Recipients == 1..recipients

\* The types; a settled row has an outcome that agrees with its lists; a task
\* past the lookup works on a row that exists.
TypeOK ==
    /\ occurred \in BOOLEAN /\ late \in BOOLEAN
    /\ overlapped \in BOOLEAN /\ overtaken \in BOOLEAN
    /\ log \subseteq {"status_changed", "dispatched", "sent", "failed", "overdue"}
    /\ row.status \in Statuses \cup {"none"}
    /\ row.sent \cup row.failed \subseteq 1..MaxRecipients
    /\ recipients \in 0..MaxRecipients
    /\ caller \in [Callers -> {"idle", "record", "check", "create", "enqueue", "over"}]
    /\ task \in [Callers -> [pc : {"none", "queued", "done", "dead"} \cup Running,
                             tries : 0..MaxRetries, seen : Statuses \cup {"none"},
                             next : 1..(MaxRecipients + 1),
                             sent : SUBSET (1..MaxRecipients), failed : SUBSET (1..MaxRecipients)]]
    /\ mails \in [1..MaxRecipients -> Nat]
    /\ watchdog \in {"idle", "mark", "emit"}
    /\ lost \in Nat /\ refused \in Nat /\ errors \in Nat
    /\ lost + refused + errors =< MaxFaults
    /\ \A c \in Callers : task[c].pc \in Running \ {"create"} => row # NoRow

\* No mail leaves before the dispatch event is committed.
NothingSentUnannounced ==
    \A n \in Recipients : mails[n] > 0 => "dispatched" \in log

\* What the row says of its mails is so: everyone it lists as sent was mailed,
\* and when it says sent, that is everyone on the control file.
RowClaimsAreTrue ==
    /\ \A n \in row.sent : mails[n] > 0
    /\ row.status = "sent" => \A n \in Recipients : mails[n] > 0
    /\ row.status = "partial" => row.failed # {}

\* No mail without its event, and no claim in the row without its mails.
RowIsHonest == TypeOK /\ NothingSentUnannounced /\ RowClaimsAreTrue

\* Nobody is mailed twice, whatever is queued again, unless a process was
\* lost, a step failed, two runs overlapped or the watchdog overwrote a
\* settled row with what it had read before.
ResendHasCause ==
    (\E n \in Recipients : mails[n] > 1)
        => (lost + errors > 0 \/ overlapped \/ overtaken)

\* An accident that was declared gets its status event and its delivery row,
\* also when the broker refuses the task, unless a process died or a read failed.
FlipIsFollowedUp ==
    occurred ~> (("status_changed" \in log /\ row # NoRow) \/ lost + errors > 0)

\* A row does not stay queued or dispatched: a task that never ran, or never
\* came back, is flagged.
NeverLeftUnsettled == (row.status \in Unsettled) ~> (row.status \notin Unsettled)

\* An overdue row has its overdue event, unless the sweep was lost.
OverdueIsReported == (row.status = "overdue") ~> ("overdue" \in log \/ lost > 0)

\* No delivery is left open, and none becomes overdue without its event.
DeliverySettles == NeverLeftUnsettled /\ OverdueIsReported

\* The watchdog does not touch a packet that was sent.
SentIsNotFlipped ==
    [][row.status \in Settled => row'.status # "overdue"]_vars

=============================================================================
