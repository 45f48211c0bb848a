---------------------------- MODULE CaseWorkflow -----------------------------
(***************************************************************************)
(* The case desk: operators who move a case through its workflow, assign   *)
(* it, ask for its export, and keep its tasks and notes, while the export  *)
(* worker marks it exported (api/routes_incidents.py, api/routes/          *)
(* routes_tasks.py and routes_notes.py, case_ops/workflow.py,              *)
(* tasks/export_tasks.py).                                                 *)
(*                                                                         *)
(* Every handler has one shape: read a row, check the request against what *)
(* was read, assign columns, commit, then append audit records and events, *)
(* each with a commit of its own.  No handler takes a lock for the read,   *)
(* and the mapper writes only the columns whose value differs from the one *)
(* read.  Tasks, notes and the case are rows of different tables that no   *)
(* handler changes together, so a behaviour follows one row.  Titles,      *)
(* texts, tags, due dates, times and reasons are left out; so are requests *)
(* for rows of other organisations (404).                                  *)
(***************************************************************************)
EXTENDS CaseReadiness, Sequences

CONSTANTS
    Users,      \* the operators
    Role,       \* the role of each of them
    Nobody,     \* the null of a column that refers to a user
    Artifacts,  \* bound: the artifacts a case may get
    Owners,     \* bound: the owners that are asked for
    Met,        \* bound: the statuses at which a case is met
    Targets     \* bound: the statuses that are asked for

Statuses == {"new", "in_review", "awaiting_evidence", "awaiting_follow_up",
             "ready_for_export", "exported", "escalated", "closed"}
Roles == {"system_admin", "org_admin", "safety_manager", "claims_user", "read_only",
          "support_admin", "support_agent"}

ASSUME CaseAssumption ==
    /\ Nobody \notin Users
    /\ Owners \subseteq Users
    /\ Role \in [Users -> Roles]
    /\ Met \cup Targets \subseteq Statuses
    /\ IsFiniteSet(Artifacts)

VARIABLES
    table,      \* the table of the row that is followed
    row,        \* its columns, or Absent
    request,    \* three requests for it
    lastMove,   \* the last change of the case's status: its event is in the commit
    notice,     \* the last INCIDENT_STATUS_CHANGED: whose it is, what it tells
    log,        \* the kinds of the other events and audit records written
    evidence,   \* what the readiness of the case is derived from
    exports,    \* the exports the desk has asked for
    overtaken,  \* history: a request committed over a row it had not read
    untold      \* history: requests lost between their move and its notice

trail == <<lastMove, notice, log, untold>>
vars == <<table, row, request, trail, evidence, exports, overtaken>>

Tables == {"case", "task", "note"}
Requests == 1..3
Worker == 1                     \* for a case, request 1 is the export worker's
Absent == [absent |-> TRUE]
Exists == row # Absent

-----------------------------------------------------------------------------
(* Who may do what                                                         *)

Can(u, capability) ==
    LET admins == {"system_admin", "org_admin"}
        desk == admins \cup {"safety_manager", "claims_user"}
    IN Role[u] \in CASE capability = "incident:write" -> desk
                     [] capability = "export:write" -> desk \cup {"support_admin"}
                     [] OTHER -> admins         \* close, reopen, escalate

AllowedTransitions ==
    [s \in Statuses |->
        CASE s = "new" -> {"in_review", "awaiting_evidence"}
          [] s = "in_review" -> {"awaiting_evidence", "awaiting_follow_up", "ready_for_export"}
          [] s = "awaiting_evidence" -> {"in_review", "awaiting_follow_up"}
          [] s = "awaiting_follow_up" -> {"in_review", "ready_for_export"}
          [] s = "ready_for_export" -> {"exported", "awaiting_follow_up"}
          [] s = "escalated" -> {"in_review", "awaiting_follow_up", "ready_for_export"}
          [] OTHER -> {}]

PrivilegedTransitions ==
    [s \in Statuses |->
        CASE s = "closed" -> {"in_review"}
          [] s = "escalated" -> {"closed"}
          [] OTHER -> {"closed", "escalated"}]

RequiredCapability(from, to) ==
    CASE to = "closed" -> "incident:close"
      [] from = "closed" /\ to = "in_review" -> "incident:reopen"
      [] to = "escalated" -> "incident:escalate"
      [] OTHER -> "none"

\* Mutant of ValidTransition: a capability opens every transition.
AnyTransition(from, to) ==
    \/ from = to
    \/ to \in AllowedTransitions[from]
    \/ RequiredCapability(from, to) # "none"

ValidTransition(from, to) ==
    \/ from = to
    \/ to \in AllowedTransitions[from]
    \/ to \in PrivilegedTransitions[from] /\ RequiredCapability(from, to) # "none"

\* The check of a status request; u's role is read when the request begins.
MayMove(u, from, to) ==
    /\ RequiredCapability(from, to) # "none" => Can(u, RequiredCapability(from, to))
    /\ ValidTransition(from, to)

\* A finished task stays finished; the same status again is let through.
TaskTransition(from, to) == from = to \/ (from = "open" /\ to \in {"completed", "canceled"})

MayEditNote(u, note) == Role[u] \in {"org_admin", "system_admin"} \/ note.author = u

-----------------------------------------------------------------------------
(* The handlers.  u serves the request, read is the row as it was read and *)
(* reread the row after the commit.  A handler says whether the request is *)
(* accepted, which columns it assigns, and what it logs after the commit   *)
(* of the row: the first event of a case's handler is in that commit.      *)

Operations(t) ==
    CASE t = "case" -> {[do |-> "move", to |-> s] : s \in Targets}
                         \cup {[do |-> "own", to |-> u] : u \in Owners \cup {Nobody}}
      [] t = "task" -> {[do |-> d, to |-> Nobody] : d \in {"complete", "cancel"}}
                         \cup {[do |-> "set", to |-> s] : s \in {"open", "completed", "canceled"}}
                         \cup {[do |-> "assign", to |-> u] : u \in Owners}
      [] OTHER -> {[do |-> d, to |-> Nobody] : d \in {"edit", "delete"}}

Nothing == [column \in {} |-> Nobody]
When(condition, entries) == IF condition THEN entries ELSE <<>>

\* Mutant of PatchStatus: an escalation has no notice but its own event.
PatchStatusUnnoticed(u, to, read) ==
    [ok |-> MayMove(u, read.status, to),
     set |-> [status |-> to],
     log |-> IF to = "escalated" THEN <<"escalated", "audit">>
             ELSE <<"status_changed">>
                    \o When(to = "closed", <<"closed">>)
                    \o When(read.status = "closed" /\ to # "closed", <<"reopened">>)
                    \o <<"audit">>]

PatchStatus(u, to, read) ==
    [ok |-> MayMove(u, read.status, to),
     set |-> [status |-> to],
     log |-> <<"status_changed">>
               \o When(to = "escalated", <<"escalated">>)
               \o When(to = "closed", <<"closed">>)
               \o When(read.status = "closed" /\ to # "closed", <<"reopened">>)
               \o <<"audit">>]

\* Assignment and reassignment differ in the name of their event only.
PatchOwner(u, to, read) ==
    [ok |-> TRUE,
     set |-> [owner |-> to, by |-> IF to = Nobody THEN Nobody ELSE u],
     log |-> <<"audit">>]

SyncAfterExport(read) ==
    [ok |-> read.status = "ready_for_export",
     set |-> [status |-> "exported", stored |-> "exported"],
     log |-> <<>>]

\* Mutant of ApplyStatus: a completion does not say whose it is.
ApplyStatusUnsigned(u, status) ==
    [status |-> status, finisher |-> Nobody, canceller |-> IF status = "canceled" THEN u ELSE Nobody]

ApplyStatus(u, status) ==
    [status |-> status,
     finisher |-> IF status = "completed" THEN u ELSE Nobody,
     canceller |-> IF status = "canceled" THEN u ELSE Nobody]

\* What has changed is found by comparing the row before with the row after.
PatchTask(u, op, read, reread) ==
    [ok |-> op.do = "set" => TaskTransition(read.status, op.to),
     set |-> CASE op.do = "set" -> ApplyStatus(u, op.to)
               [] op.do = "assign" /\ op.to # read.assignee ->
                    [assignee |-> op.to, assigner |-> u]
               [] OTHER -> Nothing,
     log |-> When(reread.assignee # read.assignee, <<"audit", "reassigned">>)
               \o When(reread.status # read.status, <<"audit">>)]

CompleteTask(u, read) ==
    [ok |-> TaskTransition(read.status, "completed"),
     set |-> ApplyStatus(u, "completed"),
     log |-> <<"audit", "completed">>]

CancelTask(u, read) ==
    [ok |-> TaskTransition(read.status, "canceled"),
     set |-> ApplyStatus(u, "canceled"),
     log |-> <<"audit", "canceled">>]

EditNote(u, read) ==
    [ok |-> ~read.deleted /\ MayEditNote(u, read),
     set |-> [editor |-> u],
     log |-> <<"edited", "audit">>]

DeleteNote(u, read) ==
    [ok |-> MayEditNote(u, read),
     set |-> IF read.deleted THEN Nothing ELSE [deleted |-> TRUE, deleter |-> u],
     log |-> When(~read.deleted, <<"deleted", "audit">>)]

Handler(u, op, read, reread) ==
    CASE op.do = "move" -> PatchStatus(u, op.to, read)
      [] op.do = "own" -> PatchOwner(u, op.to, read)
      [] op.do = "sync" -> SyncAfterExport(read)
      [] op.do \in {"set", "assign"} -> PatchTask(u, op, read, reread)
      [] op.do = "complete" -> CompleteTask(u, read)
      [] op.do = "cancel" -> CancelTask(u, read)
      [] op.do = "edit" -> EditNote(u, read)
      [] op.do = "delete" -> DeleteNote(u, read)

-----------------------------------------------------------------------------
(* The life of a request                                                   *)

Idle == [pc |-> "idle", user |-> Nobody, op |-> [do |-> "none", to |-> Nobody],
         read |-> Absent, left |-> <<>>]
NewCase(s) == [status |-> s, owner |-> Nobody, by |-> Nobody, stored |-> "none"]
NewTask(assignee, assigner) ==
    [status |-> "open", finisher |-> Nobody, canceller |-> Nobody,
     assignee |-> assignee, assigner |-> assigner]
NewNote(u) == [author |-> u, editor |-> Nobody, deleter |-> Nobody, deleted |-> FALSE]
NoMove == [by |-> 0, from |-> "none", to |-> "none", overtook |-> FALSE, behind |-> {}]
NoNotice == [by |-> 0, to |-> "none"]
NoEvidence == [artifacts |-> [a \in Artifacts |-> "absent"], collected |-> TRUE,
               validated |-> FALSE, exported |-> FALSE, ready |-> FALSE, requested |-> FALSE]

\* A case is met at any status its operators can have brought it to.
Init ==
    /\ table \in Tables
    /\ IF table = "case" THEN \E s \in Met : row = NewCase(s) ELSE row = Absent
    /\ request = [r \in Requests |-> Idle]
    /\ lastMove = NoMove
    /\ notice = NoNotice
    /\ log = {}
    /\ evidence = NoEvidence
    /\ exports = {}
    /\ overtaken = FALSE
    /\ untold = {}

At(r, pc) == request[r].pc = pc
Op(r) == request[r].op

\* Requests 2 and 3 are alike: 3 begins after 2.
Turn(r) == r = 3 => ~At(2, "idle")

\* Refused, answered, or lost with the process that served it.
End(r) == request' = [request EXCEPT ![r] = [Idle EXCEPT !.pc = "over"]]
Admit(r, u, op, pc, columns) ==
    request' = [request EXCEPT ![r] =
                    [Idle EXCEPT !.pc = pc, !.user = u, !.op = op, !.read = columns]]

\* The row is read and the request checked against it.
Begin(r, u, op) ==
    /\ At(r, "idle") /\ Exists /\ Turn(r)
    /\ table = "case" => r # Worker
    /\ op \in Operations(table)
    /\ IF Can(u, "incident:write") /\ Handler(u, op, row, row).ok
       THEN Admit(r, u, op, "write", row)
       ELSE End(r)
    /\ UNCHANGED <<table, row, trail, evidence, exports, overtaken>>

\* An export of the case has been built: its row is ready, and the worker looks
\* whether the case waits for it.
BeginSync ==
    /\ table = "case" /\ At(Worker, "idle")
    /\ IF SyncAfterExport(row).ok
       THEN Admit(Worker, Nobody, [do |-> "sync", to |-> Nobody], "write", row)
       ELSE End(Worker)
    /\ evidence' = [evidence EXCEPT !.ready = TRUE, !.requested = TRUE, !.exported = TRUE]
    /\ UNCHANGED <<table, row, trail, exports, overtaken>>

\* Tasks and notes begin with their creation.
Created(u, rows) ==
    /\ ~Exists /\ At(1, "idle")
    /\ IF Can(u, "incident:write")
       THEN /\ row' \in rows
            /\ request' = [request EXCEPT ![1] =
                               [Idle EXCEPT !.pc = "log", !.left = <<"created", "audit">>]]
       ELSE End(1) /\ UNCHANGED row
    /\ UNCHANGED <<table, trail, evidence, exports, overtaken>>

CreateTask(u) ==
    table = "task" /\ Created(u, {NewTask(Nobody, Nobody)} \cup {NewTask(v, u) : v \in Owners})
CreateNote(u) == table = "note" /\ Created(u, {NewNote(u)})

Overtook(r) == row # request[r].read
Columns(r) == Handler(request[r].user, Op(r), request[r].read, request[r].read).set

\* Only the columns that differ from what was read are written.
Written(r) ==
    [c \in DOMAIN row |->
        IF c \in DOMAIN Columns(r) /\ Columns(r)[c] # request[r].read[c]
        THEN Columns(r)[c] ELSE row[c]]

\* The notice of its move is the next thing the request will append.
Owes(r) == At(r, "log") /\ request[r].left # <<>> /\ Head(request[r].left) = "status_changed"

\* The event of a move is in the commit of the row.  A request's is another one
\* than its notice; the worker's is the notice.
Commit(r) ==
    /\ At(r, "write")
    /\ row' = Written(r)
    /\ lastMove' = IF Op(r).do \in {"move", "sync"}
                   THEN [by |-> r, from |-> request[r].read.status, to |-> Columns(r).status,
                         overtook |-> Overtook(r), behind |-> {q \in Requests : Owes(q)}]
                   ELSE lastMove
    /\ notice' = IF Op(r).do = "sync" THEN [by |-> r, to |-> Columns(r).status] ELSE notice
    /\ overtaken' = (overtaken \/ Overtook(r))
    /\ request' = [request EXCEPT ![r] =
         [Idle EXCEPT !.pc = "log",
                      !.op = IF Op(r).do = "move" THEN Op(r) ELSE Idle.op,
                      !.left = Handler(request[r].user, Op(r), request[r].read, Written(r)).log]]
    /\ UNCHANGED <<table, log, untold, evidence, exports>>

\* INCIDENT_STATUS_CHANGED of a request, in a commit of its own.
Tell(r) ==
    /\ Owes(r)
    /\ notice' = [by |-> r, to |-> Op(r).to]
    /\ request' = [request EXCEPT ![r].op = Idle.op, ![r].left = Tail(@)]
    /\ UNCHANGED <<table, row, lastMove, log, untold, evidence, exports, overtaken>>

\* The other entries are appended one by one, and nobody acts on them: they are
\* one step, which the loss of the process cuts short.
Log(r) ==
    /\ At(r, "log") /\ ~Owes(r)
    /\ \E k \in 0..Len(request[r].left) :
        LET written == {request[r].left[i] : i \in 1..k}
        IN /\ log' = log \cup written
           /\ evidence' = IF "export_requested" \in written
                          THEN [evidence EXCEPT !.exported = TRUE] ELSE evidence
    /\ End(r)
    /\ UNCHANGED <<table, row, lastMove, notice, untold, exports, overtaken>>

\* The process that serves the request is lost.
Lose(r) ==
    /\ request[r].pc \in {"write", "artifacts", "events", "exports", "create"} \/ Owes(r)
    /\ untold' = IF Owes(r) THEN untold \cup {r} ELSE untold
    /\ End(r)
    /\ UNCHANGED <<table, row, lastMove, notice, log, evidence, exports, overtaken>>

-----------------------------------------------------------------------------
(* The request for an export, which reads the case, its artifacts, its     *)
(* events and its exports one after the other                              *)

BeginExport(r, u) ==
    /\ table = "case" /\ r # Worker
    /\ At(r, "idle") /\ Turn(r)
    /\ IF Can(u, "export:write")
       THEN Admit(r, Nobody, [do |-> "export", to |-> Nobody], "artifacts",
                  [status |-> row.status])
       ELSE End(r)
    /\ UNCHANGED <<table, row, trail, evidence, exports, overtaken>>

\* What has been read so far is kept next to the case's columns.
Keep(r, pc, columns) ==
    LET read == request[r].read
    IN request' = [request EXCEPT ![r].pc = pc,
         ![r].read = [c \in DOMAIN read \cup DOMAIN columns |->
                        IF c \in DOMAIN columns THEN columns[c] ELSE read[c]]]

ReadArtifacts(r) ==
    /\ At(r, "artifacts")
    /\ Keep(r, "events", [artifacts |-> evidence.artifacts])
    /\ UNCHANGED <<table, row, trail, evidence, exports, overtaken>>

ReadEvents(r) ==
    /\ At(r, "events")
    /\ Keep(r, "exports", [collected |-> evidence.collected, validated |-> evidence.validated,
                           exported |-> evidence.exported])
    /\ UNCHANGED <<table, row, trail, evidence, exports, overtaken>>

ReadExports(r) ==
    /\ At(r, "exports")
    /\ Keep(r, "create", [ready |-> evidence.ready, requested |-> evidence.requested])
    /\ UNCHANGED <<table, row, trail, evidence, exports, overtaken>>

\* Refused when critical evidence is missing; created with a warning when
\* something else is.
CreateExport(r) ==
    /\ At(r, "create")
    /\ LET state == Readiness(request[r].read.status, request[r].read)
       IN IF state = "not_ready"
          THEN /\ End(r)
               /\ UNCHANGED <<exports, evidence>>
          ELSE /\ exports' = exports \cup
                    {[by |-> r, status |-> request[r].read.status,
                      warned |-> state = "conditionally_ready"]}
               /\ evidence' = [evidence EXCEPT !.requested = TRUE]
               /\ request' = [request EXCEPT ![r].pc = "log", 
                    ![r].left = <<"export_requested", "publish", "export_queued">>]
    /\ UNCHANGED <<table, row, trail, overtaken>>

\* The capture tasks and the driver's uploads, as far as the desk sees them:
\* nobody looks at the evidence unless a request is about to read it.
EvidenceArrives ==
    /\ \E r \in Requests : request[r].pc \in {"artifacts", "events", "exports", "create"}
    /\ \/ \E a \in Artifacts, s \in ArtifactStatuses \ {"absent"} :
            /\ evidence.artifacts[a] \in {"absent", "pending", "unavailable"}
            /\ evidence.artifacts[a] # s
            /\ s = "pending" => evidence.artifacts[a] = "absent"
            /\ evidence' = [evidence EXCEPT !.artifacts[a] = s]
       \/ ~evidence.validated /\ evidence' = [evidence EXCEPT !.validated = TRUE]
    /\ UNCHANGED <<table, row, request, trail, exports, overtaken>>

-----------------------------------------------------------------------------
Continue(r) ==
    Commit(r) \/ Tell(r) \/ Log(r)
      \/ ReadArtifacts(r) \/ ReadEvents(r) \/ ReadExports(r) \/ CreateExport(r)

Next ==
    \/ \E r \in Requests :
        \/ Continue(r)
        \/ Lose(r)
        \/ \E u \in Users :
            \/ BeginExport(r, u)
            \/ \E op \in Operations(table) : Begin(r, u, op)
    \/ \E u \in Users : CreateTask(u) \/ CreateNote(u)
    \/ BeginSync
    \/ EvidenceArrives

Spec == Init /\ [][Next]_vars

-----------------------------------------------------------------------------
(* Properties                                                              *)

TypeOK ==
    /\ table \in Tables
    /\ Exists => DOMAIN row = DOMAIN (CASE table = "case" -> NewCase("new")
                                        [] table = "task" -> NewTask(Nobody, Nobody)
                                        [] OTHER -> NewNote(Nobody))
    /\ \A r \in Requests :
        /\ request[r].pc \in {"idle", "write", "artifacts", "events", "exports", "create",
                             "log", "over"}
        /\ request[r].user \in Users \cup {Nobody}
    /\ evidence.artifacts \in [Artifacts -> ArtifactStatuses]
    /\ overtaken \in BOOLEAN

\* A task has a finisher exactly when it is completed and a canceller exactly
\* when it is cancelled, a note a deleter exactly when it is deleted, a case an
\* assigner exactly when it has an owner, and a task's events tell of one end of
\* it: only a request that commits over a row it has not read can leave a row
\* with columns of two requests, or a task that was both completed and cancelled.
RowTellsOneStory ==
    TypeOK /\ ((Exists /\ ~overtaken) =>
        CASE table = "case" -> (row.owner = Nobody) = (row.by = Nobody)
          [] table = "task" ->
                /\ (row.status = "completed") = (row.finisher # Nobody)
                /\ (row.status = "canceled") = (row.canceller # Nobody)
                /\ (row.assignee = Nobody) = (row.assigner = Nobody)
                /\ ~({"completed", "canceled"} \subseteq log)
          [] OTHER -> row.deleted = (row.deleter # Nobody))

\* A closed case is left only for in_review and by one who may reopen it, a
\* finished task keeps its status, and a deleted note its editor, unless the
\* request had read the row before it was closed, finished or deleted.  Whatever
\* a request has read, only one who may close cases closes one.
EndStatesHold ==
    [][LET commits(r) == At(r, "write") /\ request'[r].pc = "log"
       IN (Exists /\ row' # row) => \E r \in Requests :
            /\ commits(r)
            /\ (table = "case" /\ row.status = "closed" /\ row'.status # "closed") =>
                    \/ Overtook(r)
                    \/ row'.status = "in_review" /\ Can(request[r].user, "incident:reopen")
            /\ (table = "case" /\ row.status # "closed" /\ row'.status = "closed") =>
                    r # Worker /\ Can(request[r].user, "incident:close")
            /\ (table = "task" /\ row.status # "open" /\ row'.status # row.status) => Overtook(r)
            /\ (table = "note" /\ row.deleted /\ row'.editor # row.editor) => Overtook(r)
      ]_vars

\* The event committed with the last move tells the status the case has, except
\* for a request that asked for the status it had read and was overtaken.  The
\* last notice is that of the last move, unless that move's request has it still
\* to write or was lost before it, or a request that had moved the case before,
\* and had its notice still to write then, has written it since.
TrailTellsStatus ==
    lastMove = NoMove \/
        /\ row.status = lastMove.to \/ (lastMove.overtook /\ lastMove.from = lastMove.to)
        /\ \/ notice = [by |-> lastMove.by, to |-> lastMove.to]
           \/ Owes(lastMove.by) \/ lastMove.by \in untold
           \/ notice.by \in lastMove.behind

\* An export is created without a warning only when the case is closed or
\* exported already, or another export of it is ready and its timeline is
\* validated: artifacts and timeline alone never reach the threshold.
CleanExportIsEarned ==
    \A e \in exports :
        e.warned \/ e.status \in {"closed", "exported"} \/ (evidence.ready /\ evidence.validated)
==============================================================================
