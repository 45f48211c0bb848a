--------------------------- MODULE ExportPipeline ---------------------------
(***************************************************************************)
(* The export pipeline: the API handlers that create an export row and     *)
(* enqueue its build, the broker that delivers the build task at least     *)
(* once, the Celery workers that run build_export, the exports table, the  *)
(* vault that holds the packages and the append-only event log.            *)
(*                                                                         *)
(* One action per database commit (or vault write): what a step does       *)
(* between two commits no other process can see.  The SQLAlchemy session   *)
(* is modelled by "seen", the status its identity map holds for the row:   *)
(* a commit expires it, a read or refresh loads it, and a SELECT ... FOR   *)
(* UPDATE does not reload what is already loaded.  update_export validates *)
(* the transition against "seen", not against the locked row.              *)
(***************************************************************************)
EXTENDS Naturals, FiniteSets, Sequences

CONSTANTS Exports,       \* identifiers of export rows
          Requests,      \* invocations of the API handlers
          Workers,       \* Celery worker processes on the "exports" queue
          Keys,          \* idempotency keys clients send
          None,          \* no key, no parent, no attempt
          MaxRetries,    \* max_retries of build_export
          MaxCrashes,    \* bound: processes lost, workers or API handlers
          MaxOutages,    \* bound: exception handlers the database fails
          MaxCopies,     \* bound: deliveries repeated while the first one runs
          MaxRequeues    \* bound: dead-lettered jobs an operator requeues

ASSUME BoundsAssumption ==
          /\ MaxRetries \in Nat /\ MaxCrashes \in Nat /\ MaxOutages \in Nat
          /\ MaxCopies \in Nat /\ MaxRequeues \in Nat
ASSUME NoneAssumption == None \notin Exports \cup Keys

VARIABLES row,           \* row[e]: the exports table
          vault,         \* vault[e]: build stored under e's key, 0 if none
          builds,        \* builds[e]: packages assembled for e so far
          caseStatus,    \* incidents.case_status of the incident exported
          requested,     \* EXPORT_REQUESTED events, oldest first
          log,           \* log[e]: kinds of the other events recorded for e
          generated,     \* generated[e]: sha256 in each EXPORT_GENERATED event
          req,           \* req[r]: an API handler and what it holds
          queue,         \* messages the broker can deliver
          wk,            \* wk[w]: a worker and what its session holds
          deadLetters,   \* exports whose task ran out of retries
          crashes, outages, copies, requeues

api == <<req, requested>>
broker == <<queue, deadLetters, crashes, outages, copies, requeues>>
store == <<vault, builds, caseStatus, generated>>
vars == <<row, vault, builds, caseStatus, requested, log, generated, req,
          queue, wk, deadLetters, crashes, outages, copies, requeues>>
-----------------------------------------------------------------------------
(* The status machine and the session's view of a row. *)

Statuses == {"requested", "queued", "processing", "ready", "failed", "expired"}

ExportAllowedTransitions ==
   [s \in Statuses |->
      CASE s = "requested"  -> {"queued", "processing", "ready", "failed"}
        [] s = "queued"     -> {"processing", "failed", "expired"}
        [] s = "processing" -> {"ready", "failed", "expired"}
        [] s = "ready"      -> {"expired"}
        [] s = "failed"     -> {"requested"}
        [] s = "expired"    -> {}]

ValidTransition(from, to) == from = to \/ to \in ExportAllowedTransitions[from]

\* A flush writes the column only when it differs from the value loaded.
Flushed(loaded, new, stored) == IF loaded = new THEN stored ELSE new

Absent == "absent"        \* no row yet
Expired == "expired_attr" \* the session must reload the status

Stages == {"request_accepted", "gathering_incident_data", "assembling_documents",
           "packaging_evidence", "uploading_export", "ready_for_download"}

Rows == [status : Statuses \cup {Absent}, stage : Stages,
         attempt : Exports \cup {None}, parent : Exports \cup {None},
         s3_key : BOOLEAN, sha : Nat]

NoRow == [status |-> Absent, stage |-> "request_accepted", attempt |-> None,
          parent |-> None, s3_key |-> FALSE, sha |-> 0]

Exists(e) == row[e].status # Absent

Messages == [exp : Exports, tries : 0..MaxRetries, copy : 0..MaxCopies]

HandlerSteps == {"idle", "create", "announce", "publish", "mark_queued",
                 "log_queued", "done", "error", "dead"}
Handlers == [pc : HandlerSteps, key : Keys \cup {None},
             exp : Exports \cup {None}, parent : Exports \cup {None}]
IdleHandler == [pc |-> "idle", key |-> None, exp |-> None, parent |-> None]

\* A handler that has created its row and may still write "queued" to it.
Outstanding(r) == req[r].pc \in {"announce", "publish", "mark_queued"}

BuildSteps == {"begin", "announce", "gather", "assemble", "package",
               "open_upload", "put", "finalize", "stamp", "sync",
               "log_uploaded", "check_generated", "log_generated"}
StageSteps == {"gather", "assemble", "package", "open_upload"}
WorkerSteps == BuildSteps \cup
               {"idle", "load", "finish", "mark_failed", "log_failed", "retry"}
WorkerStates == [pc : WorkerSteps, msg : Messages \cup {None},
                 held : BOOLEAN, build : Nat,
                 seen : Statuses \cup {Absent, Expired}]
IdleWorker == [pc |-> "idle", msg |-> None, held |-> FALSE, build |-> 0,
               seen |-> Expired]

Seen(w) == IF wk[w].seen = Expired THEN row[wk[w].msg.exp].status ELSE wk[w].seen

EventKinds == {"EXPORT_RETRY_REQUESTED", "EXPORT_QUEUED", "EXPORT_REQUESTED",
               "EXPORT_PROCESSING_STARTED", "EXPORT_PACKAGE_UPLOADED",
               "EXPORT_FAILED"}

TypeOK == /\ row \in [Exports -> Rows]
          /\ vault \in [Exports -> Nat]
          /\ builds \in [Exports -> Nat]
          /\ caseStatus \in {"in_review", "ready_for_export", "exported"}
          /\ requested \in Seq([exp : Exports, key : Keys \cup {None}])
          /\ log \in [Exports -> SUBSET EventKinds]
          /\ generated \in [Exports -> Seq(Nat)]
          /\ req \in [Requests -> Handlers]
          /\ queue \in SUBSET Messages
          /\ wk \in [Workers -> WorkerStates]
          /\ deadLetters \in SUBSET Exports
          /\ crashes \in 0..MaxCrashes
          /\ outages \in 0..MaxOutages
          /\ copies \in 0..MaxCopies
          /\ requeues \in 0..MaxRequeues

Init == /\ row = [e \in Exports |-> NoRow]
        /\ vault = [e \in Exports |-> 0]
        /\ builds = [e \in Exports |-> 0]
        /\ caseStatus \in {"in_review", "ready_for_export"}
        /\ requested = <<>>
        /\ log = [e \in Exports |-> {}]
        /\ generated = [e \in Exports |-> <<>>]
        /\ req = [r \in Requests |-> IdleHandler]
        /\ queue = {}
        /\ wk = [w \in Workers |-> IdleWorker]
        /\ deadLetters = {}
        /\ crashes = 0 /\ outages = 0 /\ copies = 0 /\ requeues = 0
-----------------------------------------------------------------------------
(* API: POST /exports and POST /exports/{id}/retry. *)

Advance(r, from, to) == /\ req[r].pc = from
                        /\ req' = [req EXCEPT ![r].pc = to]

\* The EXPORT_REQUESTED events that carry key k.
PriorRequests(k) == {i \in DOMAIN requested : k # None /\ requested[i].key = k}

\* create_export_endpoint up to create_export: the newest request with the
\* same key answers this one; when there is none a row is to be created.
Submit(r, k) ==
   /\ req[r].pc = "idle"
   /\ \/ /\ PriorRequests(k) = {}
         /\ req' = [req EXCEPT ![r] = [@ EXCEPT !.pc = "create", !.key = k]]
      \/ \E i \in PriorRequests(k) :
            /\ \A j \in PriorRequests(k) : j <= i
            /\ req' = [req EXCEPT ![r] = [@ EXCEPT !.pc = "done", !.key = k,
                                                   !.exp = requested[i].exp]]
   /\ UNCHANGED <<row, requested, log, store, wk, broker>>

\* retry_export_endpoint up to create_export: only a failed export is retried.
SubmitRetry(r, e) ==
   /\ req[r].pc = "idle"
   /\ Exists(e)
   /\ IF row[e].status = "failed"
      THEN req' = [req EXCEPT ![r] = [@ EXCEPT !.pc = "create", !.parent = e]]
      ELSE req' = [req EXCEPT ![r] = [@ EXCEPT !.pc = "error", !.parent = e]]
   /\ UNCHANGED <<row, requested, log, store, wk, broker>>

\* create_export; a retry inherits its parent's options_json.
CreateRow(r) ==
   /\ req[r].pc = "create"
   /\ \E e \in Exports :
         /\ ~Exists(e)
         /\ row' = [row EXCEPT ![e] =
               [NoRow EXCEPT !.status = "requested", !.parent = req[r].parent,
                             !.attempt = IF req[r].parent = None THEN None
                                         ELSE row[req[r].parent].attempt]]
         /\ req' = [req EXCEPT ![r] = [@ EXCEPT !.pc = "announce", !.exp = e]]
   /\ UNCHANGED <<requested, log, store, wk, broker>>

\* create_event(EXPORT_REQUESTED) or create_event(EXPORT_RETRY_REQUESTED).
LogRequested(r) ==
   /\ Advance(r, "announce", "publish")
   /\ IF req[r].parent = None
      THEN /\ requested' = Append(requested, [exp |-> req[r].exp, key |-> req[r].key])
           /\ UNCHANGED log
      ELSE /\ log' = [log EXCEPT ![req[r].exp] = @ \cup {"EXPORT_RETRY_REQUESTED"}]
           /\ UNCHANGED requested
   /\ UNCHANGED <<row, store, wk, broker>>

\* build_export.delay: evaluating its arguments loads the row, whose status
\* is "requested", into the handler's session; then the message is published.
Publish(r) ==
   /\ Advance(r, "publish", "mark_queued")
   /\ queue' = queue \cup {[exp |-> req[r].exp, tries |-> 0, copy |-> 0]}
   /\ UNCHANGED <<row, requested, log, store, wk, deadLetters, crashes, outages,
                  copies, requeues>>

\* The broker is unreachable: the client gets 502, the row stays.
PublishFails(r) ==
   /\ Advance(r, "publish", "error")
   /\ UNCHANGED <<row, requested, log, store, wk, broker>>

\* update_export(status="queued"), validated against the "requested" loaded
\* before the publish, whatever the worker has written since.
MarkQueued(r) ==
   /\ Advance(r, "mark_queued", "log_queued")
   /\ ValidTransition("requested", "queued")
   /\ row' = [row EXCEPT ![req[r].exp].status = Flushed("requested", "queued", @)]
   /\ UNCHANGED <<requested, log, store, wk, broker>>

\* create_event(EXPORT_QUEUED), then the response.
LogQueued(r) ==
   /\ Advance(r, "log_queued", "done")
   /\ log' = [log EXCEPT ![req[r].exp] = @ \cup {"EXPORT_QUEUED"}]
   /\ UNCHANGED <<row, requested, store, wk, broker>>

\* The API process is lost while it handles the request.
HandlerDies(r) ==
   /\ req[r].pc \in {"create", "announce", "publish", "mark_queued", "log_queued"}
   /\ crashes < MaxCrashes
   /\ crashes' = crashes + 1
   /\ req' = [req EXCEPT ![r].pc = "dead"]
   /\ UNCHANGED <<row, requested, log, store, wk, queue, deadLetters, outages,
                  copies, requeues>>

\* What the handler does on its own once a client called it.
HandlerStep(r) == \/ CreateRow(r) \/ LogRequested(r) \/ Publish(r)
                  \/ PublishFails(r) \/ MarkQueued(r) \/ LogQueued(r)
-----------------------------------------------------------------------------
(* Worker: build_export, from its delivery to the acknowledgement. *)

Exp(w) == wk[w].msg.exp
At(w, step) == wk[w].pc = step
\* The status update_export(status=to) leaves in the row of the worker's export.
Written(w, to) == Flushed(Seen(w), to, row[Exp(w)].status)

GoTo(w, step) == wk' = [wk EXCEPT ![w].pc = step, ![w].seen = Expired]

\* The broker delivers a message to an idle worker.
Take(w) ==
   /\ At(w, "idle")
   /\ \E m \in queue :
         /\ queue' = queue \ {m}
         /\ wk' = [wk EXCEPT ![w] = [IdleWorker EXCEPT !.pc = "load", !.msg = m,
                                                       !.held = TRUE]]
   /\ UNCHANGED <<row, store, log, api, deadLetters, crashes, outages, copies, requeues>>

\* Mutant of DuplicateWork: a failed export counts as finished work.
DuplicateWorkOrFailed(e) ==
   \/ row[e].status = "ready" /\ row[e].s3_key
   \/ row[e].status = "processing" /\ row[e].attempt \notin {None, e}
   \/ row[e].status = "failed"

\* get_export, and the two early returns for work already done or under way
\* in another attempt (the attempt id is a function of the export alone).
DuplicateWork(e) ==
   \/ row[e].status = "ready" /\ row[e].s3_key
   \/ row[e].status = "processing" /\ row[e].attempt \notin {None, e}

Load(w) ==
   /\ At(w, "load")
   /\ IF DuplicateWork(Exp(w))
      THEN GoTo(w, "finish")
      ELSE wk' = [wk EXCEPT ![w].pc = "begin", ![w].seen = row[Exp(w)].status]
   /\ UNCHANGED <<row, store, log, api, broker>>

\* Mutant of Begin: the attempt id is not stored.
BeginKeepsAttempt(w) ==
   /\ At(w, "begin")
   /\ ValidTransition(Seen(w), "processing")
   /\ row' = [row EXCEPT ![Exp(w)] =
         [@ EXCEPT !.status = Written(w, "processing"),
                   !.stage = "gathering_incident_data"]]
   /\ GoTo(w, "announce")
   /\ UNCHANGED <<store, log, api, broker>>

\* update_export(status="processing") on the row loaded by get_export.
Begin(w) ==
   /\ At(w, "begin")
   /\ ValidTransition(Seen(w), "processing")
   /\ row' = [row EXCEPT ![Exp(w)] =
         [@ EXCEPT !.status = Written(w, "processing"),
                   !.stage = "gathering_incident_data", !.attempt = Exp(w)]]
   /\ GoTo(w, "announce")
   /\ UNCHANGED <<store, log, api, broker>>

\* EXPORT_REQUESTED unless the request logged it, EXPORT_PROCESSING_STARTED.
Announce(w) ==
   /\ At(w, "announce")
   /\ LET byRequest == \E i \in DOMAIN requested : requested[i].exp = Exp(w)
      IN  log' = [log EXCEPT ![Exp(w)] =
                    @ \cup {"EXPORT_PROCESSING_STARTED"} \cup
                    (IF byRequest THEN {} ELSE {"EXPORT_REQUESTED"})]
   /\ GoTo(w, "gather")
   /\ UNCHANGED <<row, store, api, broker>>

\* _set_progress_stage: the event before it expired the row, so the status
\* is checked against the stored one.
SetProgressStage(w, stage) ==
   /\ ValidTransition(row[Exp(w)].status, "processing")
   /\ row' = [row EXCEPT ![Exp(w)].status = "processing", ![Exp(w)].stage = stage]

Gather(w) ==
   /\ At(w, "gather")
   /\ SetProgressStage(w, "gathering_incident_data")
   /\ GoTo(w, "assemble")
   /\ UNCHANGED <<store, log, api, broker>>

\* build_export_package reads the incident's events, its own included: every
\* build has other bytes, hence the build number for its content and sha256.
Assemble(w) ==
   /\ At(w, "assemble")
   /\ SetProgressStage(w, "assembling_documents")
   /\ builds' = [builds EXCEPT ![Exp(w)] = @ + 1]
   /\ wk' = [wk EXCEPT ![w].pc = "package", ![w].seen = Expired,
                       ![w].build = builds[Exp(w)] + 1]
   /\ UNCHANGED <<vault, caseStatus, generated, log, api, broker>>

Package(w) ==
   /\ At(w, "package")
   /\ SetProgressStage(w, "packaging_evidence")
   /\ GoTo(w, "open_upload")
   /\ UNCHANGED <<store, log, api, broker>>

\* The refresh that ends update_export leaves the status loaded, and nothing
\* commits before the next update_export: the upload's result is validated
\* against what the row held here.
OpenUpload(w) ==
   /\ At(w, "open_upload")
   /\ SetProgressStage(w, "uploading_export")
   /\ wk' = [wk EXCEPT ![w].pc = "put", ![w].seen = "processing"]
   /\ UNCHANGED <<store, log, api, broker>>

\* Mutant of Put: the package is stored under a key the row does not name.
PutElsewhere(w) ==
   /\ At(w, "put")
   /\ wk' = [wk EXCEPT ![w].pc = "finalize"]
   /\ UNCHANGED <<row, store, log, api, broker>>

\* put_bytes under a key that depends on the export alone.
Put(w) ==
   /\ At(w, "put")
   /\ vault' = [vault EXCEPT ![Exp(w)] = wk[w].build]
   /\ wk' = [wk EXCEPT ![w].pc = "finalize"]
   /\ UNCHANGED <<row, builds, caseStatus, generated, log, api, broker>>

\* Mutant of Finalize: the digest is left to the second update_export.
FinalizeWithoutDigest(w) ==
   /\ At(w, "finalize")
   /\ ValidTransition(Seen(w), "ready")
   /\ row' = [row EXCEPT ![Exp(w)] =
         [@ EXCEPT !.status = Written(w, "ready"),
                   !.stage = "ready_for_download", !.s3_key = TRUE]]
   /\ GoTo(w, "stamp")
   /\ UNCHANGED <<store, log, api, broker>>

\* update_export(status="ready", ...) with the key and digest of the package.
Finalize(w) ==
   /\ At(w, "finalize")
   /\ ValidTransition(Seen(w), "ready")
   /\ row' = [row EXCEPT ![Exp(w)] =
         [@ EXCEPT !.status = Written(w, "ready"),
                   !.stage = "ready_for_download",
                   !.s3_key = TRUE, !.sha = wk[w].build]]
   /\ GoTo(w, "stamp")
   /\ UNCHANGED <<store, log, api, broker>>

\* The second update_export: digest and size only.
Stamp(w) ==
   /\ At(w, "stamp")
   /\ row' = [row EXCEPT ![Exp(w)].sha = wk[w].build]
   /\ GoTo(w, "sync")
   /\ UNCHANGED <<store, log, api, broker>>

\* _sync_incident_case_status_after_export.
SyncCaseStatus(w) ==
   /\ At(w, "sync")
   /\ caseStatus' = IF caseStatus = "ready_for_export" THEN "exported" ELSE caseStatus
   /\ GoTo(w, "log_uploaded")
   /\ UNCHANGED <<row, vault, builds, generated, log, api, broker>>

LogUploaded(w) ==
   /\ At(w, "log_uploaded")
   /\ log' = [log EXCEPT ![Exp(w)] = @ \cup {"EXPORT_PACKAGE_UPLOADED"}]
   /\ GoTo(w, "check_generated")
   /\ UNCHANGED <<row, store, api, broker>>

\* Mutant of CheckGenerated: the event is inserted without looking.
CheckGeneratedSkipped(w) ==
   /\ At(w, "check_generated")
   /\ GoTo(w, "log_generated")
   /\ UNCHANGED <<row, store, log, api, broker>>

\* _emit_once reads the events and then inserts: two steps.
CheckGenerated(w) ==
   /\ At(w, "check_generated")
   /\ IF generated[Exp(w)] = <<>>
      THEN GoTo(w, "log_generated")
      ELSE GoTo(w, "finish")
   /\ UNCHANGED <<row, store, log, api, broker>>

LogGenerated(w) ==
   /\ At(w, "log_generated")
   /\ generated' = [generated EXCEPT ![Exp(w)] = Append(@, wk[w].build)]
   /\ GoTo(w, "finish")
   /\ UNCHANGED <<row, vault, builds, caseStatus, log, api, broker>>

\* The task returns and, acks_late, its message is acknowledged.
Finish(w) ==
   /\ At(w, "finish")
   /\ wk' = [wk EXCEPT ![w] = IdleWorker]
   /\ UNCHANGED <<row, store, log, api, broker>>
-----------------------------------------------------------------------------
(* Worker: the exception path and the retries. *)

\* What the exception handler finds loaded: before the runtime context exists
\* nothing is saved, afterwards _persist_warnings commits and refreshes.
SeenOnRaise(w) == IF wk[w].pc = "begin" THEN Seen(w) ELSE row[Exp(w)].status

Raise(w) == /\ wk' = [wk EXCEPT ![w].pc = "mark_failed", ![w].seen = SeenOnRaise(w)]
            /\ UNCHANGED <<row, store, log, api, broker>>

\* validate_export_transition refuses the step.
Refused(w) ==
   /\ \/ At(w, "begin") /\ ~ValidTransition(Seen(w), "processing")
      \/ wk[w].pc \in StageSteps /\ ~ValidTransition(row[Exp(w)].status, "processing")
      \/ At(w, "finalize") /\ ~ValidTransition(Seen(w), "ready")
   /\ Raise(w)

\* A query, the vault, the renderer or the soft time limit raises.
BuildFails(w) == wk[w].pc \in BuildSteps /\ Raise(w)

\* Mutant of MarkFailed: the failure is written over whatever the row holds.
MarkFailedUnchecked(w) ==
   /\ At(w, "mark_failed")
   /\ row' = [row EXCEPT ![Exp(w)].status = "failed"]
   /\ GoTo(w, "log_failed")
   /\ UNCHANGED <<store, log, api, broker>>

\* update_export(status="failed"); an invalid transition leaves the handler
\* by a second exception, which the retry machinery sees all the same.
MarkFailed(w) ==
   /\ At(w, "mark_failed")
   /\ IF ValidTransition(Seen(w), "failed")
      THEN /\ row' = [row EXCEPT ![Exp(w)].status = Written(w, "failed")]
           /\ GoTo(w, "log_failed")
      ELSE /\ GoTo(w, "retry")
           /\ UNCHANGED row
   /\ UNCHANGED <<store, log, api, broker>>

LogFailed(w) ==
   /\ At(w, "log_failed")
   /\ log' = [log EXCEPT ![Exp(w)] = @ \cup {"EXPORT_FAILED"}]
   /\ GoTo(w, "retry")
   /\ UNCHANGED <<row, store, api, broker>>

\* The database fails under the exception handler itself: what it had to save
\* is not saved and its own exception reaches the retry machinery.
HandlerRaises(w) ==
   /\ wk[w].pc \in {"mark_failed", "log_failed"} /\ outages < MaxOutages
   /\ outages' = outages + 1
   /\ GoTo(w, "retry")
   /\ UNCHANGED <<row, store, log, api, queue, deadLetters, crashes, copies, requeues>>

\* Mutant of AutoRetry: one retry too many.
AutoRetryOneMore(w) ==
   /\ At(w, "retry")
   /\ wk' = [wk EXCEPT ![w] = IdleWorker]
   /\ IF wk[w].msg.tries <= MaxRetries
      THEN /\ queue' = queue \cup {[wk[w].msg EXCEPT !.tries = @ + 1]}
           /\ UNCHANGED deadLetters
      ELSE /\ deadLetters' = deadLetters \cup {Exp(w)}
           /\ UNCHANGED queue
   /\ UNCHANGED <<row, store, log, api, crashes, outages, copies, requeues>>

\* autoretry_for: the task is published again with one more retry, or, when
\* none is left, recorded as a dead letter.
AutoRetry(w) ==
   /\ At(w, "retry")
   /\ wk' = [wk EXCEPT ![w] = IdleWorker]
   /\ IF wk[w].msg.tries < MaxRetries
      THEN /\ queue' = queue \cup {[wk[w].msg EXCEPT !.tries = @ + 1]}
           /\ UNCHANGED deadLetters
      ELSE /\ deadLetters' = deadLetters \cup {Exp(w)}
           /\ UNCHANGED queue
   /\ UNCHANGED <<row, store, log, api, crashes, outages, copies, requeues>>

WorkerStep(w) ==
   \/ Take(w) \/ Load(w) \/ Begin(w) \/ Announce(w) \/ Gather(w) \/ Assemble(w)
   \/ Package(w) \/ OpenUpload(w) \/ Put(w) \/ Finalize(w) \/ Stamp(w)
   \/ SyncCaseStatus(w) \/ LogUploaded(w) \/ CheckGenerated(w) \/ LogGenerated(w)
   \/ Finish(w)
   \/ Refused(w) \/ MarkFailed(w) \/ LogFailed(w) \/ AutoRetry(w)

(* The broker and the operators. *)

\* Mutant of Crash: messages are acknowledged when they are received.
CrashAckedEarly(w) ==
   /\ ~At(w, "idle") /\ crashes < MaxCrashes
   /\ crashes' = crashes + 1
   /\ wk' = [wk EXCEPT ![w] = IdleWorker]
   /\ UNCHANGED <<row, store, log, api, queue, deadLetters, outages, copies, requeues>>

\* The worker process is lost; acks_late and reject_on_worker_lost give its
\* message back, unless the broker has already done so.
Crash(w) ==
   /\ ~At(w, "idle") /\ crashes < MaxCrashes
   /\ crashes' = crashes + 1
   /\ queue' = IF wk[w].held THEN queue \cup {wk[w].msg} ELSE queue
   /\ wk' = [wk EXCEPT ![w] = IdleWorker]
   /\ UNCHANGED <<row, store, log, api, deadLetters, outages, copies, requeues>>

\* The broker loses touch with a worker that goes on running and delivers the
\* message again.
Redeliver(w) ==
   /\ ~At(w, "idle") /\ wk[w].held /\ copies < MaxCopies
   /\ copies' = copies + 1
   /\ queue' = queue \cup {[wk[w].msg EXCEPT !.copy = copies + 1]}
   /\ wk' = [wk EXCEPT ![w].held = FALSE]
   /\ UNCHANGED <<row, store, log, api, deadLetters, crashes, outages, requeues>>

\* An operator requeues a dead-lettered job, with its retries restored.
Requeue(e) ==
   /\ e \in deadLetters /\ requeues < MaxRequeues
   /\ deadLetters' = deadLetters \ {e}
   /\ requeues' = requeues + 1
   /\ queue' = queue \cup {[exp |-> e, tries |-> 0, copy |-> 0]}
   /\ UNCHANGED <<row, store, log, api, wk, crashes, outages, copies>>
-----------------------------------------------------------------------------
Next == \/ \E r \in Requests : \/ \E k \in Keys \cup {None} : Submit(r, k)
                               \/ \E e \in Exports : SubmitRetry(r, e)
                               \/ HandlerStep(r)
                               \/ HandlerDies(r)
        \/ \E w \in Workers : \/ WorkerStep(w) \/ BuildFails(w) \/ HandlerRaises(w)
                              \/ Crash(w) \/ Redeliver(w)
        \/ \E e \in Exports : Requeue(e)

Spec == Init /\ [][Next]_vars

\* Handlers that were called and workers that hold a task go on; clients,
\* failures, the broker's mistakes and operators owe nothing.
Fairness == /\ \A r \in Requests : WF_vars(HandlerStep(r))
            /\ \A w \in Workers : WF_vars(WorkerStep(w))

FairSpec == Spec /\ Fairness
-----------------------------------------------------------------------------
(* Properties. *)

\* A row that offers a package offers one that is in the vault, under any
\* crash, repeated delivery or late write: the upload comes before the row.
OfferedPackageIsStored ==
   \A e \in Exports :
      row[e].status = "ready" \/ row[e].s3_key =>
         /\ row[e].s3_key
         /\ vault[e] \in 1..builds[e]
         /\ row[e].sha \in 1..builds[e]

\* While the broker delivers a task to one worker at a time, the digest in a
\* ready row is the digest of the package that a download would fetch, and the
\* row says that it is ready for download (download_export_endpoint hands the
\* two out together).
PackageIntegrity ==
   \A e \in Exports :
      row[e].status = "ready" => /\ row[e].sha = vault[e]
                                 /\ row[e].stage = "ready_for_download"

\* While the broker delivers a task to one worker at a time, EXPORT_GENERATED
\* is recorded at most once per export although recording it is a check and
\* then an insert, and never for a package that was not uploaded.
GeneratedOnce ==
   \A e \in Exports : /\ Len(generated[e]) <= 1
                      /\ generated[e] # <<>> => row[e].s3_key

\* A row that is being processed carries its own attempt id: a retry inherits
\* its parent's options_json, and with the parent's id in it a redelivery would
\* be taken for another attempt's duplicate and dropped.
ProcessingIsOwnAttempt ==
   \A e \in Exports : row[e].status = "processing" => row[e].attempt = e

\* The row's lifecycle as clients may rely on it (ExportLifecycle).
PhaseOf(status) == CASE status = Absent -> "none"
                     [] status \in {"requested", "queued", "processing"} -> "pending"
                     [] status = "ready" -> "ready"
                     [] status \in {"failed", "expired"} -> "failed"

EL == INSTANCE ExportLifecycle WITH
         phase <- [e \in Exports |-> PhaseOf(row[e].status)],
         late  <- [e \in Exports |-> \E r \in Requests : Outstanding(r) /\ req[r].exp = e]

\* While the broker delivers a task to one worker at a time, the pipeline
\* keeps that promise: an outcome is final but for the handler's late write.
ImplementsLifecycle == EL!Spec

\* No task is lost: an export whose build has begun and not ended is always in
\* the broker, in a worker, or on record as a dead letter.
NoTaskLost ==
   \A e \in Exports :
      row[e].status = "processing" =>
         \/ \E m \in queue : m.exp = e
         \/ \E w \in Workers : wk[w].pc # "idle" /\ Exp(w) = e
         \/ e \in deadLetters

\* However often its build fails or its worker is lost, an export that is being
\* processed reaches an outcome or the handler's late "queued", as long as the
\* exception handler itself gets through to the database.
ProcessingEnds ==
   \A e \in Exports :
      row[e].status = "processing"
         ~> row[e].status \in {"ready", "failed", "queued"} \/ outages > 0

\* A failure that clients go on seeing is in the incident's timeline in the end,
\* even when the worker is lost between the row's commit and the event's (but
\* not when the handler that records it fails).
FailureIsRecorded ==
   \A e \in Exports :
      row[e].status = "failed"
         ~> \/ "EXPORT_FAILED" \in log[e] \/ row[e].status # "failed"
            \/ outages > 0

\* Work on an export comes to its end, and its failure into the timeline.
ExportsSettle == ProcessingEnds /\ FailureIsRecorded

=============================================================================
