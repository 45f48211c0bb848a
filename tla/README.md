# Verification of the crash-evidence platform

The platform helps a carrier after a truck crash. A driver starts the protocol
from a phone; the backend opens an incident, captures the evidence that would
otherwise disappear (telematics, dashcam footage, weather), alerts the safety
manager, mails a crash packet to those who must know, and builds signed export
packages for insurers and counsel. What can go wrong is seldom inside one
function. It lies between an HTTP handler and the worker it started, between a
provider's answer and the commit that records it, between two deliveries of one
message.

This directory holds TLA+ models of those protocols, the TLC runs that check
them on small instances, and TLAPS proofs of what holds for every instance.

Run a model with `tlc -config ExportOne.cfg ExportPipelineMC`, and check the
proofs of a module with `tlapm ExportPipelineProofs.tla`.

## 1. Inventory

### What every component stands on

| Substrate | What the code relies on | How the models take it |
|---|---|---|
| PostgreSQL at READ COMMITTED | each statement sees what is committed when it starts; hardly any unique index, `FOR UPDATE` only on exports | one action per commit, or per read that a later step depends on |
| SQLAlchemy session (`autoflush=False`, `expire_on_commit`) | a loaded attribute is not reloaded, even by `SELECT ... FOR UPDATE`; a commit expires it; only changed columns are written | a field for what the session has seen (`seen`), and writes that do not look at the row |
| Celery (`tasks/celery_app.py`) | `acks_late`, `reject_on_worker_lost`, prefetch 1, visibility timeout 3600 s; automatic retry for `build_export`, `notify_safety_manager` and `dispatch_crash_packet` only; a dead letter after the last retry | a worker lost in the middle of a task puts the message back; a retry and the acknowledgement of its predecessor are one step; a repeated delivery is a bounded disturbance of its own |
| Event log (`db/repo/events.py`) | append-only; "once" means reading the log, then inserting (`_emit_once`) | two actions where the model counts the entries or keeps their order (`EXPORT_GENERATED`, the notification's events, the protocol events of an initiation); one where the log is a set, in which an entry that two runs append is one member, and in `Announce` of the telematics bundle |
| Vault | a put overwrites what is under the key | a function from keys to contents |
| Providers | accept or refuse; the answer may be lost after they accepted | external: an outcome chosen by `\E` |

### Components

Paths are below `src/backend/app/` unless they start with `driver-app/`.

| Component | State | Operations | Interacts with | Hard behaviours | What makes it correct | Module |
|---|---|---|---|---|---|---|
| Export pipeline: `api/routes_exports.py`, `tasks/export_tasks.py`, `db/repo/exports.py`, `domain/state_transitions.py` | `exports` rows, packages, events | request, client retry, build, fail, download | broker, vault, case workflow | the handler writes "queued" after publishing; redelivery; a failed row lets no retry in; stale transition check | an offered package is stored and is the one its digest names; outcomes are final; the task is not lost | `ExportPipeline`, `ExportLifecycle` |
| Safety-manager notification: `tasks/notification_tasks.py`, `db/repo/message_operations.py` | `message_operations`, notification events | send text, place call, retry | provider, webhooks, initiation | a send whose answer or record is lost is repeated | every message has an operation; each extra message has a cause | `SafetyNotification` |
| Provider webhooks: `integrations/webhooks/handlers.py` | `provider_webhook_events`, operation status | verify, deduplicate, apply, settle | notification | callbacks early, late, twice, forged, out of order | an operation claims only what the provider said of its own message | `SafetyNotification` |
| Incident initiation: `api/routes_driver.py`, `services/incident_workflow_service.py`, `driver-app/src/screens/IncidentStartLoadingScreen.tsx` | incidents, protocol events, queued tasks; the app's screen | initiate, recover after timeout, retry | every capture, notification | app timeout against a slow request; two drivers of one truck; death between commit and publish | one incident and one start per crash unless requests overlap; the driver is left waiting by nothing but a read that hangs | `IncidentInitiation` |
| Crash-packet delivery: `tasks/crash_packet_tasks.py`, `db/repo/crash_packet_deliveries.py` | one delivery row per incident | declare accident, dispatch, watchdog sweep | mail provider | watchdog against dispatch; redelivery after some mails; declaration cut in half | mails are announced, the row tells the truth, nothing stays unsettled unnoticed | `CrashPacketDelivery` |
| Dashcam capture: `tasks/evidence_tasks.py`, `services/dashcam_capture_service.py` | evidence requests, integration operations, artifacts, objects, events | capture, operator's retry | provider, vault | retry beside the first run under one idempotency key; soft time limit; redelivery | rows, objects, hashes, events and reported outcomes agree; operations and requests end | `DashcamCapture` |
| Telematics capture: `tasks/evidence_tasks.py`, `services/telematics_capture_service.py` | as dashcam, three renderings per dataset | capture, its own retries, operator's retry | provider, vault | a run broken off between two renderings; an unmapped vehicle | as dashcam; the renderings that one run made are of one answer | `TelematicsCapture` |
| Violation history, FMCSA: `tasks/evidence_tasks.py`, `services/fmcsa_attribution.py`, `db/repo/fmcsa_inspections.py`, `tasks/fmcsa_repoll_tasks.py` | the carrier's snapshots and inspections, matches per incident | capture, refresh | the authority, TMS unit history | the snapshot is fresh before its inspections are stored; slower pulls overwrite newer | a match is the best one for what the run has seen | `ViolationHistory`, `InspectionMatch` |
| TMS synchronisation: `services/tms_sync_service.py`, `db/repo/driver_unit_history.py` | connection, trailers, unit history | sync | source, violation history | a refused row makes the session unusable for the rest | rows are what the source said; status tells | `TmsSync` |
| The office's incident: `api/routes_incidents.py`, `services/incident_evidence_orchestrator.py` | requests, operations, the attempt event | create, queue the captures | every capture | the handler lost between two of many commits and messages, while the captures already run | what is said to be attempted was begun | `IncidentCaptures` |
| Weather, weather map: `services/weather_snapshot_service.py`, `services/weather/map_snapshot_service.py` | events, the map's artifact, a lock on the incident's row | two tasks | initiation, providers, vault | a lock held during provider calls, and given back before a failure is reported | one outcome of a kind; a captured map is there; nobody waits for ever | `WeatherSnapshots` |
| Driver app's upload queue and artifact upload: `driver-app/src/store/uploadQueueStore.ts`, `services/artifact_upload_service.py` | items in memory and in storage, artifact rows, objects | enqueue, persist, hydrate, begin, put, complete | each other, the case desk | app killed in mid-upload; missed answers; requests that hang; one key for all of a type | an answered item is kept; a captured row has its bytes; uploads done, the case is free | `UploadQueue` |
| Driver login and sessions: `api/routes_driver_auth.py`, `api/routes_auth.py`, `security/session.py` | challenges, sessions, refresh tokens | challenge, verify, log in, refresh, revoke | provider | a lock given back by a commit in between; counters read and written back; answers lost after a rotation | ended is ended; the holder can go on; a login is earned | `Sessions` |
| Case workflow, tasks and notes: `case_ops/`, `api/routes_incidents.py`, `api/routes/routes_tasks.py`, `routes_notes.py` | one row each; audit and events | status, owner, priority, export; complete, cancel, edit, delete | export worker | check, then a write of the columns that differ | a row tells one story; end states hold; the event of the last move tells the status, the notice that follows it in a commit of its own may be late or lost; an export without a warning is earned | `CaseWorkflow`, `CaseReadiness` |
| Job tracking: `jobs/tracking.py`, `db/repo/job_execution_meta.py` | job rows | Celery signals | all tasks | signals of two deliveries overwrite one another | for operators to read only | not modelled |
| Rate limiting: `services/rate_limit_service.py` | Redis sliding windows | check | handlers | open when Redis is away | one atomic script | not modelled |
| Driver report, onboarding, imports, dispatch and dock evidence, insurance forms, integrations administration, accounts, commercial modules | single rows | create, patch, list | | one request, one row | input validation | not modelled |
| Package and packet content, vault, configuration, health, admin frontend, deployment | none that a property is about | | | | | not modelled |

`PROJECT.json` lists the same components with their sources, and the hazards:
what is hard to test, at the line where it bites, with the properties that
would notice.

## 2. The modules

An action is what happens between two points at which another process can look:
a commit, an object or message leaving the process, or a read on which a later
step depends. Within that rule an action is the whole of the handler's work
between the two points.

**`ExportPipeline`** is the API handlers (`Submit`, `SubmitRetry`,
`HandlerStep`: row, event, publish, the late `queued` write and its event), the
broker (`Redeliver`) and `build_export` (`WorkerStep`: begin, assemble, put,
finalise, the check and insert of the generated event, the case's status; and
the failure path: `MarkFailed`, event, retry or dead letter). `BuildFails` is any
exception, `HandlerRaises` one in the exception handler itself, `Crash` and
`HandlerDies` the loss of a process, `Requeue` an operator who sends a dead
letter again. `seen` in a worker or handler is the status its session loaded;
`update_export` validates against it and writes to the row. A package is the
number of its build, so that a digest is that number. `caseStatus` is the side
effect on the incident.

**`ExportLifecycle`** is what the export API promises of one export: pending,
then ready or failed, then final, except for the request handler's own late
write. `ExportPipeline` maps onto it (`EL`, `ImplementsLifecycle`).

**`SafetyNotification`** is the task, the provider and the webhook handler,
joined through `message_operations`. A worker creates an operation, looks for an
earlier event, sends, records the provider's id and emits the event. A handler
verifies, looks up the idempotency key, inserts the row, finds the operation by
the provider's id, applies the status and settles the row. The number may be
missing at first (`SetPhone`). `lost` counts each bounded disturbance by kind.

**`IncidentInitiation`** is `initiate` cut at each statement that other requests
can fall between (lookup by driver, by vehicle, insert, commit, the check and
the write of the protocol events, one publication at a time) and the app's start
screen (`Begin`, `Wait`, `AskAgain`; `AskAgain` is the answer to the recovery
read, which has no time limit and may never come). An incident is ordered by the start of the
transaction that made it, as its `created_at` is. The app sends no
`Idempotency-Key`, so that branch collapses into the lookup that follows it.

**`CrashPacketDelivery`** is the declaration (`FlipStatus`, `AlreadyFlipped`,
`Declare`), the dispatch task of each caller (`Dispatch`), mail by mail, and the
watchdog (`Sweep`: list, mark, emit), over the delivery row of one incident.
`Fault` is a lost process, a refused publication or an error, at each place
where the code lets it happen.

**`DashcamCapture`** is the two messages that one incident can give rise to
(the first capture, and an operator's retry), each run working through the two
streams (`Work`), and the retry endpoint (`ChooseRequests`, `Requeue`,
`RetryAbandoned`). Both messages have the same idempotency key, hence the same
artifact ids and object keys. A stream without footage takes a commit for the failed
request (`FailRequest`), one for the event that tells so (`TellGap`) and one for the
row (`DocumentGap`); a run broken off between the first two leaves the request in
`untold`. The operation's error text, committed between them, is left out. `setting` is the
instance: who made the incident, whether the retry takes only failed requests,
how many faults there are, what each stream has. `Fault` is a soft time limit in
a stream, an exception in the run, a failing database and a lost worker.

**`IncidentCaptures`** composes the background captures that the office's
`POST /incidents` sets off. Its own actions are the handler (`BeginCaptures`:
the requests, the bundle's operation, links and message, the history's operation
and message, the event that the captures were attempted; `OfficeGivesUp`), while
the captures it has queued already run:

- **`TelematicsCapture`**: the bundle task, dataset by dataset and rendering by
  rendering, its own retries, and the operator's retry endpoint, on the pattern of
  `DashcamCapture`. A dataset's rows point to renderings of what the provider
  answered, which may differ from one run to the next.
- **`ViolationHistory`**: the capture of each incident (`BeginCapture`, then
  `UseCache` or `PullInspections`, `StoreInspections`, `DriversUnits`,
  `MatchInspections`, the ending), over snapshots that incidents of one carrier
  share, with the refresh (`RefreshCarrier`) and the expiry of the cache.
- **`InspectionMatch`**, which has no state: the matcher as operators
  (`VehicleMatch`, `FinalConfidence`, `Attribute`).
- **`TmsSync`**: a connection's synchronisation, row by row, that writes the unit
  history the matcher reads; `broken` is the session that a refused row leaves.

**`WeatherSnapshots`** is the two weather tasks of one incident and the requests
that queue them. `lock` is `FOR UPDATE` on the incident's row; an event refers to
the incident, so that appending one (`MayAppend`) waits for it.

**`UploadQueue`** is the phone and the server together. `queue`, `writes` and
`storage` are the queue in memory, its versions on their way to the device's
storage, and what is there; `Work` is the worker's pass, and `Request` its calls, one to the server or the
object store at a time; `artifacts` and `objects` are the server's. The storage may
refuse a write (`PersistFails`). In this commit no screen enqueues anything: `App.tsx`
starts and stops the worker, the tests call the rest. The model has an enqueuing
at any moment.

**`CaseWorkflow`** is one row (of a case, a task or a note) and three requests:
read (`Begin...`), commit (`Commit`, with the event of its own that names both
statuses), then for a change of status `Tell`, which appends
`INCIDENT_STATUS_CHANGED` in a later commit, then the audit (`Log`). `notice` is the
last of these and `lastMove` the last commit that moved the case. `Written` is what
SQLAlchemy sends: only the columns whose value differs from the one read. The
export's request reads evidence, events and exports in three statements.
**`CaseReadiness`**, which has no state, is what the desk computes from them;
`UploadQueue` uses it too, for what its rows mean to the case.

**`Sessions`** is one account, of a driver or of an operator, its challenges,
sessions and refresh tokens, and the client that keeps the latest token.
`validate_session`'s commit, in the middle of a refresh, is a step of its own.

Several modules choose the size of a behaviour in `Init` (`setting`, `shape`,
`scope`): one run then checks several instances, each large in one direction,
instead of their product.

Each property has a mutant: a variant of one definition with the bug that the
property is there to notice. Mutants stand before the definition they vary and
say what they change; they are part of no specification.

## 3. The runs

| Run | Instance | What it shows |
|---|---|---|
| `ExportOne` | 1 export, 1 request, 1 worker, 1 key; 1 retry, 2 crashes, 1 failing handler, 1 requeue, no repeated delivery; fair | the package in the vault is the one the ready row names; one generated event; an export in processing is in a queue, a worker or the dead letters; the lifecycle is kept; processing ends; a lasting failure is in the timeline |
| `ExportPair` | 2 exports, 2 requests, 2 workers, 1 key, 1 repeated delivery, 1 crash; from an export that failed once while its handler may still write to the row (`FailedOnce`); symmetric | an offered package is stored, and a row in processing has its own attempt id, with two builders of one export at once, one of them lost, and one export a retry of the other |
| `Notify` | text and call, 1 retry, 1 crash, 1 exception, 1 lost answer; or text only, 2 webhook handlers, 1 crash, 1 repeated or forged callback; fair | every message has its operation and extra ones are paid for; events once and tracked; a delivery claim is the provider's own word on that message; task and webhook rows settle |
| `Initiation` | 2 drivers who share a vehicle (one can also scan another), 2 requests, 1 fault, 1 weather task; fair | one incident and one start unless two requests overlapped; complete answers; the screen settles unless the recovery read hangs, and instructions mean that the manager will be alerted |
| `CrashPacket` | 2 callers, up to 2 recipients, 1 retry, 1 fault; fair | no mail before its announcement, and the row tells the truth; a second mail has a cause; declarations are followed up; nothing stays unsettled or overdue unreported |
| `CrashPacketLate` | 1 caller, 1 recipient, no fault | **violated**: the watchdog leaves a settled row alone |
| `Dashcam` | 2 messages, 2 streams, office's or driver's incident; 1 fault, other bytes on the second fetch of a stream, retry of failed requests; or no fault and retry of any; fair | footage, rows, hashes, events and reported outcomes agree, but for a failed request whose run broke off before its event; operations and requests end, except those of a message skipped as a duplicate |
| `Captures` | office's or driver's incident; 2 datasets in 1 or 2 formats, 1 fault (a soft time limit among them), retry of failed requests or of any; 2 incidents of one carrier with a refresh and a loss; a sync beside a capture; 2 syncs; the matcher over every pair of units of some shapes (`IncidentCapturesMC`); fair | bundles and histories are what was answered and matched; what was attempted was begun; each capture ends |
| `Weather` | 2 requests, both tasks of each, 1 worker lost, error or refused message; fair | one outcome of a kind, captured maps are stored, every request has its outcome |
| `Uploads` | 2 photos of one type, 2 attempts, 1 kill or refused write; fair | answered items are kept; captured rows have their bytes; when all is uploaded nothing holds up the case; items settle unless a request hangs for ever or the app stays closed |
| `Case` | 2 operators of different roles, 2 artifacts, 3 requests at one row, 4 of the statuses; symmetric in the artifacts | rows tell one story; end states hold; the trail tells the status, with the notices of moves in commits of their own; an export without a warning is earned |
| `Sessions` | 4 requests, 2 challenges, 2 attempts at a code, all kinds of account | a session that ended stays so, and for a reason; the holder of the latest token can go on; a login is earned |

Deadlock is not checked anywhere: each of these systems ends, when the requests
are served, the queues are empty and nobody asks for more.

### The bounds, and why they are enough

- *One fault, or two crashes.* Each property that excuses a fault is violated by
  one; the ones without an excuse are about what a redelivery finds, so the
  smallest instance in which a redelivery is itself interrupted is the largest
  that shows anything new. `ExportOne` has it (two crashes and one retry). In the
  other tasks the second delivery takes the same branches as the first.
- *Two actors.* Every race here is between two: handler and worker, two
  requests, two callers, a run and its retry, a sweep and a dispatch. Two
  webhook handlers are what it takes for a copy to overtake its original.
- *Two streams, two datasets, two formats, two recipients, two channels.* One
  that succeeds beside one that does not; another answer on the second fetch; a
  run that is broken off between two.
- *Four requests to a session.* A refresh that races a refresh, with a revocation
  and a use of the token after them.
- *Three requests at a case.* Two operators and the export worker, or two
  operators and the one who made the row.
- *Two incidents of a carrier, two units, one report.* A snapshot that one pulled
  and the other takes from the cache. The matcher compares two units at a time.
- *Two attempts at an upload.* `MAX_ATTEMPTS` is 5; two are one that is repeated
  and one that is the last.
- *Two requests per initiation run.* The app's retry, or a second driver. With
  three the interleavings are the same pairs.
- *No repeated delivery in `ExportOne`.* With two builders of one export at once,
  the digest, the single event, the task's presence in a queue and the finality
  of an outcome do fail, because the code has no lock against it; the visibility
  timeout (3600 s, `celery_app.py:63`) well above the hard time limit (360 s) is
  what keeps the broker from it in ordinary operation.
  What survives even so are `OfferedPackageIsStored` and `ProcessingIsOwnAttempt`:
  `ExportPair` checks them with two builders of one export and a crash, and they
  are proved for any number of both. It begins after a first failure, a state
  that `Spec` reaches without any crash or repeated delivery: from there a second
  request meets a key that is known, a row that can be retried, and the first
  handler's late write. No automatic retry is in it (`MaxRetries` is 0); `ExportOne`
  has them.

### Fairness

Only what the code's scheduling justifies. A worker that holds or can take a
task goes on (`WF` of the worker's step): Celery's loop does, and a lost worker
is replaced. A request being served goes on (`WF` of the handler's step). The
app's timer fires (`Wait`). The read that follows it,
`IncidentStartLoadingScreen.tsx:172`, has no time limit, nor has the fetch below it
(`api.ts:162`): nothing is assumed of `AskAgain`, and `DriverIsServed` says of the
screen that it settles if the reads that are sent are answered. The watchdog is run again
and again; `Sweep` is strongly fair because between two runs the row may come and
go out of the list. Nothing in this repository schedules it (there is no beat
schedule: it is triggered from outside), so `DeliverySettles` depends on that
deployment. The upload queue's timer ticks, and the storage answers, with a refusal
perhaps (`Persist \/ PersistFails`); that a retry comes due is fair since its delay
is bounded. Its calls to the server and the object store have no time limit
(`artifacts.ts:82`, `uploads.ts:96`), and one that hangs keeps `workerRunning` set:
nothing is assumed of `Request`, nor of the driver who would open the app again
(`Hydrate`). `ItemsSettle` has both as its condition: the worker is again and again
outside of a call, and the app again and again open. The database gives a lock that
is free to one of those who wait for it (`WF` of the weather task's step). Nothing is
assumed of drivers, operators, providers, of requests or callbacks that have yet to
arrive, nor of the workers that dispatch the crash packet, since the watchdog exists
for the case in which they do nothing. `Case` and `Sessions` have no liveness
property: nobody has to ask for anything there.

### Excuses

A property that holds only while something did not happen says so with a
history variable, set by the event itself: `crashes`, `outages`, `lost`,
`errors` count faults; `alongside`, `overlapped` record that two requests or
runs were in service together; `overtaken` that the watchdog overwrote a settled
row; `skipped` that a message was answered as a duplicate. Each excuse is a gap
in the code, not in the model:

- two runs of one capture, two dispatches, two initiations of one crash: no lock
  and no unique index;
- a process lost between two commits that belong together (a status and its
  event, a row and its task): nothing makes the second one up later;
- an operator's retry of a failed stream without a window has the key of the
  capture that ended, whose success event makes the task skip it: its operation
  stays "requested" and the reopened requests stay "in_progress"
  (`Dashcam` and `Captures`, `skipped`). `backend/docs/operations/celery-task-reliability.md:5` calls
  retries and duplicate deliveries safe;
- a run delivered again after it captured everything counts nothing and reports
  "unavailable" (`AnswersAreTrue` of `DashcamCapture`);
- a run broken off between the failed request and the event of its stream leaves
  the request failed and the log silent; between the two commits this is so in every
  run (`untold` and `Telling` in `DashcamCapture`);
- a snapshot is fresh before its inspections are stored: another incident's capture
  that finds it in the cache matches without them and reports success, also after the
  run that pulled it was lost (`pending` and `lostRuns` in `ViolationHistory`).
  `HistoryIsComplete` says that there is no third way;
- a callback refused or lost half-way uses up its idempotency key: the genuine
  copy is dropped. Callbacks out of order overwrite one another;
- two weather tasks that run at once append two outcomes, and a map's failure that
  must be told without the lock may follow another task's success (`met`,
  `unlocked`);
- two case requests of which the second read before the first committed
  (`overtaken`), and the notices of two moves, which may be appended in the other
  order, or never (`behind`, `untold`); two failed codes counted at once as one; two refreshes of one
  token at once (`Raced`);
- a second item of a type overwrites the first one's object
  (`CapturedHasItsBytes`);
- a request or a read without a time limit that hangs (`ItemsSettle`,
  `DriverIsServed`).

## 4. Where the code and its documents part

One run is there to be violated. `CrashPacketLate`: `mark_overdue` writes by
primary key what an earlier query listed, so that a packet sent meanwhile becomes
overdue, while `db/repo/crash_packet_deliveries.py:97` speaks of deliveries that
have not been sent.

The others were met while modelling. The models behave as the code does, and no
property claims what the document says.

| The code | What the repository says |
|---|---|
| `db/repo/exports.py:150`: the handler's late `queued` is validated against the status loaded before the publish, so `ready -> queued` and `failed -> queued` happen | `domain/state_transitions.py:1`: explicit validators, with a table that has neither edge |
| after a recorded failure the table refuses `failed -> processing`, so automatic retries and requeued jobs fail again | `docs/reliability-and-incident-response-runbook.md:259`: "Requeue idempotent failed jobs" |
| a request outlives the app's timeout, the driver retries, and both find no incident | `docs/driver-protocol-test-matrix.md:37`: a single initiated event and no duplicate fan-out |
| `security/session.py:110`: the commit in `validate_session` gives back the lock on the refresh token, so that two refreshes both rotate it | `security/session.py:126`: the lock is taken so that they cannot |
| `services/artifact_upload_service.py:115`: the key is made from an id the row does not have before its flush; uploads of one type share it | `services/s3_key_builder.py:5`: a key per artifact |
| `driver-app/src/store/uploadQueueStore.ts:283`: failed items are processed again on every tick | `docs/release-readiness-checklist.md:34`, `docs/driver-protocol-test-matrix.md:40` |
| the app sends `filename` and `mime_type`, the schema asks for `file_name` and `content_type`: every upload's first call is refused (the model takes them as agreed) | |
| `tasks/fmcsa_repoll_tasks.py:38`: the refresh queues an operation that names no request, which is answered `missing_records`; no schedule names either refresh | the comment there |
| a bundle or a capture whose every dataset failed still emits its success event, which makes every later retry a duplicate | `backend/docs/operations/celery-task-reliability.md:5` calls retries safe |
| the app sends no window, so the weather snapshot always ends as failed, "insufficient_request_context" | |
| `vault_fs.put_bytes` takes no metadata, so the weather map fails with the file-system vault | |
| nothing sets `incidents.status` to closed: a driver's second crash joins the first incident (`services/incident_workflow_service.py:41`) | |
| `api/routes_incidents.py:795`: the lookup by idempotency key never matches | |
| the stored `readiness_state` is written by the export worker only, and the queue's filter and alert read it | |

## 5. What is proved

Eight modules hold theorems, each `EXTENDS` the module it is about. A theorem
holds for every value of the constants that the module's own `ASSUME` admits:
any number of requests, workers, callers, clips, items, retries and faults, where
TLC has one or two of each. The assumptions say that bounds are naturals, that a
"none" value is not one of the things it stands beside, and that sets of which
the code takes a size or an order are finite (`Artifacts`, `Items`, `Callers`,
`UnitIds`, an instance's incidents: rows of one incident, captures on one phone,
requests, units of one carrier, incidents of one carrier). `FeedAssumption` and
`InstancesAssumption` say besides that a unit's row has a start, which the column
`started_at_utc` does not leave empty (`db/models.py:3051`), and that the incident
the office creates is among its carrier's.

| Theorem | What holds at every step | The invariant it needs |
|---|---|---|
| `ExportPipelineProofs` | | |
| `TypeCorrect` | `TypeOK` | `TypeInv`: besides, a handler past `create` has a row and a busy worker a message for an export; else `row[Exp(w)]` is not known to be in the domain |
| `OfferedIsStored` | `OfferedPackageIsStored` | `StoredInv`: what each worker has assembled and uploaded so far. Uploads only replace one build by another, so a second builder cannot take the package away |
| `ProcessingIsOwn` | `ProcessingIsOwnAttempt` | `NamesExist`, `AttemptInv`: from `Begin` on, the row a worker builds carries its own id |
| `PackageIsIntact`, `GeneratedIsOnce`, `TaskIsKept` | `copies = 0 => PackageIntegrity`, `GeneratedOnce`, `NoTaskLost` | `SoleInv`: a task is in one place (a handler, the queue, a worker or the dead letters), and the one worker that has it knows its row but for the handler's late `queued` |
| `LifecycleIsImplemented` | from `[](copies = 0)`, `ImplementsLifecycle`: the initial state maps to one of `ExportLifecycle`'s, each step to a step or a stutter | the same |
| `SafetyNotificationProofs` | | |
| `EventsTrue`, `ClaimsAreTheProviders` | `EventsAreTrue`, `DeliveryClaimsAreTrue` | `TrackInv`: a provider's id is on one operation, an attempt's own operation has none until the answer, and each callback and handler carries what the provider had said of that message |
| `SendsAccounted` | `SendsAreAccountedFor` | `CountInv`: with the attempts that may still send counted in, messages are at most the tasks enqueued plus the disturbances that pay for more, and operations suffice for both |
| `IncidentInitiationProofs` | | |
| `StartsOnce` | `StartsOnceUnlessRaced` | `RaceInv`: what a request has read and found missing can only have been added since by a request in service together with it |
| `AnswersHold` | `AnswersAreTrue` | `PromiseInv`: what a request has still to queue, or has queued |
| `CrashPacketDeliveryProofs` | | |
| `RowStaysHonest` | `RowIsHonest` | `HonestInv`: a task that mails has announced it, has tried exactly the recipients before its `next`, and lists as sent only those it mailed |
| `ResendsHaveCause` | `ResendHasCause` | `CalmInv`: until something goes wrong there is one run at a time; it begins when nobody was mailed, and the row is settled before another can begin |
| `DashcamCaptureProofs` | | |
| `CapturesAreDocumented`, `FootageStaysTraceable`, `AnswersStayTrue` | `CaptureIsDocumented`, `FootageIsTraceable`, `AnswersAreTrue` | three layers, since the properties have different excuses: `AnyInv` whatever fails, `LoneInv` while the two messages were not worked on at once, `QuietInv` while besides no run was broken off |
| `SessionsProofs` | | |
| `SessionsEndForGood` | `EndedForGood` | `EndInv`: a token spent or rotated is known as such, an orphan's session is revoked and nothing follows it |
| `HoldersGoOn` | `HolderCanGoOn` | `HoldInv`: a session that has not forked has one token that is not consumed; the client's was consumed only by a refresh it has no answer of |
| `LoginsAreEarned` | `LoginIsEarned` | `LoginInv`: with the requests counted in that were let in, or denied, and have yet to write |
| `CaseProofs` | | |
| `RowsTellOneStory` | `RowTellsOneStory` | `Typed` keeps with each request what its check has found (`Admitted`), as the commit does not look again; `StoryInv` adds the log entries a request still has to write |
| `TrailsTellTheStatus`, `CleanExportsAreEarned` | `TrailTellsStatus`, `CleanExportIsEarned` | `TrailInv`: a notice still to be appended is that of the last move, or its request moved the case before that move and still had it to append then; and that what an export's request has read of the evidence stays so |
| `EndStatesAreKept` | `EndStatesHold`, an action property | the same `Typed`: each commit is of a request that was admitted |
| `QueuedItemsAreKept` | `QueuedIsKept` | `KeptInv`: each version of the queue (stored, on its way, in memory) has the items of those before it, so that a refused write loses none; `StoredInv`: a row is asked for when its item is stored |
| `CapturedRowsHaveBytes`, `UploadsFree` | `CapturedHasItsBytes`, `UploadsFreeTheCase` | `RowsInv`: what any version calls uploaded is captured, the object under a key is of an item of its type, and the worker's row is of its item. `UploadsFree` needs `KeptInv` too: what has a row is in the queue |
| `EvidenceCaptureProofs` | | |
| `AttributionIsBest` | what `Attribute` returns is `Chosen`: no match if no vehicle is able to explain the inspection, otherwise the match of one that is, of no lower confidence than any other's | none: it is about an operator. `ChosenStep` is one turn of the matcher's loop |
| `BundleStaysHonest` | `BundleIsHonest` | `BundleInv`: the three layers of `DashcamCapture` (`AnyInv`, `LoneInv`, `QuietInv`), what a run holds at each of its steps (`RunFits`), and that the first message is not under way before the office has published it (`OfficeTyped`; the operator's may be) |
| `RecordedEvidenceIsKept` | `RecordedEvidenceStays`, an action property: no row of a rendering is written twice, nor its object replaced by another unless two runs overlapped | `BundleInv` before and after the step |
| `HistoryStaysHonest` | `HistoryIsHonest` | `CapturesInv`: besides `BundleInv`, `KeptInv` (each report of a stored snapshot is in the table as that snapshot or one stored after it gave it), `AccountInv` (each snapshot is stored, or a run is about to store it, or the run that was to was lost), `ToldInv` (what status, event and matches say at each step of a task), `SyncInv` (every unit has its start, or the matcher's window is not defined) |
| `AttemptStaysTrue` | `AttemptIsTrue` | the same, by `OfficeInv`: what the handler has made before each of its steps; the captures, which already run, take none of it back |
| `EndedCapturesRest` | `EndedCaptureRests`, an action property: what a history that has ended says, and its matches, are left alone by every other task | `ToldInv`, `OfficeInv` |
| `WeatherStaysHonest` | `WeatherIsHonest` | `WeatherInv`: a map's run holds the lock unless all it has left is a failure to report (`LockHeld`), and while the lock is held there is no outcome; captured maps count as rows (`MapInv`); snapshots that have still to be told of are counted in (`SnapshotInv`) |

`copies = 0` is a state of the model, not an assumption on a constant: it says
that the broker has not repeated a delivery whose first one is still running.
The three properties fail without it (section 3), and TLC checks them in
`ExportOne`, where `MaxCopies` is 0.

`CaseProofs` speaks of two components because both rest on `CaseReadiness`:
`UploadsFree` ends with the case desk's `Critical`. `EvidenceCaptureProofs` speaks
of two specifications, `Spec` of `IncidentCaptures` and `WeatherSpec`, which share
no variable; no theorem is about both.

Each proof has the same plan: lemmas on what a step leaves where, field by field
(the provers are slow on nested `EXCEPT`s), the initial state, one lemma per
action, and a step theorem that splits on the disjuncts of `Next`. Each invariant
was checked by TLC on the run's instance first, and so were the action properties.
The proofs changed the models in three places:

- `CapturedHasItsBytes` left open whose bytes lie under a captured row's key when
  they are not its item's. They are those of one other item, of the same type.
- `IncidentInitiation` has what a request must still publish as a set (`todo`),
  taken in the code's order (`First`), since its promises are about membership.
- `TmsSync` and `IncidentCaptures` took it for granted that units are finitely many
  and have a start, and that the office's incident is its carrier's. They assume it
  by name now.

The matcher goes through a list. Induction over its length is out of the provers'
reach in the form the library gives it, as a theorem with an operator for a
parameter. `AttributionIsBest` takes the smallest prefix for which the claim would
fail instead: the well-foundedness of the naturals is a theorem about a set.

Only model-checked is liveness: `ExportsSettle`, `NotificationSettles`,
`DriverIsServed`, `FlipIsFollowedUp`, `DeliverySettles`, `CapturesSettle`,
`CapturesEnd`, `WeatherEnds` and `ItemsSettle`. It rests on fairness and `ENABLED`,
which the prover does not have. All other properties that the passing runs check
are proved for every instance, those of `ExportPipeline` that need it while no
delivery is repeated. `SentIsNotFlipped` of `CrashPacketLate` has no theorem: it
fails.

## 6. Not modelled, and why

- The kill at Celery's hard time limit. Unlike a lost worker's, the message of a
  task killed so is acknowledged, and its row stays as it was: `NoTaskLost` and
  `ExportsSettle` do not speak of it. It takes a task that goes on for a minute
  after its soft limit (`tasks/export_tasks.py:403-404`: 300 s, then 360 s).
- Progress, options and error texts, status-history rows, metrics, audit
  entries: nothing reads them back in a decision.
- Authorisation, tenancy and validation: checks before an operation, on which no
  protocol step depends. The models take each request as admitted.
- The content of packages, packets and documents: pure functions of rows.
- Retries of the dashcam and weather tasks: they have none. `celery_app.py:89-106`
  gives them limits and no `autoretry_for`, which the reliability note claims.
- Captures with a window, edits of the recipient file in mid-dispatch,
  the voice webhook: listed as gaps of "partly" modelled components. So is the
  dashcam's part of the office's incident, whose states `DashcamCapture` begins
  with.
- A soft time limit that strikes between a commit and the return from it, in the
  weather tasks, or in the few instructions of a task before its `try`.
- Error texts that a run writes to its operation in a commit of their own between
  two that are modelled (`tasks/evidence_tasks.py:492`).
- In the telematics bundle, the read of the log before an announcement is one step
  with the insert; it matters to runs that overlap only.
- Job tracking: no decision depends on the job rows. Rate limits: one atomic
  Redis script. Insurance forms: no route, schedule or task of this commit runs the
  filling; the demo data calls it once.
- Most of the repository's lines are none of this: 8.8 thousand lines of
  migrations, the declarations of models and schemas, configuration and demo data,
  routes that read or write one row for one request, assembly of documents, the
  screens of two user interfaces. There is no state there for a property to be
  about that the database does not keep by itself, and a model of it would repeat
  the code line by line. The modules here cover the asynchronous tasks, the
  handlers that start or race with them, and what they share.

## 7. What is left

Every part of the plan is written: the export pipeline with its refinement;
notification with webhooks; initiation; crash packet; dashcam; telematics,
violation history and synchronisation with the office's handler over them;
weather; uploads; the case desk; sessions; and a theorem for each property that is
not liveness.

What would be next: in `ExportPipeline`, the kill at the hard time limit as a
bounded disturbance of its own, with what it does to `NoTaskLost` and
`ExportsSettle`; the gaps that `PROJECT.json` names of the components that are
modelled partly; and the dashcam's part of the office's incident inside
`IncidentCaptures`.
