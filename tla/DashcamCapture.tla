--------------------------- MODULE DashcamCapture ---------------------------
(***************************************************************************)
(* The dashcam footage of one incident: the Celery task that fetches each  *)
(* camera stream from the provider, stores it and records it               *)
(* (tasks/evidence_tasks.py, capture_dashcam), and the retry by which an   *)
(* operator queues the task again for evidence requests of his choice      *)
(* (api/routes_integrations.py, services/dashcam_capture_service.py).      *)
(*                                                                         *)
(* An action is one commit, one object written or one answer of the        *)
(* provider, with the reads that follow it.  An event that is emitted once *)
(* is added to a set: the look for it and the insertion are one step.      *)
(* The events "requested" and "attempted", which every run begins with,    *)
(* and error texts, also those a request and an operation carry, are left  *)
(* out.  Both the first capture and the retry have no capture window, as   *)
(* when the driver's app starts the incident: they share the idempotency   *)
(* key, hence the artifact ids and the object keys.                        *)
(***************************************************************************)
EXTENDS Naturals, FiniteSets

CONSTANTS
    Clips,      \* what the provider may answer: the bytes of a clip, or their hash
    None,       \* no clip
    MaxFaults,  \* bound: workers lost, and errors
    Settings    \* what a behaviour begins with: who starts the capture, the
                \* filter of its retry, its bound on faults, and what the
                \* provider may answer per stream

\* The office starts the capture, or the driver's app.  With failedOnly, a retry
\* chooses failed requests only.
ASSUME DashcamAssumption ==
    /\ None \notin Clips
    /\ MaxFaults \in Nat
    /\ Settings \subseteq
          [office : BOOLEAN, failedOnly : BOOLEAN, faults : 0..MaxFaults, footage : [1..2 -> SUBSET Clips]]

VARIABLES
    setting,    \* the member of Settings
    run,        \* the task's two messages and the runs that work on them
    operation,  \* status of the integration operations
    request,    \* the evidence requests: status and the operation they belong to
    row,        \* per stream: the hash in the captured artifact's row
    gap,        \* per stream: the unavailable artifact's row exists
    object,     \* per stream: the object in the vault
    log,        \* the events committed for the incident
    operator,   \* the retry: its step, the requests it has read and its operation
    overlapped, \* history: a run began while the other one was under way
    skipped,    \* history: messages answered with skipped_duplicate
    untold,     \* history: failed requests whose run broke off before its event
    lost, errors    \* faults so far

artifacts == <<row, gap, object>>
history == <<overlapped, skipped, untold>>
faults == <<lost, errors>>
vars == <<setting, run, operation, request, artifacts, log, operator, history, faults>>

MayFail == lost + errors < setting.faults

Messages == {"first", "retry"}
Streams == 1..2                                \* road facing, then driver facing
Operations == Messages \X (0..MaxFaults)
NoOperation == <<"none", 0>>
\* Named after the operation and the stream they were made for; a second one
\* is made when the first has been moved to the retry's operation.
Requests == Operations \X Streams \X {1, 2}

InStream == {"fetch", "put", "record", "hash", "save", "fulfil"}
InGap == {"fail", "tell", "document"}
Running == {"open", "poll", "succeed", "finalize"} \cup InStream \cup InGap

\* try counts the deliveries, carried is the operation the message names.
Unpublished == [pc |-> "none", try |-> 0, carried |-> NoOperation, op |-> NoOperation,
                stream |-> 1, req |-> <<NoOperation, 1, 1>>, clip |-> None, captured |-> 0]
NoRequest == [status |-> "none", op |-> NoOperation]

Event(kind, s, clip) == [kind |-> kind, stream |-> s, clip |-> clip]
Succeeded == Event("succeeded", 0, None)
Failed == Event("failed", 0, None)

First == <<"first", 0>>

\* The driver's initiation publishes a bare message; the office's creation of an
\* incident makes the operation and the requests before it publishes.
Init ==
    /\ setting \in Settings
    /\ run = [m \in Messages |->
                IF m = "retry" THEN Unpublished
                ELSE [Unpublished EXCEPT !.pc = "queued",
                                         !.carried = IF setting.office THEN First ELSE NoOperation]]
    /\ operation = [o \in Operations |-> IF setting.office /\ o = First THEN "requested" ELSE "none"]
    /\ request = [q \in Requests |->
                    IF setting.office /\ q[1] = First /\ q[3] = 1
                    THEN [status |-> "in_progress", op |-> First] ELSE NoRequest]
    /\ row = [s \in Streams |-> None]
    /\ gap = [s \in Streams |-> FALSE]
    /\ object = [s \in Streams |-> None]
    /\ log = {}
    /\ operator = [pc |-> "idle", chosen |-> {}]
    /\ overlapped = FALSE
    /\ skipped = {}
    /\ untold = {}
    /\ lost = 0 /\ errors = 0

-----------------------------------------------------------------------------
(* The run of a message                                                    *)

At(m, pc) == run[m].pc = pc
Goto(m, pc) == run' = [run EXCEPT ![m].pc = pc]
Stream(m) == run[m].stream
Operation(m) == run[m].op

NextStream(m) ==
    [run[m] EXCEPT !.pc = IF Stream(m) = 2 THEN "succeed" ELSE "poll",
                   !.stream = 2, !.req = Unpublished.req, !.clip = None]

End(m, pc) == run' = [run EXCEPT ![m] = [Unpublished EXCEPT !.pc = pc]]

SkipDuplicate(m) ==
    /\ At(m, "queued")
    /\ Succeeded \in log
    /\ End(m, "over")
    /\ skipped' = skipped \cup {m}
    /\ UNCHANGED <<operation, request, artifacts, log, operator, overlapped, untold, faults>>

Start(m) ==
    /\ At(m, "queued")
    /\ Succeeded \notin log
    /\ Goto(m, "open")
    /\ overlapped' = (overlapped \/ \E n \in Messages \ {m} : run[n].pc \in Running)
    /\ UNCHANGED <<operation, request, artifacts, log, operator, skipped, untold, faults>>

\* The operation the message names, or a new one in every delivery.
OpenOperation(m) ==
    /\ At(m, "open")
    /\ LET o == IF run[m].carried = NoOperation THEN <<m, run[m].try>> ELSE run[m].carried
       IN /\ operation' = [operation EXCEPT ![o] = "processing"]
          /\ run' = [run EXCEPT ![m].op = o, ![m].pc = "poll"]
    /\ UNCHANGED <<request, artifacts, log, operator, history, faults>>

\* The stream's request is looked up by the operation, or made.
Poll(m) ==
    /\ At(m, "poll")
    /\ operation' = [operation EXCEPT ![Operation(m)] = "processing"]
    /\ LET own == {q \in Requests : request[q].op = Operation(m) /\ q[2] = Stream(m)}
           new == <<Operation(m), Stream(m), IF request[<<Operation(m), Stream(m), 1>>] = NoRequest THEN 1 ELSE 2>>
       IN \/ \E q \in own :
              /\ run' = [run EXCEPT ![m].req = q, ![m].pc = "fetch"]
              /\ UNCHANGED request
          \/ /\ own = {}
             /\ run' = [run EXCEPT ![m].req = new, ![m].pc = "fetch"]
             /\ request' = [request EXCEPT ![new] = [status |-> "in_progress", op |-> new[1]]]
    /\ UNCHANGED <<artifacts, log, operator, history, faults>>

\* No footage, an error of the provider, or a vault that refuses the object.
StreamUnavailable(m) ==
    /\ run[m].pc \in {"fetch", "put"}
    /\ Goto(m, "fail")
    /\ UNCHANGED <<operation, request, artifacts, log, operator, history, faults>>

\* A stream whose artifact exists is left as it is, and counted as nothing.
FetchClip(m) ==
    /\ At(m, "fetch")
    /\ operation' = [operation EXCEPT ![Operation(m)] = "available"]
    /\ \/ /\ row[Stream(m)] # None
          /\ run' = [run EXCEPT ![m] = NextStream(m)]
       \/ /\ row[Stream(m)] = None
          /\ \E c \in setting.footage[Stream(m)] : run' = [run EXCEPT ![m].clip = c, ![m].pc = "put"]
    /\ UNCHANGED <<request, artifacts, log, operator, history, faults>>

Put(m) ==
    /\ At(m, "put")
    /\ object' = [object EXCEPT ![Stream(m)] = run[m].clip]
    /\ Goto(m, "record")
    /\ UNCHANGED <<operation, request, row, gap, log, operator, history, faults>>

HashedEvents(s) == {e \in log : e.kind = "hashed" /\ e.stream = s}

\* An event that is emitted once and carries nothing that varies is as well
\* added to the set again.  The hash is looked for next: that of an earlier,
\* unfinished run stays in the log.
RecordArtifact(m) ==
    /\ At(m, "record")
    /\ log' = log \cup {Event("recorded", Stream(m), None)}
    /\ Goto(m, IF HashedEvents(Stream(m)) = {} THEN "hash" ELSE "save")
    /\ UNCHANGED <<operation, request, artifacts, operator, history, faults>>

\* Mutant of EmitHash: the hash is announced for the other stream.
EmitHashMisfiled(m) ==
    /\ At(m, "hash")
    /\ log' = log \cup {Event("hashed", 3 - Stream(m), run[m].clip)}
    /\ Goto(m, "save")
    /\ UNCHANGED <<operation, request, artifacts, operator, history, faults>>

EmitHash(m) ==
    /\ At(m, "hash")
    /\ log' = log \cup {Event("hashed", Stream(m), run[m].clip)}
    /\ Goto(m, "save")
    /\ UNCHANGED <<operation, request, artifacts, operator, history, faults>>

\* Mutant of SaveArtifact: the row is not committed.
SaveArtifactUncommitted(m) ==
    /\ At(m, "save")
    /\ row[Stream(m)] = None
    /\ Goto(m, "fulfil")
    /\ UNCHANGED <<operation, request, artifacts, log, operator, history, faults>>

SaveArtifact(m) ==
    /\ At(m, "save")
    /\ row[Stream(m)] = None
    /\ row' = [row EXCEPT ![Stream(m)] = run[m].clip]
    /\ Goto(m, "fulfil")
    /\ UNCHANGED <<operation, request, gap, object, log, operator, history, faults>>

\* The primary key refuses the row.  The failed flush leaves the session
\* unusable: every handler raises in its turn and the run ends without a trace.
SaveConflict(m) ==
    /\ At(m, "save")
    /\ row[Stream(m)] # None
    /\ End(m, "dead")
    /\ UNCHANGED <<operation, request, artifacts, log, operator, history, faults>>

\* The request of the stream, if the run has come to know it.
Settle(m, status) ==
    request' = [q \in Requests |-> IF q = run[m].req THEN [request[q] EXCEPT !.status = status]
                                                     ELSE request[q]]

Fulfil(m) ==
    /\ At(m, "fulfil")
    /\ Settle(m, "fulfilled")
    /\ run' = [run EXCEPT ![m] = [NextStream(m) EXCEPT !.captured = @ + 1]]
    /\ UNCHANGED <<operation, artifacts, log, operator, history, faults>>

FailRequest(m) ==
    /\ At(m, "fail")
    /\ Settle(m, "failed")
    /\ Goto(m, "tell")
    /\ UNCHANGED <<operation, artifacts, log, operator, history, faults>>

\* Mutant of TellGap: the gap is not documented by a row.
TellGapOnly(m) ==
    /\ At(m, "tell")
    /\ log' = log \cup {Event("unavailable", Stream(m), None)}
    /\ run' = [run EXCEPT ![m] = NextStream(m)]
    /\ UNCHANGED <<operation, request, artifacts, operator, history, faults>>

\* The event that documents the gap, and the look for the row that does.
TellGap(m) ==
    /\ At(m, "tell")
    /\ log' = log \cup {Event("unavailable", Stream(m), None)}
    /\ run' = [run EXCEPT ![m] = IF gap[Stream(m)] THEN NextStream(m)
                                 ELSE [@ EXCEPT !.pc = "document"]]
    /\ UNCHANGED <<operation, request, artifacts, operator, history, faults>>

DocumentGap(m) ==
    /\ At(m, "document")
    /\ ~gap[Stream(m)]
    /\ gap' = [gap EXCEPT ![Stream(m)] = TRUE]
    /\ run' = [run EXCEPT ![m] = NextStream(m)]
    /\ UNCHANGED <<operation, request, row, object, log, operator, history, faults>>

DocumentConflict(m) ==
    /\ At(m, "document")
    /\ gap[Stream(m)]
    /\ End(m, "dead")
    /\ UNCHANGED <<operation, request, artifacts, log, operator, history, faults>>

\* The capture succeeded, whatever it found.
Succeed(m) ==
    /\ At(m, "succeed")
    /\ log' = log \cup {Succeeded}
    /\ Goto(m, "finalize")
    /\ UNCHANGED <<operation, request, artifacts, operator, history, faults>>

Verdict(captured) == IF captured > 0 THEN "downloaded" ELSE "unavailable"

\* Mutant of Finalize: the operation is left as the last stream left it.
FinalizeForgotten(m) ==
    /\ At(m, "finalize")
    /\ End(m, "over")
    /\ UNCHANGED <<operation, request, artifacts, log, operator, history, faults>>

\* The acknowledgement is one step with this: a redelivery would be skipped.
Finalize(m) ==
    /\ At(m, "finalize")
    /\ operation' = [operation EXCEPT ![Operation(m)] = Verdict(run[m].captured)]
    /\ End(m, "over")
    /\ UNCHANGED <<request, artifacts, log, operator, history, faults>>

-----------------------------------------------------------------------------
(* Faults of a run                                                         *)

\* The soft time limit strikes within a stream: it is caught like any failure
\* of the stream, however far the stream has come.
TimeLimitInStream(m) ==
    /\ run[m].pc \in InStream \cup {"poll"}
    /\ MayFail
    /\ errors' = errors + 1
    /\ Goto(m, "fail")
    /\ UNCHANGED <<operation, request, artifacts, log, operator, history, lost>>

\* The run is broken off, and may leave a failed request without its event.
BreaksOff(m) ==
    /\ untold' = untold \cup {q \in Requests : At(m, "tell") /\ q = run[m].req}
    /\ UNCHANGED <<request, artifacts, operator, overlapped, skipped>>

\* An exception outside of the streams' handlers: no automatic retry is
\* configured, so the message is acknowledged as failed.
RunRaises(m) ==
    /\ run[m].pc \in Running \ (InStream \cup {"poll"})
    /\ MayFail
    /\ errors' = errors + 1
    /\ log' = log \cup {Failed}
    /\ operation' = IF Operation(m) = NoOperation THEN operation
                    ELSE [operation EXCEPT ![Operation(m)] = "failed"]
    /\ End(m, "dead")
    /\ BreaksOff(m)
    /\ UNCHANGED lost

\* A database error makes the session unusable for the handlers as well.
DatabaseFails(m) ==
    /\ run[m].pc \in Running
    /\ MayFail
    /\ errors' = errors + 1
    /\ End(m, "dead")
    /\ BreaksOff(m)
    /\ UNCHANGED <<operation, log, lost>>

WorkerLost(m) ==
    /\ run[m].pc \in Running
    /\ MayFail
    /\ lost' = lost + 1
    /\ run' = [run EXCEPT ![m] = [Unpublished EXCEPT !.pc = "queued", !.try = run[m].try + 1,
                                                     !.carried = run[m].carried]]
    /\ BreaksOff(m)
    /\ UNCHANGED <<operation, log, errors>>

-----------------------------------------------------------------------------
(* The operator's retry                                                    *)

Retry == <<"retry", 0>>

\* Any requests of the incident may be named, by default among the failed ones.
\* The operation made for them is one step with the read.
ChooseRequests ==
    /\ operator.pc = "idle"
    /\ \E chosen \in SUBSET {q \in Requests :
            /\ request[q] # NoRequest
            /\ setting.failedOnly => request[q].status = "failed"} :
        /\ chosen # {}
        /\ operator' = [pc |-> "move", chosen |-> chosen]
    /\ operation' = [operation EXCEPT ![Retry] = "requested"]
    /\ UNCHANGED <<run, request, artifacts, log, history, faults>>

MoveRequests ==
    /\ operator.pc = "move"
    /\ request' = [q \in Requests |-> IF q \in operator.chosen
                                      THEN [request[q] EXCEPT !.op = Retry] ELSE request[q]]
    /\ operator' = [operator EXCEPT !.pc = "reopen"]
    /\ UNCHANGED <<run, operation, artifacts, log, history, faults>>

\* One request at a time, whatever became of it since it was read.
ReopenRequest ==
    /\ operator.pc = "reopen"
    /\ \E q \in operator.chosen :
        /\ request' = [request EXCEPT ![q].status = "in_progress"]
        /\ operator' = [pc |-> IF operator.chosen = {q} THEN "publish" ELSE "reopen",
                        chosen |-> operator.chosen \ {q}]
    /\ UNCHANGED <<run, operation, artifacts, log, history, faults>>

PublishRetry ==
    /\ operator.pc = "publish"
    /\ operator' = [operator EXCEPT !.pc = "over"]
    /\ run' = [run EXCEPT !["retry"] = [Unpublished EXCEPT !.pc = "queued", !.carried = Retry]]
    /\ UNCHANGED <<operation, request, artifacts, log, history, faults>>

\* The process is lost, or the broker refuses the message (the API answers 500).
RetryAbandoned ==
    /\ operator.pc \in {"move", "reopen", "publish"}
    /\ MayFail
    /\ errors' = errors + 1
    /\ operator' = [operator EXCEPT !.pc = "over"]
    /\ UNCHANGED <<run, operation, request, artifacts, log, history, lost>>

-----------------------------------------------------------------------------
Work(m) ==
    \/ SkipDuplicate(m) \/ Start(m) \/ OpenOperation(m) \/ Poll(m)
    \/ FetchClip(m) \/ StreamUnavailable(m) \/ Put(m)
    \/ RecordArtifact(m) \/ EmitHash(m)
    \/ SaveArtifact(m) \/ SaveConflict(m) \/ Fulfil(m)
    \/ FailRequest(m) \/ TellGap(m) \/ DocumentGap(m) \/ DocumentConflict(m)
    \/ Succeed(m) \/ Finalize(m)

Fault(m) == TimeLimitInStream(m) \/ RunRaises(m) \/ DatabaseFails(m) \/ WorkerLost(m)

Requeue == MoveRequests \/ ReopenRequest \/ PublishRetry

Next ==
    /\ \/ \E m \in Messages : Work(m) \/ Fault(m)
       \/ ChooseRequests \/ Requeue \/ RetryAbandoned
    /\ UNCHANGED setting

Spec == Init /\ [][Next]_vars

\* Workers serve the queue and a retry that has begun goes on; nobody has to
\* ask for a retry.
FairSpec ==
    /\ Spec
    /\ \A m \in Messages : WF_vars(Work(m) /\ UNCHANGED setting)
    /\ WF_vars(Requeue /\ UNCHANGED setting)

-----------------------------------------------------------------------------
(* Properties                                                              *)

Crashed == lost + errors > 0
Final == {"downloaded", "unavailable", "failed"}

\* The types; a run within a stream works on a request of that stream that
\* exists, for an operation that does.
TypeOK ==
    /\ setting \in Settings
    /\ run \in [Messages ->
         [pc : {"none", "queued", "over", "dead"} \cup Running, try : 0..MaxFaults,
          carried : Operations \cup {NoOperation}, op : Operations \cup {NoOperation},
          stream : Streams, req : Requests \cup {<<NoOperation, 1, 1>>},
          clip : Clips \cup {None}, captured : 0..2]]
    /\ operation \in [Operations -> {"none", "requested", "processing", "available"} \cup Final]
    /\ request \in [Requests -> [status : {"none", "in_progress", "fulfilled", "failed"},
                                 op : Operations \cup {NoOperation}]]
    /\ row \in [Streams -> Clips \cup {None}] /\ object \in [Streams -> Clips \cup {None}]
    /\ gap \in [Streams -> BOOLEAN]
    /\ log \subseteq [kind : {"recorded", "hashed", "unavailable", "succeeded", "failed"},
                      stream : 0..2, clip : Clips \cup {None}]
    /\ operator \in [pc : {"idle", "move", "reopen", "publish", "over"},
                      chosen : SUBSET Requests]
    /\ overlapped \in BOOLEAN /\ skipped \subseteq Messages /\ untold \subseteq Requests
    /\ lost \in Nat /\ errors \in Nat /\ lost + errors =< MaxFaults
    /\ \A m \in Messages : run[m].pc \in InStream =>
          /\ run[m].req[2] = Stream(m) /\ request[run[m].req] # NoRequest
          /\ operation[Operation(m)] # "none"

\* A capture that reports success has answered for every stream: there is its
\* footage or a row that says why there is none.
SucceededIsDocumented ==
    Succeeded \in log => \A s \in Streams : row[s] # None \/ gap[s]

\* The hash in an artifact's row is that of the object it points to, through
\* every redelivery, unless two runs stored the same stream at once.
StoredMatchesRow ==
    \A s \in Streams : row[s] # None => object[s] = row[s] \/ overlapped

\* Every captured artifact has its recorded and its hashed event, and the hash
\* announced is the row's, unless a run was broken off or two ran at once.
RowHasTrail ==
    \A s \in Streams : row[s] # None =>
        /\ Event("recorded", s, None) \in log
        /\ HashedEvents(s) # {}
        /\ HashedEvents(s) = {Event("hashed", s, row[s])} \/ Crashed \/ overlapped

\* A run has failed the request and has not yet told so.
Telling(q) == \E m \in Messages : At(m, "tell") /\ run[m].req = q

\* A fulfilled request has its footage.  That the stream of a failed one was
\* unavailable is in the log, unless the run that failed it is just about to
\* write so or was broken off right there.
RequestsAnswerTruly ==
    \A q \in Requests :
        /\ request[q].status = "fulfilled" => row[q[2]] # None
        /\ request[q].status = "failed" =>
              Event("unavailable", q[2], None) \in log \/ Telling(q) \/ q \in untold

\* An operation reported as downloaded brought footage; one reported as
\* unavailable found none, unless a run was broken off or two ran at once.
OperationTellsTruth ==
    \A o \in Operations :
        /\ operation[o] = "downloaded" => \E s \in Streams : row[s] # None
        /\ operation[o] = "unavailable" => (\A s \in Streams : row[s] = None) \/ Crashed \/ overlapped

\* A stream is not both captured and unavailable, unless a run was broken off
\* or two ran at once.
OneVerdictPerStream ==
    \A s \in Streams : row[s] # None /\ gap[s] => Crashed \/ overlapped

\* Every stream of a capture that succeeded has one answer.
CaptureIsDocumented == TypeOK /\ SucceededIsDocumented /\ OneVerdictPerStream

\* Footage can be traced from its object to its row and its events.
FootageIsTraceable == StoredMatchesRow /\ RowHasTrail

\* What the evidence requests and the operations report is what was found.
AnswersAreTrue == RequestsAnswerTruly /\ OperationTellsTruth

\* What is still open for no other reason than that work goes on: not for a
\* message skipped as a duplicate, a run broken off or two runs at once.
OpenOperations == {o \in Operations :
    operation[o] \notin Final \cup {"none"} /\ o[1] \notin skipped /\ ~Crashed /\ ~overlapped}
OpenRequests == {q \in Requests :
    request[q].status = "in_progress" /\ request[q].op[1] \notin skipped /\ ~Crashed /\ ~overlapped}

\* Every operation comes to its end, unless for one of those reasons.
OperationsEnd == (OpenOperations # {}) ~> (OpenOperations = {})

\* So does every evidence request, also one that a retry has opened again.
RequestsEnd == (OpenRequests # {}) ~> (OpenRequests = {})

\* A capture leaves no operation and no request open.
CapturesSettle == OperationsEnd /\ RequestsEnd

=============================================================================
