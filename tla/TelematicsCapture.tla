------------------------- MODULE TelematicsCapture -------------------------
(***************************************************************************)
(* The telematics bundle of one incident: the Celery task that fetches     *)
(* each dataset from the provider, renders it three times, stores every    *)
(* rendering and records it (tasks/evidence_tasks.py,                      *)
(* capture_telematics_bundle), with its own retries, and the retry of      *)
(* evidence requests by which an operator queues the task again            *)
(* (services/telematics_capture_service.py).  How the bundle is begun by   *)
(* the office is in IncidentCaptures, which composes this module.          *)
(*                                                                         *)
(* Conventions are those of DashcamCapture: an action is a commit, an      *)
(* object written or an answer of the provider; captures have no window    *)
(* and so share their idempotency key.  Unlike a camera's stream, a        *)
(* dataset that is empty is captured like any other, and each of its       *)
(* artifacts is looked for by itself.  The events "recorded", "requested"  *)
(* and "attempted" and the operation's result_json are left out.           *)
(***************************************************************************)
EXTENDS Naturals, FiniteSets

CONSTANTS
    Answers,    \* what the provider may answer for a dataset, the empty list too
    None,       \* no answer
    MaxRetries  \* the retries the policy allows a message

ASSUME TelematicsAssumption == None \notin Answers /\ MaxRetries \in Nat

VARIABLES
    shape,      \* the instance: how many datasets and formats there are, faults at most,
                \* and whether the operator retries requests that have not failed, too;
                \* the code has four datasets in JSON, CSV and PDF
    run,        \* the task's two messages and the runs that work on them
    operation,  \* status of the integration operations
    request,    \* the evidence requests: status and the operation they belong to
    row,        \* per dataset and rendering: what the captured artifact's row hashes
    gap,        \* the datasets that have an unavailable artifact
    object,     \* per dataset and rendering: the object in the vault
    log,        \* the events committed for the incident
    mapped,     \* the incident names a vehicle the provider knows
    operator,   \* the retry: its step and the requests it has read
    overlapped, \* history: a run began while the other one was under way
    skipped,    \* history: messages answered with skipped_duplicate
    faults      \* workers lost and errors so far

artifacts == <<row, gap, object>>
history == <<overlapped, skipped>>
bundleVars == <<shape, run, operation, request, artifacts, log, mapped, operator, history, faults>>

Messages == {"first", "retry"}
Sets == 1..shape.sets
Renderings == 1..shape.formats
Operations == Messages \X (0..shape.faults)
NoOperation == <<"none", 0>>
\* Named after the operation and the dataset they were made for.  A second one
\* is made when the first has been moved to the retry's operation.
Requests == Operations \X Sets \X {1, 2}

InDataset == {"fetch", "put", "announce", "save", "fulfil"}
Running == {"open", "request", "fail", "document", "succeed", "finalize"} \cup InDataset

\* try counts the deliveries, retries those that the task itself asked for.
Unpublished == [pc |-> "none", try |-> 0, retries |-> 0, carried |-> NoOperation,
                op |-> NoOperation, set |-> 1, rendering |-> 1,
                req |-> <<NoOperation, 1, 1>>, answer |-> None]
NoRequest == [status |-> "none", op |-> NoOperation]

Event(kind, d, k, a) == [kind |-> kind, set |-> d, rendering |-> k, answer |-> a]
Succeeded == Event("succeeded", 0, 0, None)
Failed == Event("failed", 0, 0, None)
Unavailable(d) == Event("unavailable", d, 0, None)

First == <<"first", 0>>
Retry == <<"retry", 0>>

\* The driver's initiation has published a bare message; the office has not begun;
\* or the bundle is over, the incident's vehicle being unknown to the provider.
BundleInit(origin) ==
    /\ run = [m \in Messages |->
                IF m = "retry" \/ origin = "office" THEN Unpublished
                ELSE [Unpublished EXCEPT !.pc = IF origin = "driver" THEN "queued" ELSE "over"]]
    /\ operation = [o \in Operations |-> IF origin = "over" /\ o = First THEN "failed" ELSE "none"]
    /\ request = [q \in Requests |-> NoRequest]
    /\ row = [d \in Sets |-> [k \in Renderings |-> None]]
    /\ gap = {}
    /\ object = row
    /\ log = {}
    /\ mapped \in IF origin = "over" THEN {FALSE} ELSE BOOLEAN
    /\ operator = [pc |-> "idle", chosen |-> {}]
    /\ overlapped = FALSE
    /\ skipped = {}
    /\ faults = 0

-----------------------------------------------------------------------------
(* The run of a message                                                    *)

At(m, pc) == run[m].pc = pc
Goto(m, pc) == run' = [run EXCEPT ![m].pc = pc]
Operation(m) == run[m].op
Set(m) == run[m].set
Rendering(m) == run[m].rendering

NextSet(m) ==
    run' = [run EXCEPT ![m].pc = IF Set(m) = shape.sets THEN "succeed" ELSE "request",
                       ![m].set = IF Set(m) = shape.sets THEN @ ELSE @ + 1,
                       ![m].rendering = 1, ![m].req = Unpublished.req, ![m].answer = None]

\* To the first rendering from k on that has no artifact.
Render(m, k, a) ==
    LET missing == {j \in Renderings : j >= k /\ row[Set(m)][j] = None}
        next == CHOOSE j \in missing : \A i \in missing : j =< i
    IN run' = [run EXCEPT ![m].answer = IF missing = {} THEN None ELSE a,
                          ![m].pc = IF missing = {} THEN "fulfil" ELSE "put",
                          ![m].rendering = IF missing = {} THEN 1 ELSE next]

End(m, pc) == run' = [run EXCEPT ![m] = [Unpublished EXCEPT !.pc = pc]]

\* The message is delivered once more, by the broker or by the task's retry.
Redeliver(m, retries) ==
    run' = [run EXCEPT ![m] = [Unpublished EXCEPT !.pc = "queued", !.try = run[m].try + 1,
                                                  !.retries = retries,
                                                  !.carried = run[m].carried]]

SkipDuplicate(m) ==
    /\ At(m, "queued")
    /\ Succeeded \in log
    /\ End(m, "over")
    /\ skipped' = skipped \cup {m}
    /\ UNCHANGED <<operation, request, artifacts, log, mapped, operator, overlapped, faults>>

Start(m) ==
    /\ At(m, "queued")
    /\ Succeeded \notin log
    /\ Goto(m, "open")
    /\ overlapped' = (overlapped \/ \E n \in Messages \ {m} : run[n].pc \in Running)
    /\ UNCHANGED <<operation, request, artifacts, log, mapped, operator, skipped, faults>>

\* The operation the message names, or a new one in every delivery.
OpenOperation(m) ==
    /\ At(m, "open")
    /\ mapped
    /\ LET o == IF run[m].carried = NoOperation THEN <<m, run[m].try>> ELSE run[m].carried
       IN /\ operation' = [operation EXCEPT ![o] = "running"]
          /\ run' = [run EXCEPT ![m].op = o, ![m].pc = "request"]
    /\ UNCHANGED <<request, artifacts, log, mapped, operator, history, faults>>

\* Without a vehicle the run ends before it has looked at the requests.
RefuseUnmapped(m) ==
    /\ At(m, "open")
    /\ ~mapped
    /\ LET o == IF run[m].carried = NoOperation THEN <<m, run[m].try>> ELSE run[m].carried
       IN operation' = [operation EXCEPT ![o] = "failed"]
    /\ End(m, "over")
    /\ UNCHANGED <<request, artifacts, log, mapped, operator, history, faults>>

\* The dataset's request is looked up by the operation, or made.
OwnRequests(m) == {q \in Requests : request[q].op = Operation(m) /\ q[2] = Set(m)}
NewRequest(m) ==
    <<Operation(m), Set(m), IF request[<<Operation(m), Set(m), 1>>] = NoRequest THEN 1 ELSE 2>>
Make(q) == request' = [request EXCEPT ![q] = [status |-> "in_progress", op |-> q[1]]]

FindRequest(m) ==
    /\ At(m, "request")
    /\ \/ \E q \in OwnRequests(m) :
              /\ run' = [run EXCEPT ![m].req = q, ![m].pc = "fetch"]
              /\ UNCHANGED request
       \/ /\ OwnRequests(m) = {}
          /\ run' = [run EXCEPT ![m].req = NewRequest(m), ![m].pc = "fetch"]
          /\ Make(NewRequest(m))
    /\ UNCHANGED <<operation, artifacts, log, mapped, operator, history, faults>>

Fetch(m) ==
    /\ At(m, "fetch")
    /\ \E a \in Answers : Render(m, 1, a)
    /\ UNCHANGED <<operation, request, artifacts, log, mapped, operator, history, faults>>

\* The provider, a record that does not validate, the renderer or the vault.
DatasetFails(m) ==
    /\ run[m].pc \in {"fetch", "put"}
    /\ Goto(m, "fail")
    /\ UNCHANGED <<operation, request, artifacts, log, mapped, operator, history, faults>>

Put(m) ==
    /\ At(m, "put")
    /\ object' = [object EXCEPT ![Set(m)][Rendering(m)] = run[m].answer]
    /\ Goto(m, "announce")
    /\ UNCHANGED <<operation, request, row, gap, log, mapped, operator, history, faults>>

Hashes(d, k) == {e \in log : e.kind = "hashed" /\ e.set = d /\ e.rendering = k}

\* Emitted once: that of an earlier, unfinished run stays in the log.
Announce(m) ==
    /\ At(m, "announce")
    /\ log' = IF Hashes(Set(m), Rendering(m)) # {} THEN log
              ELSE log \cup {Event("hashed", Set(m), Rendering(m), run[m].answer)}
    /\ Goto(m, "save")
    /\ UNCHANGED <<operation, request, artifacts, mapped, operator, history, faults>>

\* Mutant of SaveArtifact: the row is not committed.
SaveArtifactUncommitted(m) ==
    /\ At(m, "save")
    /\ row[Set(m)][Rendering(m)] = None
    /\ run' = [run EXCEPT ![m].pc = IF Rendering(m) = shape.formats THEN "fulfil" ELSE "put",
                          ![m].rendering = IF Rendering(m) = shape.formats THEN 1 ELSE @ + 1]
    /\ UNCHANGED <<operation, request, artifacts, log, mapped, operator, history, faults>>

\* With the look for the next rendering's row, which only this run's own step
\* separates from it.
SaveArtifact(m) ==
    /\ At(m, "save")
    /\ row[Set(m)][Rendering(m)] = None
    /\ row' = [row EXCEPT ![Set(m)][Rendering(m)] = run[m].answer]
    /\ Render(m, Rendering(m) + 1, run[m].answer)
    /\ UNCHANGED <<operation, request, gap, object, log, mapped, operator, history, faults>>

\* The primary key refuses the row and the session is unusable for the handlers.
SaveConflict(m) ==
    /\ At(m, "save")
    /\ row[Set(m)][Rendering(m)] # None
    /\ End(m, "dead")
    /\ UNCHANGED <<operation, request, artifacts, log, mapped, operator, history, faults>>

Settle(m, status) == request' = [request EXCEPT ![run[m].req].status = status]

Fulfil(m) ==
    /\ At(m, "fulfil")
    /\ Settle(m, "fulfilled")
    /\ NextSet(m)
    /\ UNCHANGED <<operation, artifacts, log, mapped, operator, history, faults>>

\* The event that documents the gap, and the look for the row that does.
EmitUnavailable(m) ==
    /\ At(m, "fail")
    /\ log' = log \cup {Unavailable(Set(m))}
    /\ Goto(m, "document")
    /\ UNCHANGED <<operation, request, artifacts, mapped, operator, history, faults>>

\* The row, unless there is one, and the failure of the request, if the run got
\* as far as that.
DocumentGap(m) ==
    /\ At(m, "document")
    /\ gap' = gap \cup {Set(m)}
    /\ IF run[m].req = Unpublished.req THEN UNCHANGED request ELSE Settle(m, "failed")
    /\ NextSet(m)
    /\ UNCHANGED <<operation, row, object, log, mapped, operator, history, faults>>

\* The bundle succeeded, even when every dataset has failed.
Succeed(m) ==
    /\ At(m, "succeed")
    /\ log' = log \cup {Succeeded}
    /\ Goto(m, "finalize")
    /\ UNCHANGED <<operation, request, artifacts, mapped, operator, history, faults>>

\* The acknowledgement is one step with this: a redelivery would be skipped.
Finalize(m) ==
    /\ At(m, "finalize")
    /\ operation' = [operation EXCEPT ![Operation(m)] = "succeeded"]
    /\ End(m, "over")
    /\ UNCHANGED <<request, artifacts, log, mapped, operator, history, faults>>

-----------------------------------------------------------------------------
(* Faults                                                                  *)

Fault == faults < shape.faults /\ faults' = faults + 1

\* The soft time limit is caught like any failure of the dataset.
TimeLimitInDataset(m) ==
    /\ run[m].pc \in InDataset
    /\ Goto(m, "fail")
    /\ Fault
    /\ UNCHANGED <<operation, request, artifacts, log, mapped, operator, history>>

\* And so it is before the dataset's request is at hand, which stays as it is,
\* or open if it was just made.
TimeLimitInRequest(m) ==
    /\ At(m, "request")
    /\ Goto(m, "fail")
    /\ \/ UNCHANGED request
       \/ OwnRequests(m) = {} /\ Make(NewRequest(m))
    /\ Fault
    /\ UNCHANGED <<operation, artifacts, log, mapped, operator, history>>

\* An exception outside of the datasets: the operation has failed, and the task
\* is retried unless the error calls for an administrator or the policy's
\* retries are spent.
RunRaises(m) ==
    /\ run[m].pc \in Running \ (InDataset \cup {"request"})
    /\ log' = log \cup {Failed}
    /\ operation' = IF Operation(m) = NoOperation THEN operation
                    ELSE [operation EXCEPT ![Operation(m)] = "failed"]
    /\ \/ End(m, "dead")
       \/ run[m].retries < MaxRetries /\ Redeliver(m, run[m].retries + 1)
    /\ Fault
    /\ UNCHANGED <<request, artifacts, mapped, operator, history>>

\* The message is delivered again, or never: a database error, which leaves no
\* handler a usable session, is a loss whose message is not taken up.
WorkerLost(m) ==
    /\ run[m].pc \in Running
    /\ Redeliver(m, run[m].retries)
    /\ Fault
    /\ UNCHANGED <<operation, request, artifacts, log, mapped, operator, history>>

-----------------------------------------------------------------------------
(* The operator's retry of requests                                        *)

\* The failed requests, or those of any status, by their identifiers or all of them;
\* the operation made for them is one step with the read.
ChooseRequests ==
    /\ operator.pc = "idle"
    /\ \E chosen \in SUBSET {q \in Requests : request[q] # NoRequest
                                            /\ (shape.any \/ request[q].status = "failed")} :
        /\ chosen # {}
        /\ operator' = [pc |-> "move", chosen |-> chosen]
    /\ operation' = [operation EXCEPT ![Retry] = "queued"]
    /\ UNCHANGED <<run, request, artifacts, log, mapped, history, faults>>

\* A request is made for every dataset that none was chosen for.  The requests
\* are moved in one commit and then reopened, whatever has become of them since;
\* the commits of the status are one step with the move.
MoveRequests ==
    /\ operator.pc = "move"
    /\ LET missing == {d \in Sets : \A q \in operator.chosen : q[2] # d}
           mine == operator.chosen \cup {<<Retry, d, 1>> : d \in missing}
       IN request' = [q \in Requests |-> IF q \in mine THEN [status |-> "in_progress", op |-> Retry]
                                                       ELSE request[q]]
    /\ operator' = [pc |-> "publish", chosen |-> {}]
    /\ UNCHANGED <<run, operation, artifacts, log, mapped, history, faults>>

PublishRetry ==
    /\ operator.pc = "publish"
    /\ operator' = [operator EXCEPT !.pc = "over"]
    /\ run' = [run EXCEPT !["retry"] = [Unpublished EXCEPT !.pc = "queued", !.carried = Retry]]
    /\ UNCHANGED <<operation, request, artifacts, log, mapped, history, faults>>

-----------------------------------------------------------------------------
Work(m) ==
    \/ SkipDuplicate(m) \/ Start(m) \/ OpenOperation(m) \/ RefuseUnmapped(m)
    \/ FindRequest(m) \/ Fetch(m) \/ DatasetFails(m) \/ Put(m) \/ Announce(m)
    \/ SaveArtifact(m) \/ SaveConflict(m) \/ Fulfil(m)
    \/ EmitUnavailable(m) \/ DocumentGap(m) \/ Succeed(m) \/ Finalize(m)

Interrupt(m) == TimeLimitInDataset(m) \/ TimeLimitInRequest(m) \/ RunRaises(m) \/ WorkerLost(m)

Requeue == MoveRequests \/ PublishRetry

BundleNext ==
    /\ \/ \E m \in Messages : Work(m) \/ Interrupt(m)
       \/ ChooseRequests \/ Requeue
    /\ UNCHANGED shape

-----------------------------------------------------------------------------
(* Properties                                                              *)

BundleTypeOK ==
    /\ run \in [Messages ->
         [pc : {"none", "queued", "over", "dead"} \cup Running, try : 0..shape.faults,
          retries : 0..MaxRetries, carried : Operations \cup {NoOperation},
          op : Operations \cup {NoOperation}, set : Sets, rendering : Renderings,
          req : Requests \cup {Unpublished.req}, answer : Answers \cup {None}]]
    /\ operation \in [Operations -> {"none", "queued", "running", "succeeded", "failed"}]
    /\ request \in [Requests -> [status : {"none", "open", "in_progress", "fulfilled", "failed"},
                                 op : Operations \cup {NoOperation}]]
    /\ row \in [Sets -> [Renderings -> Answers \cup {None}]]
    /\ object \in [Sets -> [Renderings -> Answers \cup {None}]]
    /\ gap \subseteq Sets
    /\ log \subseteq [kind : {"hashed", "unavailable", "succeeded", "failed"}, set : 0..shape.sets,
                      rendering : 0..shape.formats, answer : Answers \cup {None}]
    /\ mapped \in BOOLEAN /\ overlapped \in BOOLEAN /\ skipped \subseteq Messages
    /\ operator \in [pc : {"idle", "move", "publish", "over"}, chosen : SUBSET Requests]
    /\ faults \in 0..shape.faults

Whole(d) == \A k \in Renderings : row[d][k] # None

\* A bundle that reports success has answered for every dataset: there are its
\* three renderings or a row that says why there are none.
BundleIsDocumented == Succeeded \in log => \A d \in Sets : Whole(d) \/ d \in gap

\* A fulfilled request has its renderings; a failed one was announced as
\* unavailable.
RequestsAnswerTruly ==
    \A q \in Requests :
        /\ request[q].status = "fulfilled" => Whole(q[2])
        /\ request[q].status = "failed" => Unavailable(q[2]) \in log

\* The three renderings of a dataset show one answer of the provider, each row
\* has the hash of its object and of its event, unless the dataset failed on the
\* way, a run was broken off or two ran at once.
RenderingsAgree ==
    \A d \in Sets : \A k \in Renderings : row[d][k] # None =>
        \/ /\ object[d][k] = row[d][k]
           /\ Hashes(d, k) = {Event("hashed", d, k, row[d][k])}
           /\ \A j \in Renderings : row[d][j] \in {None, row[d][k]}
        \/ Unavailable(d) \in log \/ faults > 0 \/ overlapped

\* What a bundle reports is there, in one piece.
BundleIsHonest == BundleTypeOK /\ BundleIsDocumented /\ RequestsAnswerTruly /\ RenderingsAgree

\* Open for no other reason than that work goes on: not for a message skipped
\* as a duplicate, a vehicle that is not mapped, a fault or two runs at once.
OpenWork ==
    {o \in Operations : operation[o] \in {"queued", "running"} /\ o[1] \notin skipped}
    \cup {q \in Requests : request[q].status = "in_progress" /\ mapped
                             /\ request[q].op[1] \notin skipped}

=============================================================================
