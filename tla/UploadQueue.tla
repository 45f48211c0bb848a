----------------------------- MODULE UploadQueue -----------------------------
(***************************************************************************)
(* The driver app's queue of evidence uploads and the server's side of an  *)
(* upload (driver-app/src/store/uploadQueueStore.ts, services/uploads.ts,  *)
(* services/artifacts.ts, backend services/artifact_upload_service.py,     *)
(* api/routes/routes_driver_artifacts.py), for the items of one incident.  *)
(*                                                                         *)
(* The queue lives in memory and is written to the device's storage after  *)
(* every change.  A worker takes the items that are due, one after the     *)
(* other: a row and an address from the server, the bytes to the object    *)
(* store, and the completion of the row.  Any answer can be missed or fail *)
(* to come at all, since no request has a time limit; the app is killed at *)
(* every step, the storage refuses a write or cannot be read.              *)
(* The delay of a retry passes or does not; sizes, hashes, places, telemetry *)
(* and the removal of uploaded items, which nothing calls, are left out.   *)
(***************************************************************************)
EXTENDS Integers, Sequences, FiniteSets, SequencesExt, CaseReadiness

CONSTANTS
    Items,          \* bound: the captures of the incident
    Type,           \* the artifact type of each of them
    MaxTries,       \* MAX_ATTEMPTS
    MaxFaults,      \* bound: kills of the app and writes the storage refuses
    MaxTurns        \* bound: attempts after which a failed item is left alone

ASSUME UploadAssumption ==
    /\ DOMAIN Type = Items /\ IsFiniteSet(Items)
    /\ {MaxTries, MaxFaults, MaxTurns} \subseteq Nat

VARIABLES
    queue,      \* the queue in memory
    writes,     \* its versions on their way to the storage
    storage,    \* the queue in the device's storage
    hydrated,   \* the app has read the storage
    worker,     \* the pass of the worker
    artifacts,  \* the server's rows
    objects,    \* the object store
    kept,       \* history: the items that were stored; an enqueuing is answered then
    blank,      \* history: the storage could not be read
    faults      \* history: kills of the app and refused writes

uploadVars == <<queue, writes, storage, hydrated, worker, artifacts, objects, kept, blank, faults>>

ItemStatuses == {"pending", "uploading", "uploaded", "failed"}
NoItems == [i \in {} |-> 0]
NewItem == [status |-> "pending", attempts |-> 0, due |-> TRUE]

\* own is the place of the worker's write among those under way, 0 if it awaits
\* none.  In some of its steps it waits for that write.
Rest == [pc |-> "rest", left |-> <<>>, tries |-> 0, artifact |-> 0, own |-> 0]
Waits == {"preparing", "prepared", "succeeded", "settled"}

UploadInit ==
    /\ queue = NoItems /\ writes = <<>> /\ storage = NoItems
    /\ hydrated = FALSE
    /\ worker = Rest
    /\ artifacts = <<>>
    /\ objects = [t \in {Type[i] : i \in Items} |-> {}]
    /\ kept = {} /\ blank = FALSE /\ faults = 0

-----------------------------------------------------------------------------
(* The store                                                               *)

\* Reading the storage fails once or succeeds; the queue is empty if it failed.
Hydrate ==
    /\ ~hydrated /\ hydrated' = TRUE
    /\ \/ queue' = storage /\ UNCHANGED blank
       \/ ~blank /\ blank' = TRUE /\ queue' = NoItems
    /\ UNCHANGED <<writes, storage, worker, artifacts, objects, kept, faults>>

\* The memory changes at once; its new version follows to the storage, and who
\* changed it waits until that version has arrived or was refused.
Update(items) ==
    /\ queue' = items
    /\ writes' = Append(writes, items)
Changed(i, fields) ==
    [queue EXCEPT ![i] = [f \in DOMAIN @ |-> IF f \in DOMAIN fields THEN fields[f] ELSE @[f]]]

Resume(pc) == [worker EXCEPT !.pc = pc, !.own = 0]
NextItem == IF Len(worker.left) = 1 THEN Rest
            ELSE [Rest EXCEPT !.pc = "prepare", !.left = Tail(worker.left)]

\* The worker goes on when its version is stored.  A refusal is one more failure
\* of the attempt, unless it meets the mark in front of the attempt or the one
\* that settles it: then it ends the pass.
OnStored == CASE worker.pc = "preparing" -> Resume("request")
              [] worker.pc = "prepared" -> Resume("put")
              [] OTHER -> NextItem
OnRefusal == IF worker.pc \in {"prepared", "succeeded"} THEN Resume("retry") ELSE Rest

\* The first of the writes is over: that of the worker, which is now to be as
\* said, or one in front of it, or none of its own.
FirstIsOver(to) ==
    /\ writes # <<>>
    /\ writes' = Tail(writes)
    /\ worker' = IF worker.own = 1 THEN to
                 ELSE [worker EXCEPT !.own = IF @ = 0 THEN 0 ELSE @ - 1]

\* Mutant of Persist: the last version overtakes the others.
PersistLastFirst ==
    /\ writes # <<>>
    /\ storage' = writes[Len(writes)]
    /\ kept' = kept \cup DOMAIN storage'
    /\ writes' = Front(writes)
    /\ worker' = IF worker.own = Len(writes) THEN OnStored ELSE worker
    /\ UNCHANGED <<queue, hydrated, artifacts, objects, blank, faults>>

\* The versions arrive in their order.
Persist ==
    /\ FirstIsOver(OnStored)
    /\ storage' = Head(writes)
    /\ kept' = kept \cup DOMAIN Head(writes)
    /\ UNCHANGED <<queue, hydrated, artifacts, objects, blank, faults>>

\* The storage refuses a version: what is in memory stays as it is.
PersistFails ==
    /\ faults < MaxFaults /\ faults' = faults + 1
    /\ FirstIsOver(OnRefusal)
    /\ UNCHANGED <<queue, storage, hydrated, artifacts, objects, kept, blank>>

\* The driver's captures are enqueued when they are made, whatever the worker does.
Enqueue(i) ==
    /\ hydrated
    /\ i \notin DOMAIN queue \cup kept
    /\ Update([j \in DOMAIN queue \cup {i} |-> IF j = i THEN NewItem ELSE queue[j]])
    /\ UNCHANGED <<storage, hydrated, worker, artifacts, objects, kept, blank, faults>>

\* The delay before the next attempt is over.
Due(i) ==
    /\ hydrated /\ i \in DOMAIN queue /\ ~queue[i].due
    /\ queue' = [queue EXCEPT ![i].due = TRUE]
    /\ UNCHANGED <<writes, storage, hydrated, worker, artifacts, objects, kept, blank, faults>>

\* Mutant of Processable: an item that was broken off is not taken up again.
ProcessableIdle(i) == queue[i].status \in {"pending", "failed"} /\ queue[i].due

\* Failed items are due like the others.
Processable(i) == queue[i].status # "uploaded" /\ queue[i].due

-----------------------------------------------------------------------------
(* The worker: one pass at a time, over what was due when it began         *)

Doing(pc) == worker.pc = pc
Item == Head(worker.left)

\* The items are taken in the order of the queue; here it may be any order.
Tick ==
    /\ hydrated /\ Doing("rest")
    /\ LET due == {i \in DOMAIN queue : Processable(i) /\ (queue[i].status = "failed" => queue[i].attempts < MaxTurns)}
       IN /\ due # {}
          /\ \E order \in SetToSeqs(due) : worker' = [Rest EXCEPT !.pc = "prepare", !.left = order]
    /\ UNCHANGED <<queue, writes, storage, hydrated, artifacts, objects, kept, blank, faults>>

\* The worker writes fields of its item and waits for that version.
Mark(pc, fields, to, tries) ==
    /\ Doing(pc)
    /\ Update(Changed(Item, fields))
    /\ worker' = [worker EXCEPT !.pc = to, !.tries = tries, !.own = Len(writes) + 1]
    /\ UNCHANGED <<storage, hydrated, artifacts, objects, kept, blank, faults>>

\* The number of the attempt is taken from the item as the pass found it.
MarkPreparing ==
    LET attempt == queue[Item].attempts + 1
    IN Mark("prepare", [status |-> "uploading", attempts |-> attempt], "preparing", attempt)

Proceed(pc) == worker' = [worker EXCEPT !.pc = pc]

\* A failure the server may get over, or one it will not: 4xx but 429.
Fails == Proceed("retry")
Refused == Proceed("fail")

\* The row is committed with its key, which is made before the row has its id:
\* the key is that of the type.  Its address is answered, or the answer missed.
IssueUploadUrl ==
    /\ Doing("request")
    /\ artifacts' = Append(artifacts, [item |-> Item, key |-> Type[Item], status |-> "pending"])
    /\ \/ worker' = [worker EXCEPT !.pc = "issued", !.artifact = Len(artifacts) + 1]
       \/ Fails
    /\ UNCHANGED <<queue, writes, storage, hydrated, objects, kept, blank, faults>>

\* Nothing is written for a request the schema or the service refuses, or that
\* does not arrive.
NoUploadUrl ==
    /\ Doing("request")
    /\ Fails \/ Refused
    /\ UNCHANGED <<queue, writes, storage, hydrated, artifacts, objects, kept, blank, faults>>

\* Where the bytes go is kept with the item, and not used again.
MarkPrepared == Mark("issued", NoItems, "prepared", worker.tries)

\* Mutant of PutObject: the row is not completed.
PutAndDone ==
    /\ Doing("put")
    /\ \/ /\ objects' = [objects EXCEPT ![Type[Item]] = {Item}]
          /\ Proceed("succeed") \/ Fails
       \/ Fails /\ UNCHANGED objects
    /\ UNCHANGED <<queue, writes, storage, hydrated, artifacts, kept, blank, faults>>

PutObject ==
    /\ Doing("put")
    /\ \/ /\ objects' = [objects EXCEPT ![Type[Item]] = {Item}]
          /\ Proceed("complete") \/ Fails
       \/ Fails /\ UNCHANGED objects
    /\ UNCHANGED <<queue, writes, storage, hydrated, artifacts, kept, blank, faults>>

\* Mutant of Completed: the incident's first row is completed.
CompletedFirst(a) == [artifacts EXCEPT ![1].status = "captured"]

Completed(a) == [artifacts EXCEPT ![a].status = "captured"]

\* A row that is captured already is answered as it is.
CompleteUpload ==
    /\ Doing("complete")
    /\ \/ artifacts' = Completed(worker.artifact) /\ (Proceed("succeed") \/ Fails)
       \/ UNCHANGED artifacts /\ (Fails \/ Refused)
    /\ UNCHANGED <<queue, writes, storage, hydrated, objects, kept, blank, faults>>

MarkSucceeded == Mark("succeed", [status |-> "uploaded"], "succeeded", worker.tries)
ScheduleRetry ==
    /\ worker.tries < MaxTries
    /\ Mark("retry", [status |-> "pending", due |-> FALSE], "settled", worker.tries)
GiveUp ==
    /\ worker.tries >= MaxTries
    /\ Mark("retry", [status |-> "failed"], "settled", worker.tries)
MarkFailed == Mark("fail", [status |-> "failed"], "settled", worker.tries)

\* The app is killed: what had not reached the storage is gone.
Kill ==
    /\ faults < MaxFaults /\ faults' = faults + 1
    /\ hydrated /\ hydrated' = FALSE
    /\ queue' = NoItems /\ writes' = <<>> /\ worker' = Rest
    /\ UNCHANGED <<storage, artifacts, objects, kept, blank>>

\* The requests of the worker, and what it does on its own.
Request == IssueUploadUrl \/ NoUploadUrl \/ PutObject \/ CompleteUpload
Work == Tick \/ MarkPreparing \/ MarkPrepared \/ MarkSucceeded \/ ScheduleRetry \/ GiveUp \/ MarkFailed

UploadNext ==
    \/ Hydrate \/ Persist \/ PersistFails \/ Work \/ Request \/ Kill
    \/ \E i \in Items : Enqueue(i) \/ Due(i)

\* The timers fire and the storage answers a write one way or the other.  The
\* driver need not open the app again, and a request need never end.
UploadFairness ==
    /\ WF_uploadVars(Work) /\ WF_uploadVars(Persist \/ PersistFails)
    /\ \A i \in Items : WF_uploadVars(Due(i))
UploadSpec == UploadInit /\ [][UploadNext]_uploadVars /\ UploadFairness

-----------------------------------------------------------------------------
(* Properties                                                              *)

UploadTypeOK ==
    /\ \A i \in DOMAIN queue : queue[i].status \in ItemStatuses
    /\ Range(worker.left) \subseteq Items
    /\ worker.artifact \in 0..Len(artifacts)
    /\ worker.own \in 0..Len(writes) /\ (worker.own > 0 <=> worker.pc \in Waits)

\* An item that was stored once, as it is when its enqueuing is answered, is in
\* the storage and, once the app has read it, in the queue, through every kill
\* and every write that the storage refuses: only a storage that could not be
\* read loses it.
QueuedIsKept ==
    UploadTypeOK /\ (~blank => kept \subseteq DOMAIN storage /\ (hydrated => kept \subseteq DOMAIN queue))

\* An uploaded item has a captured row, and the object of a captured row holds
\* its item's bytes, unless another item of its type was uploaded: they share a
\* key.
CapturedHasItsBytes ==
    /\ \A i \in DOMAIN queue : queue[i].status = "uploaded" =>
            \E a \in DOMAIN artifacts : artifacts[a].item = i /\ artifacts[a].status = "captured"
    /\ \A a \in DOMAIN artifacts : artifacts[a].status = "captured" =>
            \/ objects[artifacts[a].key] = {artifacts[a].item}
            \/ \E j \in Items \ {artifacts[a].item} :
                  Type[j] = Type[artifacts[a].item] /\ objects[artifacts[a].key] = {j}

\* What the desk derives from these rows: when every item is uploaded, nothing of
\* them holds up the case, unless an attempt was given up after it had its row.
Evidence ==
    [artifacts |-> [a \in DOMAIN artifacts |-> artifacts[a].status], collected |-> TRUE,
     validated |-> TRUE, exported |-> FALSE, ready |-> FALSE, requested |-> FALSE]
BrokenOff(i) == Cardinality({a \in DOMAIN artifacts : artifacts[a].item = i}) > 1
UploadsFreeTheCase ==
    ((\A i \in DOMAIN queue : queue[i].status = "uploaded") /\ hydrated /\ ~blank /\ Doing("rest"))
        => Critical(Evidence) = {} \/ \E i \in Items : BrokenOff(i)

\* As long as no request hangs and the app is opened again when it was killed, an
\* item that was enqueued is uploaded or given up, unless the storage could not
\* be read.
ItemsSettle ==
    \A i \in Items :
        ([]<>hydrated /\ []<>~(worker.pc \in {"request", "put", "complete"})) =>
            ((i \in kept) ~>
                (blank \/ (i \in DOMAIN queue /\ queue[i].status \in {"uploaded", "failed"})))
==============================================================================
