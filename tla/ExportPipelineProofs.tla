------------------------ MODULE ExportPipelineProofs ------------------------
(***************************************************************************)
(* Theorems about ExportPipeline, for every value of its constants.        *)
(*                                                                         *)
(* The state is a tuple of functions to records.  The provers are slow on  *)
(* nested EXCEPTs over records, so the first lemmas rewrite each update as *)
(* the replacement of one record by another of the same set; the step      *)
(* lemmas then have one case per action.                                   *)
(***************************************************************************)
EXTENDS ExportPipeline, SequenceTheorems, TLAPS

(* Type correctness, with what it rests on: a handler past create_export   *)
(* names a row and a busy worker holds a message.                          *)

HandlerHasRow ==
   \A r \in Requests :
      req[r].pc \in {"announce", "publish", "mark_queued", "log_queued"}
         => req[r].exp \in Exports

WorkerHasMessage ==
   \A w \in Workers : wk[w].pc # "idle" => wk[w].msg \in Messages

TypeInv == TypeOK /\ HandlerHasRow /\ WorkerHasMessage
-----------------------------------------------------------------------------
(* Updates. *)

\* A busy worker holds a message about an export.
LEMMA BusyExp ==
   ASSUME TypeInv, NEW w \in Workers, wk[w].pc # "idle"
   PROVE  /\ wk[w] \in WorkerStates
          /\ wk[w].msg \in Messages
          /\ Exp(w) \in Exports
BY DEF TypeInv, TypeOK, WorkerHasMessage, Messages, Exp

\* Replacing the state of one worker.
LEMMA WorkerUpdate ==
   ASSUME TypeInv, NEW w \in Workers, NEW s \in WorkerStates,
          s.pc # "idle" => s.msg \in Messages,
          wk' = [wk EXCEPT ![w] = s]
   PROVE  wk' \in [Workers -> WorkerStates] /\ WorkerHasMessage'
BY DEF TypeInv, TypeOK, WorkerHasMessage

\* A busy worker goes on to another step.
LEMMA GoToType ==
   ASSUME TypeInv, NEW w \in Workers, NEW step \in WorkerSteps,
          wk[w].pc # "idle", GoTo(w, step)
   PROVE  wk' \in [Workers -> WorkerStates] /\ WorkerHasMessage'
<1> DEFINE s == [wk[w] EXCEPT !.pc = step, !.seen = Expired]
<1>1. wk' = [wk EXCEPT ![w] = s]
  BY DEF GoTo, TypeInv, TypeOK, WorkerStates
<1>2. s \in WorkerStates /\ s.msg \in Messages
  BY BusyExp DEF WorkerStates
<1> QED
  BY <1>1, <1>2, WorkerUpdate

\* A worker becomes idle.
LEMMA IdleType ==
   ASSUME TypeInv, NEW w \in Workers, wk' = [wk EXCEPT ![w] = IdleWorker]
   PROVE  wk' \in [Workers -> WorkerStates] /\ WorkerHasMessage'
<1>1. IdleWorker \in WorkerStates /\ IdleWorker.pc = "idle"
  BY DEF IdleWorker, WorkerStates, WorkerSteps, Expired
<1> QED
  BY <1>1, WorkerUpdate

\* Replacing one row.
LEMMA RowUpdate ==
   ASSUME row \in [Exports -> Rows], NEW e \in Exports, NEW n \in Rows,
          row' = [row EXCEPT ![e] = n]
   PROVE  row' \in [Exports -> Rows]
OBVIOUS

\* A worker reports a stage: the row of its export, and nothing else, changes.
LEMMA StageRow ==
   ASSUME TypeInv, NEW w \in Workers, NEW s \in Stages, wk[w].pc # "idle",
          SetProgressStage(w, s)
   PROVE  /\ row' = [row EXCEPT ![Exp(w)] = [row[Exp(w)] EXCEPT !.status = "processing",
                                                                !.stage = s]]
          /\ row' \in [Exports -> Rows]
<1> DEFINE e == Exp(w)
<1>1. e \in Exports /\ row \in [Exports -> Rows]
  BY BusyExp DEF TypeInv, TypeOK
<1>2. [row[e] EXCEPT !.status = "processing", !.stage = s] \in Rows
  BY <1>1 DEF Rows, Statuses
<1>3. row' = [row EXCEPT ![e].status = "processing", ![e].stage = s]
  BY DEF SetProgressStage
<1> HIDE DEF e
<1>4. row' = [row EXCEPT ![e] = [row[e] EXCEPT !.status = "processing", !.stage = s]]
  BY <1>1, <1>3 DEF Rows
<1>5. row' \in [Exports -> Rows]
  BY <1>1, <1>2, <1>4, RowUpdate
<1> QED
  BY <1>4, <1>5 DEF e

\* Replacing the state of one handler.
LEMMA HandlerUpdate ==
   ASSUME TypeInv, NEW r \in Requests, NEW h \in Handlers,
          h.pc \in {"announce", "publish", "mark_queued", "log_queued"}
             => h.exp \in Exports,
          req' = [req EXCEPT ![r] = h]
   PROVE  req' \in [Requests -> Handlers] /\ HandlerHasRow'
BY DEF TypeInv, TypeOK, HandlerHasRow

\* A handler goes on to another step.
LEMMA AdvanceType ==
   ASSUME TypeInv, NEW r \in Requests, NEW from, NEW to \in HandlerSteps,
          \/ from \in {"announce", "publish", "mark_queued", "log_queued"}
          \/ to \notin {"announce", "publish", "mark_queued", "log_queued"},
          req[r].pc = from, req' = [req EXCEPT ![r].pc = to]
   PROVE  req' \in [Requests -> Handlers] /\ HandlerHasRow'
<1> DEFINE h == [req[r] EXCEPT !.pc = to]
<1>1. req' = [req EXCEPT ![r] = h]
  BY DEF TypeInv, TypeOK
<1>2. h \in Handlers /\ h.pc = to /\ h.exp = req[r].exp
  BY DEF TypeInv, TypeOK, Handlers
<1>3. to \in {"announce", "publish", "mark_queued", "log_queued"} => h.exp \in Exports
  BY <1>2 DEF TypeInv, HandlerHasRow
<1> QED
  BY <1>1, <1>2, <1>3, HandlerUpdate
-----------------------------------------------------------------------------
(* The handlers' steps. *)

LEMMA SubmitType ==
   ASSUME TypeInv, NEW r \in Requests, NEW k \in Keys \cup {None}, Submit(r, k)
   PROVE  TypeInv'
<1>1. CASE req' = [req EXCEPT ![r] = [@ EXCEPT !.pc = "create", !.key = k]]
  <2> DEFINE h == [req[r] EXCEPT !.pc = "create", !.key = k]
  <2>1. h \in Handlers /\ h.pc = "create"
    BY DEF TypeInv, TypeOK, Handlers, HandlerSteps
  <2>2. req' \in [Requests -> Handlers] /\ HandlerHasRow'
    BY <1>1, <2>1, HandlerUpdate
  <2> QED
    BY <2>2 DEF Submit, TypeInv, TypeOK, WorkerHasMessage, broker, store
<1>2. ASSUME NEW i \in PriorRequests(k),
             req' = [req EXCEPT ![r] = [@ EXCEPT !.pc = "done", !.key = k,
                                                 !.exp = requested[i].exp]]
      PROVE  TypeInv'
  <2> DEFINE R == [exp : Exports, key : Keys \cup {None}]
             h == [req[r] EXCEPT !.pc = "done", !.key = k, !.exp = requested[i].exp]
  <2>1. i \in 1..Len(requested) /\ requested \in Seq(R)
    BY DEF PriorRequests, TypeInv, TypeOK
  <2>2. requested[i] \in R
    BY <2>1, ElementOfSeq
  <2>3. requested[i].exp \in Exports
    BY <2>2
  <2>4. h \in Handlers /\ h.pc = "done"
    BY <2>3 DEF TypeInv, TypeOK, Handlers, HandlerSteps
  <2>5. req' \in [Requests -> Handlers] /\ HandlerHasRow'
    BY <1>2, <2>4, HandlerUpdate
  <2> QED
    BY <2>5 DEF Submit, TypeInv, TypeOK, WorkerHasMessage, broker, store
<1> QED
  BY <1>1, <1>2 DEF Submit

LEMMA SubmitRetryType ==
   ASSUME TypeInv, NEW r \in Requests, NEW e \in Exports, SubmitRetry(r, e)
   PROVE  TypeInv'
<1>1. PICK step \in {"create", "error"} :
         req' = [req EXCEPT ![r] = [@ EXCEPT !.pc = step, !.parent = e]]
  BY DEF SubmitRetry
<1> DEFINE h == [req[r] EXCEPT !.pc = step, !.parent = e]
<1>2. h \in Handlers /\ h.pc = step
  BY DEF TypeInv, TypeOK, Handlers, HandlerSteps
<1>3. req' \in [Requests -> Handlers] /\ HandlerHasRow'
  BY <1>1, <1>2, HandlerUpdate
<1> QED
  BY <1>3 DEF SubmitRetry, TypeInv, TypeOK, WorkerHasMessage, broker, store

LEMMA CreateRowType ==
   ASSUME TypeInv, NEW r \in Requests, CreateRow(r)
   PROVE  TypeInv'
<1>1. PICK e \in Exports :
         /\ row' = [row EXCEPT ![e] =
               [NoRow EXCEPT !.status = "requested", !.parent = req[r].parent,
                             !.attempt = IF req[r].parent = None THEN None
                                         ELSE row[req[r].parent].attempt]]
         /\ req' = [req EXCEPT ![r] = [@ EXCEPT !.pc = "announce", !.exp = e]]
  BY DEF CreateRow
<1> DEFINE parent == req[r].parent
           attempt == IF parent = None THEN None ELSE row[parent].attempt
           n == [NoRow EXCEPT !.status = "requested", !.parent = parent, !.attempt = attempt]
           h == [req[r] EXCEPT !.pc = "announce", !.exp = e]
<1>2. row \in [Exports -> Rows] /\ req[r] \in Handlers
  BY DEF TypeInv, TypeOK
<1>3. parent \in Exports \cup {None}
  BY <1>2 DEF Handlers
<1>4. attempt \in Exports \cup {None}
  BY <1>2, <1>3 DEF Rows
<1>5. n \in Rows
  <2> HIDE DEF parent, attempt
  <2> QED
    BY <1>3, <1>4 DEF NoRow, Rows, Statuses, Stages, Absent
<1>6. row' \in [Exports -> Rows]
  BY <1>1, <1>2, <1>5, RowUpdate
<1>7. h \in Handlers /\ h.pc = "announce" /\ h.exp \in Exports
  BY <1>2 DEF Handlers, HandlerSteps
<1>8. req' \in [Requests -> Handlers] /\ HandlerHasRow'
  BY <1>1, <1>7, HandlerUpdate
<1> QED
  BY <1>6, <1>8 DEF CreateRow, TypeInv, TypeOK, WorkerHasMessage, broker, store

LEMMA LogRequestedType ==
   ASSUME TypeInv, NEW r \in Requests, LogRequested(r)
   PROVE  TypeInv'
<1>1. req' \in [Requests -> Handlers] /\ HandlerHasRow'
  BY AdvanceType DEF LogRequested, Advance, HandlerSteps
<1>2. req[r] \in Handlers /\ req[r].exp \in Exports
  BY DEF LogRequested, Advance, TypeInv, TypeOK, HandlerHasRow
<1>3. [exp |-> req[r].exp, key |-> req[r].key] \in [exp : Exports, key : Keys \cup {None}]
  BY <1>2 DEF Handlers
<1>4. requested' \in Seq([exp : Exports, key : Keys \cup {None}])
  <2> DEFINE R == [exp : Exports, key : Keys \cup {None}]
             x == [exp |-> req[r].exp, key |-> req[r].key]
  <2>1. requested' = Append(requested, x) \/ requested' = requested
    BY DEF LogRequested
  <2>2. x \in R /\ requested \in Seq(R)
    BY <1>3 DEF TypeInv, TypeOK
  <2> HIDE DEF R, x
  <2>3. Append(requested, x) \in Seq(R)
    BY <2>2, AppendProperties
  <2>4. requested' \in Seq(R)
    BY <2>1, <2>2, <2>3
  <2> QED
    BY <2>4 DEF R
<1>5. log' \in [Exports -> SUBSET EventKinds]
  BY <1>2 DEF LogRequested, TypeInv, TypeOK, EventKinds
<1> QED
  BY <1>1, <1>4, <1>5 DEF LogRequested, TypeInv, TypeOK, WorkerHasMessage, broker, store

LEMMA PublishType ==
   ASSUME TypeInv, NEW r \in Requests, Publish(r)
   PROVE  TypeInv'
<1>1. req' \in [Requests -> Handlers] /\ HandlerHasRow'
  BY AdvanceType DEF Publish, Advance, HandlerSteps
<1>2. [exp |-> req[r].exp, tries |-> 0, copy |-> 0] \in Messages
  BY BoundsAssumption DEF Publish, Advance, TypeInv, HandlerHasRow, Messages
<1>3. queue' \in SUBSET Messages
  BY <1>2 DEF Publish, TypeInv, TypeOK
<1> QED
  BY <1>1, <1>3 DEF Publish, TypeInv, TypeOK, WorkerHasMessage, store

LEMMA PublishFailsType ==
   ASSUME TypeInv, NEW r \in Requests, PublishFails(r)
   PROVE  TypeInv'
<1>1. req' \in [Requests -> Handlers] /\ HandlerHasRow'
  BY AdvanceType DEF PublishFails, Advance, HandlerSteps
<1> QED
  BY <1>1 DEF PublishFails, TypeInv, TypeOK, WorkerHasMessage, broker, store

LEMMA MarkQueuedType ==
   ASSUME TypeInv, NEW r \in Requests, MarkQueued(r)
   PROVE  TypeInv'
<1>1. req' \in [Requests -> Handlers] /\ HandlerHasRow'
  BY AdvanceType DEF MarkQueued, Advance, HandlerSteps
<1>2. req[r].exp \in Exports /\ row \in [Exports -> Rows]
  BY DEF MarkQueued, Advance, TypeInv, TypeOK, HandlerHasRow
<1> DEFINE e == req[r].exp
           n == [row[e] EXCEPT !.status = Flushed("requested", "queued", @)]
<1>3. n \in Rows
  BY <1>2 DEF Flushed, Rows, Statuses
<1>4. row' = [row EXCEPT ![e] = n]
  BY <1>2 DEF MarkQueued
<1>5. row' \in [Exports -> Rows]
  BY <1>2, <1>3, <1>4, RowUpdate
<1> QED
  BY <1>1, <1>5 DEF MarkQueued, TypeInv, TypeOK, WorkerHasMessage, broker, store

LEMMA LogQueuedType ==
   ASSUME TypeInv, NEW r \in Requests, LogQueued(r)
   PROVE  TypeInv'
<1>1. req' \in [Requests -> Handlers] /\ HandlerHasRow'
  BY AdvanceType DEF LogQueued, Advance, HandlerSteps
<1>2. log' \in [Exports -> SUBSET EventKinds]
  BY DEF LogQueued, TypeInv, TypeOK, EventKinds
<1> QED
  BY <1>1, <1>2 DEF LogQueued, TypeInv, TypeOK, WorkerHasMessage, broker, store

LEMMA HandlerDiesType ==
   ASSUME TypeInv, NEW r \in Requests, HandlerDies(r)
   PROVE  TypeInv'
<1>1. req' \in [Requests -> Handlers] /\ HandlerHasRow'
  BY AdvanceType DEF HandlerDies, HandlerSteps
<1>2. crashes' \in 0..MaxCrashes
  BY BoundsAssumption DEF HandlerDies, TypeInv, TypeOK
<1> QED
  BY <1>1, <1>2 DEF HandlerDies, TypeInv, TypeOK, WorkerHasMessage, store
-----------------------------------------------------------------------------
(* The workers' steps. *)

LEMMA TakeType ==
   ASSUME TypeInv, NEW w \in Workers, Take(w)
   PROVE  TypeInv'
<1>1. PICK m \in queue :
         /\ queue' = queue \ {m}
         /\ wk' = [wk EXCEPT ![w] = [IdleWorker EXCEPT !.pc = "load", !.msg = m,
                                                       !.held = TRUE]]
  BY DEF Take
<1> DEFINE s == [IdleWorker EXCEPT !.pc = "load", !.msg = m, !.held = TRUE]
<1>2. m \in Messages
  BY DEF TypeInv, TypeOK
<1>3. s \in WorkerStates /\ s.msg \in Messages
  BY <1>2 DEF IdleWorker, WorkerStates, WorkerSteps, Expired
<1>4. wk' \in [Workers -> WorkerStates] /\ WorkerHasMessage'
  BY <1>1, <1>3, WorkerUpdate
<1>5. queue' \in SUBSET Messages
  BY <1>1 DEF TypeInv, TypeOK
<1> QED
  BY <1>4, <1>5 DEF Take, TypeInv, TypeOK, HandlerHasRow, api, broker, store

LEMMA LoadType ==
   ASSUME TypeInv, NEW w \in Workers, Load(w)
   PROVE  TypeInv'
<1>1. wk' \in [Workers -> WorkerStates] /\ WorkerHasMessage'
  <2>1. CASE GoTo(w, "finish")
    BY <2>1, GoToType DEF Load, At, WorkerSteps
  <2>2. CASE wk' = [wk EXCEPT ![w].pc = "begin", ![w].seen = row[Exp(w)].status]
    <3> DEFINE status == row[Exp(w)].status
               s == [wk[w] EXCEPT !.pc = "begin", !.seen = status]
    <3>1. status \in Statuses \cup {Absent}
      BY BusyExp DEF Load, At, TypeInv, TypeOK, Rows
    <3> HIDE DEF status
    <3>2. s \in WorkerStates /\ s.msg \in Messages
      BY <3>1, BusyExp DEF Load, At, WorkerStates, WorkerSteps, BuildSteps
    <3>3. wk' = [wk EXCEPT ![w] = s]
      BY <2>2 DEF status, TypeInv, TypeOK, WorkerStates
    <3> QED
      BY <3>2, <3>3, WorkerUpdate
  <2> QED
    BY <2>1, <2>2 DEF Load
<1> QED
  BY <1>1 DEF Load, TypeInv, TypeOK, HandlerHasRow, api, broker, store

LEMMA BeginType ==
   ASSUME TypeInv, NEW w \in Workers, Begin(w)
   PROVE  TypeInv'
<1>1. wk' \in [Workers -> WorkerStates] /\ WorkerHasMessage'
  BY GoToType DEF Begin, At, WorkerSteps, BuildSteps
<1>2. Exp(w) \in Exports /\ row \in [Exports -> Rows] /\ wk[w] \in WorkerStates
  BY BusyExp DEF Begin, At, TypeInv, TypeOK
<1> DEFINE e == Exp(w)
           status == Written(w, "processing")
           n == [row[e] EXCEPT !.status = status, !.stage = "gathering_incident_data",
                             !.attempt = e]
<1>3. status \in Statuses \cup {Absent} /\ wk[w].build \in Nat
  BY <1>2 DEF Written, Flushed, Rows, Statuses, WorkerStates
<1>4. row' = [row EXCEPT ![e] = n]
  BY DEF Begin
<1>5. n \in Rows
  <2> HIDE DEF e, status
  <2> QED
    BY <1>2, <1>3 DEF Rows, Stages, e
<1>6. row' \in [Exports -> Rows]
  <2> HIDE DEF n
  <2> QED
    BY <1>2, <1>4, <1>5, RowUpdate
<1> QED
  BY <1>1, <1>6 DEF Begin, TypeInv, TypeOK, HandlerHasRow, api, broker, store

LEMMA AnnounceType ==
   ASSUME TypeInv, NEW w \in Workers, Announce(w)
   PROVE  TypeInv'
<1>1. wk' \in [Workers -> WorkerStates] /\ WorkerHasMessage'
  BY GoToType DEF Announce, At, WorkerSteps, BuildSteps
<1>2. log' \in [Exports -> SUBSET EventKinds]
  BY DEF Announce, TypeInv, TypeOK, EventKinds
<1> QED
  BY <1>1, <1>2 DEF Announce, TypeInv, TypeOK, HandlerHasRow, api, broker, store

LEMMA GatherType ==
   ASSUME TypeInv, NEW w \in Workers, Gather(w)
   PROVE  TypeInv'
<1>1. wk' \in [Workers -> WorkerStates] /\ WorkerHasMessage'
  BY GoToType DEF Gather, At, WorkerSteps, BuildSteps
<1>2. row' \in [Exports -> Rows]
  BY StageRow DEF Gather, At, Stages
<1> QED
  BY <1>1, <1>2 DEF Gather, TypeInv, TypeOK, HandlerHasRow, api, broker, store

LEMMA PackageType ==
   ASSUME TypeInv, NEW w \in Workers, Package(w)
   PROVE  TypeInv'
<1>1. wk' \in [Workers -> WorkerStates] /\ WorkerHasMessage'
  BY GoToType DEF Package, At, WorkerSteps, BuildSteps
<1>2. row' \in [Exports -> Rows]
  BY StageRow DEF Package, At, Stages
<1> QED
  BY <1>1, <1>2 DEF Package, TypeInv, TypeOK, HandlerHasRow, api, broker, store

LEMMA AssembleType ==
   ASSUME TypeInv, NEW w \in Workers, Assemble(w)
   PROVE  TypeInv'
<1> DEFINE n == builds[Exp(w)] + 1
<1>1. n \in Nat /\ builds \in [Exports -> Nat]
  BY BusyExp DEF Assemble, At, TypeInv, TypeOK
<1>2. builds' = [builds EXCEPT ![Exp(w)] = n]
  BY DEF Assemble
<1>3. builds' \in [Exports -> Nat]
  <2> HIDE DEF n
  <2> QED
    BY <1>1, <1>2
<1>4. wk' \in [Workers -> WorkerStates] /\ WorkerHasMessage'
  <2> DEFINE s == [wk[w] EXCEPT !.pc = "package", !.seen = Expired, !.build = n]
  <2>1. wk' = [wk EXCEPT ![w] = s]
    BY DEF Assemble, TypeInv, TypeOK, WorkerStates
  <2> HIDE DEF n
  <2>2. s \in WorkerStates /\ s.msg \in Messages
    BY <1>1, BusyExp DEF Assemble, At, WorkerStates, WorkerSteps, BuildSteps
  <2> QED
    BY <2>1, <2>2, WorkerUpdate
<1>5. row' \in [Exports -> Rows]
  BY StageRow DEF Assemble, At, Stages
<1> QED
  BY <1>3, <1>4, <1>5 DEF Assemble, TypeInv, TypeOK, HandlerHasRow, api, broker, store

LEMMA OpenUploadType ==
   ASSUME TypeInv, NEW w \in Workers, OpenUpload(w)
   PROVE  TypeInv'
<1>1. wk' \in [Workers -> WorkerStates] /\ WorkerHasMessage'
  <2> DEFINE s == [wk[w] EXCEPT !.pc = "put", !.seen = "processing"]
  <2>1. wk' = [wk EXCEPT ![w] = s]
    BY DEF OpenUpload, At, TypeInv, TypeOK, WorkerStates
  <2>2. s \in WorkerStates /\ s.msg \in Messages
    BY BusyExp DEF OpenUpload, At, WorkerStates, WorkerSteps, BuildSteps, Statuses
  <2> QED
    BY <2>1, <2>2, WorkerUpdate
<1>2. row' \in [Exports -> Rows]
  BY StageRow DEF OpenUpload, At, Stages
<1> QED
  BY <1>1, <1>2 DEF OpenUpload, TypeInv, TypeOK, HandlerHasRow, api, broker, store

LEMMA PutType ==
   ASSUME TypeInv, NEW w \in Workers, Put(w)
   PROVE  TypeInv'
<1>1. wk' \in [Workers -> WorkerStates] /\ WorkerHasMessage'
  <2> DEFINE s == [wk[w] EXCEPT !.pc = "finalize"]
  <2>1. wk' = [wk EXCEPT ![w] = s]
    BY DEF Put, At, TypeInv, TypeOK, WorkerStates
  <2>2. s \in WorkerStates /\ s.msg \in Messages
    BY BusyExp DEF Put, At, WorkerStates, WorkerSteps, BuildSteps
  <2> QED
    BY <2>1, <2>2, WorkerUpdate
<1>2. vault' \in [Exports -> Nat]
  BY BusyExp DEF Put, At, TypeInv, TypeOK, WorkerStates
<1> QED
  BY <1>1, <1>2 DEF Put, TypeInv, TypeOK, HandlerHasRow, api, broker, store

LEMMA FinalizeType ==
   ASSUME TypeInv, NEW w \in Workers, Finalize(w)
   PROVE  TypeInv'
<1>1. wk' \in [Workers -> WorkerStates] /\ WorkerHasMessage'
  BY GoToType DEF Finalize, At, WorkerSteps, BuildSteps
<1>2. Exp(w) \in Exports /\ row \in [Exports -> Rows] /\ wk[w] \in WorkerStates
  BY BusyExp DEF Finalize, At, TypeInv, TypeOK
<1> DEFINE e == Exp(w)
           status == Written(w, "ready")
           n == [row[e] EXCEPT !.status = status, !.stage = "ready_for_download",
                             !.s3_key = TRUE, !.sha = wk[w].build]
<1>3. status \in Statuses \cup {Absent} /\ wk[w].build \in Nat
  BY <1>2 DEF Written, Flushed, Rows, Statuses, WorkerStates
<1>4. row' = [row EXCEPT ![e] = n]
  BY DEF Finalize
<1>5. n \in Rows
  <2> HIDE DEF e, status
  <2> QED
    BY <1>2, <1>3 DEF Rows, Stages, e
<1>6. row' \in [Exports -> Rows]
  <2> HIDE DEF n
  <2> QED
    BY <1>2, <1>4, <1>5, RowUpdate
<1> QED
  BY <1>1, <1>6 DEF Finalize, TypeInv, TypeOK, HandlerHasRow, api, broker, store

LEMMA StampType ==
   ASSUME TypeInv, NEW w \in Workers, Stamp(w)
   PROVE  TypeInv'
<1>1. wk' \in [Workers -> WorkerStates] /\ WorkerHasMessage'
  BY GoToType DEF Stamp, At, WorkerSteps, BuildSteps
<1>2. Exp(w) \in Exports /\ row \in [Exports -> Rows] /\ wk[w] \in WorkerStates
  BY BusyExp DEF Stamp, At, TypeInv, TypeOK
<1> DEFINE n == [row[Exp(w)] EXCEPT !.sha = wk[w].build]
<1>3. n \in Rows
  BY <1>2 DEF WorkerStates, Rows
<1>4. row' = [row EXCEPT ![Exp(w)] = n]
  BY DEF Stamp
<1>5. row' \in [Exports -> Rows]
  BY <1>2, <1>3, <1>4, RowUpdate
<1> QED
  BY <1>1, <1>5 DEF Stamp, TypeInv, TypeOK, HandlerHasRow, api, broker, store

LEMMA SyncCaseStatusType ==
   ASSUME TypeInv, NEW w \in Workers, SyncCaseStatus(w)
   PROVE  TypeInv'
<1>1. wk' \in [Workers -> WorkerStates] /\ WorkerHasMessage'
  BY GoToType DEF SyncCaseStatus, At, WorkerSteps, BuildSteps
<1> QED
  BY <1>1 DEF SyncCaseStatus, TypeInv, TypeOK, HandlerHasRow, api, broker, store

LEMMA LogUploadedType ==
   ASSUME TypeInv, NEW w \in Workers, LogUploaded(w)
   PROVE  TypeInv'
<1>1. wk' \in [Workers -> WorkerStates] /\ WorkerHasMessage'
  BY GoToType DEF LogUploaded, At, WorkerSteps, BuildSteps
<1>2. log' \in [Exports -> SUBSET EventKinds]
  BY DEF LogUploaded, TypeInv, TypeOK, EventKinds
<1> QED
  BY <1>1, <1>2 DEF LogUploaded, TypeInv, TypeOK, HandlerHasRow, api, broker, store

LEMMA LogFailedType ==
   ASSUME TypeInv, NEW w \in Workers, LogFailed(w)
   PROVE  TypeInv'
<1>1. wk' \in [Workers -> WorkerStates] /\ WorkerHasMessage'
  BY GoToType DEF LogFailed, At, WorkerSteps, BuildSteps
<1>2. log' \in [Exports -> SUBSET EventKinds]
  BY DEF LogFailed, TypeInv, TypeOK, EventKinds
<1> QED
  BY <1>1, <1>2 DEF LogFailed, TypeInv, TypeOK, HandlerHasRow, api, broker, store

LEMMA CheckGeneratedType ==
   ASSUME TypeInv, NEW w \in Workers, CheckGenerated(w)
   PROVE  TypeInv'
<1>1. wk' \in [Workers -> WorkerStates] /\ WorkerHasMessage'
  BY GoToType DEF CheckGenerated, At, WorkerSteps, BuildSteps
<1> QED
  BY <1>1 DEF CheckGenerated, TypeInv, TypeOK, HandlerHasRow, api, broker, store

LEMMA LogGeneratedType ==
   ASSUME TypeInv, NEW w \in Workers, LogGenerated(w)
   PROVE  TypeInv'
<1>1. wk' \in [Workers -> WorkerStates] /\ WorkerHasMessage'
  BY GoToType DEF LogGenerated, At, WorkerSteps, BuildSteps
<1>2. Exp(w) \in Exports /\ wk[w].build \in Nat /\ generated[Exp(w)] \in Seq(Nat)
  BY BusyExp DEF LogGenerated, At, TypeInv, TypeOK, WorkerStates
<1>3. Append(generated[Exp(w)], wk[w].build) \in Seq(Nat)
  BY <1>2, AppendProperties
<1>4. generated' \in [Exports -> Seq(Nat)]
  BY <1>3 DEF LogGenerated, TypeInv, TypeOK
<1> QED
  BY <1>1, <1>4 DEF LogGenerated, TypeInv, TypeOK, HandlerHasRow, api, broker, store

LEMMA FinishType ==
   ASSUME TypeInv, NEW w \in Workers, Finish(w)
   PROVE  TypeInv'
<1>1. wk' \in [Workers -> WorkerStates] /\ WorkerHasMessage'
  BY IdleType DEF Finish
<1> QED
  BY <1>1 DEF Finish, TypeInv, TypeOK, HandlerHasRow, api, broker, store

\* Every failure in the build leads to the exception handler.
LEMMA RaiseType ==
   ASSUME TypeInv, NEW w \in Workers, wk[w].pc # "idle", Raise(w)
   PROVE  TypeInv'
<1> DEFINE s == [wk[w] EXCEPT !.pc = "mark_failed", !.seen = SeenOnRaise(w)]
<1>1. SeenOnRaise(w) \in Statuses \cup {Absent, Expired}
  BY BusyExp DEF SeenOnRaise, Seen, Exp, Messages, Rows, WorkerStates, TypeInv, TypeOK
<1>2. s \in WorkerStates /\ s.msg \in Messages
  BY <1>1, BusyExp DEF WorkerStates, WorkerSteps
<1>3. wk' = [wk EXCEPT ![w] = s]
  BY DEF Raise, TypeInv, TypeOK, WorkerStates
<1>4. wk' \in [Workers -> WorkerStates] /\ WorkerHasMessage'
  BY <1>2, <1>3, WorkerUpdate
<1> QED
  BY <1>4 DEF Raise, TypeInv, TypeOK, HandlerHasRow, api, broker, store

LEMMA MarkFailedType ==
   ASSUME TypeInv, NEW w \in Workers, MarkFailed(w)
   PROVE  TypeInv'
<1>1. wk' \in [Workers -> WorkerStates] /\ WorkerHasMessage'
  BY GoToType DEF MarkFailed, At, WorkerSteps
<1>2. Exp(w) \in Exports /\ row \in [Exports -> Rows] /\ wk[w] \in WorkerStates
  BY BusyExp DEF MarkFailed, At, TypeInv, TypeOK
<1> DEFINE e == Exp(w)
           status == Written(w, "failed")
           n == [row[e] EXCEPT !.status = status]
<1>3. status \in Statuses \cup {Absent}
  BY <1>2 DEF Written, Flushed, Rows, Statuses
<1>4. UNCHANGED row \/ row' = [row EXCEPT ![e] = n]
  BY <1>2 DEF MarkFailed
<1>5. n \in Rows
  <2> HIDE DEF e, status
  <2> QED
    BY <1>2, <1>3 DEF Rows, e
<1>6. row' \in [Exports -> Rows]
  <2> HIDE DEF n
  <2> QED
    BY <1>2, <1>4, <1>5, RowUpdate
<1> QED
  BY <1>1, <1>6 DEF MarkFailed, TypeInv, TypeOK, HandlerHasRow, api, broker, store

LEMMA HandlerRaisesType ==
   ASSUME TypeInv, NEW w \in Workers, HandlerRaises(w)
   PROVE  TypeInv'
<1>1. wk' \in [Workers -> WorkerStates] /\ WorkerHasMessage'
  BY GoToType DEF HandlerRaises, At, WorkerSteps, BuildSteps
<1>2. outages' \in 0..MaxOutages
  BY BoundsAssumption DEF HandlerRaises, TypeInv, TypeOK
<1> QED
  BY <1>1, <1>2 DEF HandlerRaises, TypeInv, TypeOK, HandlerHasRow, api, broker, store

LEMMA AutoRetryType ==
   ASSUME TypeInv, NEW w \in Workers, AutoRetry(w)
   PROVE  TypeInv'
<1>1. wk' \in [Workers -> WorkerStates] /\ WorkerHasMessage'
  BY IdleType DEF AutoRetry
<1>2. wk[w].msg \in Messages /\ Exp(w) \in Exports
  BY BusyExp DEF AutoRetry, At
<1>3. wk[w].msg.tries < MaxRetries => [wk[w].msg EXCEPT !.tries = @ + 1] \in Messages
  BY <1>2, BoundsAssumption DEF Messages
<1>4. queue' \in SUBSET Messages /\ deadLetters' \in SUBSET Exports
  BY <1>2, <1>3 DEF AutoRetry, TypeInv, TypeOK
<1> QED
  BY <1>1, <1>4 DEF AutoRetry, TypeInv, TypeOK, HandlerHasRow, api, broker, store

LEMMA CrashType ==
   ASSUME TypeInv, NEW w \in Workers, Crash(w)
   PROVE  TypeInv'
<1>1. wk' \in [Workers -> WorkerStates] /\ WorkerHasMessage'
  BY IdleType DEF Crash
<1>2. queue' \in SUBSET Messages
  BY BusyExp DEF Crash, At, TypeInv, TypeOK
<1>3. crashes' \in 0..MaxCrashes
  BY BoundsAssumption DEF Crash, TypeInv, TypeOK
<1> QED
  BY <1>1, <1>2, <1>3 DEF Crash, TypeInv, TypeOK, HandlerHasRow, api, broker, store

LEMMA RedeliverType ==
   ASSUME TypeInv, NEW w \in Workers, Redeliver(w)
   PROVE  TypeInv'
<1>1. wk' \in [Workers -> WorkerStates] /\ WorkerHasMessage'
  <2> DEFINE s == [wk[w] EXCEPT !.held = FALSE]
  <2>1. wk' = [wk EXCEPT ![w] = s]
    BY DEF Redeliver, TypeInv, TypeOK, WorkerStates
  <2>2. s \in WorkerStates /\ s.msg \in Messages
    BY BusyExp DEF Redeliver, At, WorkerStates
  <2> QED
    BY <2>1, <2>2, WorkerUpdate
<1>2. copies + 1 \in 0..MaxCopies
  BY BoundsAssumption DEF Redeliver, TypeInv, TypeOK
<1>3. [wk[w].msg EXCEPT !.copy = copies + 1] \in Messages
  BY <1>2, BusyExp DEF Redeliver, At, Messages
<1>4. queue' \in SUBSET Messages /\ copies' \in 0..MaxCopies
  BY <1>2, <1>3 DEF Redeliver, TypeInv, TypeOK
<1> QED
  BY <1>1, <1>4 DEF Redeliver, TypeInv, TypeOK, HandlerHasRow, api, broker, store

LEMMA RequeueType ==
   ASSUME TypeInv, NEW e \in Exports, Requeue(e)
   PROVE  TypeInv'
<1>1. [exp |-> e, tries |-> 0, copy |-> 0] \in Messages
  BY BoundsAssumption DEF Messages
<1>2. queue' \in SUBSET Messages /\ deadLetters' \in SUBSET Exports
  BY <1>1 DEF Requeue, TypeInv, TypeOK
<1>3. requeues' \in 0..MaxRequeues
  BY BoundsAssumption DEF Requeue, TypeInv, TypeOK
<1> QED
  BY <1>2, <1>3 DEF Requeue, TypeInv, TypeOK, HandlerHasRow, WorkerHasMessage, api, store

-----------------------------------------------------------------------------
LEMMA TypeInit == Init => TypeInv
BY BoundsAssumption, NoneAssumption
DEF Init, TypeInv, TypeOK, HandlerHasRow, WorkerHasMessage, NoRow, Rows, Absent,
    Statuses, Stages, IdleHandler, Handlers, HandlerSteps, IdleWorker, WorkerStates,
    WorkerSteps, BuildSteps, Expired, EventKinds

LEMMA TypeStep == TypeInv /\ [Next]_vars => TypeInv'
<1> SUFFICES ASSUME TypeInv, [Next]_vars PROVE TypeInv'
  OBVIOUS
<1>1. ASSUME NEW r \in Requests, NEW k \in Keys \cup {None}, Submit(r, k) PROVE TypeInv'
  BY <1>1, SubmitType
<1>2. ASSUME NEW r \in Requests, NEW e \in Exports, SubmitRetry(r, e) PROVE TypeInv'
  BY <1>2, SubmitRetryType
<1>3. ASSUME NEW r \in Requests, HandlerStep(r) PROVE TypeInv'
  BY <1>3, CreateRowType, LogRequestedType, PublishType, PublishFailsType,
     MarkQueuedType, LogQueuedType DEF HandlerStep
<1>4. ASSUME NEW r \in Requests, HandlerDies(r) PROVE TypeInv'
  BY <1>4, HandlerDiesType
<1>5. ASSUME NEW w \in Workers, Refused(w) \/ BuildFails(w) PROVE TypeInv'
  BY <1>5, RaiseType DEF Refused, BuildFails, At, BuildSteps, StageSteps
<1>6. ASSUME NEW w \in Workers, WorkerStep(w) PROVE TypeInv'
  BY <1>5, <1>6, TakeType, LoadType, BeginType, AnnounceType, GatherType, AssembleType,
     PackageType, OpenUploadType, PutType, FinalizeType, StampType, SyncCaseStatusType,
     LogUploadedType, CheckGeneratedType, LogGeneratedType, FinishType,
     MarkFailedType, LogFailedType, AutoRetryType DEF WorkerStep
<1>7. ASSUME NEW w \in Workers, HandlerRaises(w) \/ Crash(w) \/ Redeliver(w) PROVE TypeInv'
  BY <1>7, HandlerRaisesType, CrashType, RedeliverType
<1>8. ASSUME NEW e \in Exports, Requeue(e) PROVE TypeInv'
  BY <1>8, RequeueType
<1>9. CASE UNCHANGED vars
  BY <1>9 DEF vars, TypeInv, TypeOK, HandlerHasRow, WorkerHasMessage
<1> QED
  BY <1>1, <1>2, <1>3, <1>4, <1>5, <1>6, <1>7, <1>8, <1>9 DEF Next

LEMMA AlwaysTypeInv == Spec => []TypeInv
BY TypeInit, TypeStep, PTL DEF Spec

\* Every variable keeps its type, whatever the handlers, the workers, the
\* broker and the operators do and however they interleave.
THEOREM TypeCorrect == Spec => []TypeOK
<1>1. TypeInv => TypeOK
  BY DEF TypeInv
<1> QED
  BY <1>1, AlwaysTypeInv, PTL
-----------------------------------------------------------------------------
(* What each step leaves where, field by field: the proofs below read these *)
(* facts instead of the updates.                                            *)

\* Worker w goes to a step with the message and the package it has.
Moves(w, step) ==
   /\ wk'[w].pc = step
   /\ wk'[w].msg = wk[w].msg
   /\ wk'[w].build = wk[w].build
   /\ wk'[w].held = wk[w].held
   /\ \A v \in Workers \ {w} : wk'[v] = wk[v]

Rests(w) == /\ wk'[w] = IdleWorker
            /\ \A v \in Workers \ {w} : wk'[v] = wk[v]

\* Only the row of e changes; a status is all that changes in it.
OtherRowsStay(e) == \A f \in Exports \ {e} : row'[f] = row[f]
SameButStatus(e) == /\ row'[e].attempt = row[e].attempt
                    /\ row'[e].parent = row[e].parent
                    /\ row'[e].s3_key = row[e].s3_key
                    /\ row'[e].sha = row[e].sha

LEMMA GoToEffect ==
   ASSUME TypeInv, NEW w \in Workers, NEW step, GoTo(w, step)
   PROVE  Moves(w, step) /\ wk'[w].seen = Expired
<1>1. wk' = [wk EXCEPT ![w] = [wk[w] EXCEPT !.pc = step, !.seen = Expired]]
  BY DEF GoTo, TypeInv, TypeOK, WorkerStates
<1>2. wk[w] \in WorkerStates /\ wk \in [Workers -> WorkerStates]
  BY DEF TypeInv, TypeOK
<1> QED
  BY <1>1, <1>2 DEF Moves, WorkerStates

LEMMA StageEffect ==
   ASSUME TypeInv, NEW w \in Workers, NEW s \in Stages, wk[w].pc # "idle",
          SetProgressStage(w, s)
   PROVE  /\ OtherRowsStay(Exp(w)) /\ SameButStatus(Exp(w))
          /\ row'[Exp(w)].status = "processing" /\ row'[Exp(w)].stage = s
<1> DEFINE e == Exp(w)
<1>1. row' = [row EXCEPT ![e] = [row[e] EXCEPT !.status = "processing", !.stage = s]]
  BY StageRow
<1>2. e \in Exports /\ row \in [Exports -> Rows] /\ row[e] \in Rows
  BY BusyExp DEF TypeInv, TypeOK
<1> HIDE DEF e
<1>3. /\ OtherRowsStay(e) /\ SameButStatus(e)
      /\ row'[e].status = "processing" /\ row'[e].stage = s
  BY <1>1, <1>2 DEF OtherRowsStay, SameButStatus, Rows
<1> QED
  BY <1>3 DEF e

LEMMA GatherEffect ==
   ASSUME TypeInv, NEW w \in Workers, Gather(w)
   PROVE  /\ Moves(w, "assemble")
          /\ OtherRowsStay(Exp(w)) /\ SameButStatus(Exp(w))
          /\ row'[Exp(w)].status = "processing"
BY GoToEffect, StageEffect DEF Gather, At, Stages

LEMMA PackageEffect ==
   ASSUME TypeInv, NEW w \in Workers, Package(w)
   PROVE  /\ Moves(w, "open_upload")
          /\ OtherRowsStay(Exp(w)) /\ SameButStatus(Exp(w))
          /\ row'[Exp(w)].status = "processing"
BY GoToEffect, StageEffect DEF Package, At, Stages

LEMMA AssembleEffect ==
   ASSUME TypeInv, NEW w \in Workers, Assemble(w)
   PROVE  /\ wk'[w].pc = "package" /\ wk'[w].msg = wk[w].msg /\ wk'[w].held = wk[w].held
          /\ wk'[w].build = builds[Exp(w)] + 1
          /\ \A v \in Workers \ {w} : wk'[v] = wk[v]
          /\ builds' = [builds EXCEPT ![Exp(w)] = @ + 1]
          /\ OtherRowsStay(Exp(w)) /\ SameButStatus(Exp(w))
          /\ row'[Exp(w)].status = "processing"
<1>1. wk' = [wk EXCEPT ![w] = [wk[w] EXCEPT !.pc = "package", !.seen = Expired,
                                             !.build = builds[Exp(w)] + 1]]
  BY DEF Assemble, TypeInv, TypeOK, WorkerStates
<1>2. wk[w] \in WorkerStates /\ wk \in [Workers -> WorkerStates]
  BY DEF TypeInv, TypeOK
<1>3. /\ wk'[w].pc = "package" /\ wk'[w].msg = wk[w].msg /\ wk'[w].held = wk[w].held
      /\ wk'[w].build = builds[Exp(w)] + 1
      /\ \A v \in Workers \ {w} : wk'[v] = wk[v]
  BY <1>1, <1>2 DEF WorkerStates
<1>4. /\ OtherRowsStay(Exp(w)) /\ SameButStatus(Exp(w))
      /\ row'[Exp(w)].status = "processing"
  BY StageEffect DEF Assemble, At, Stages
<1>5. builds' = [builds EXCEPT ![Exp(w)] = @ + 1]
  BY DEF Assemble
<1> QED
  BY <1>3, <1>4, <1>5

LEMMA OpenUploadEffect ==
   ASSUME TypeInv, NEW w \in Workers, OpenUpload(w)
   PROVE  /\ Moves(w, "put") /\ wk'[w].seen = "processing"
          /\ OtherRowsStay(Exp(w)) /\ SameButStatus(Exp(w))
          /\ row'[Exp(w)].status = "processing"
<1>1. wk' = [wk EXCEPT ![w] = [wk[w] EXCEPT !.pc = "put", !.seen = "processing"]]
  BY DEF OpenUpload, TypeInv, TypeOK, WorkerStates
<1>2. wk[w] \in WorkerStates /\ wk \in [Workers -> WorkerStates]
  BY DEF TypeInv, TypeOK
<1>3. Moves(w, "put") /\ wk'[w].seen = "processing"
  BY <1>1, <1>2 DEF Moves, WorkerStates
<1> QED
  BY <1>3, StageEffect DEF OpenUpload, At, Stages

LEMMA PutEffect ==
   ASSUME TypeInv, NEW w \in Workers, Put(w)
   PROVE  /\ Moves(w, "finalize") /\ wk'[w].seen = wk[w].seen
          /\ vault' = [vault EXCEPT ![Exp(w)] = wk[w].build]
<1>1. wk' = [wk EXCEPT ![w] = [wk[w] EXCEPT !.pc = "finalize"]]
  BY DEF Put, TypeInv, TypeOK, WorkerStates
<1>2. wk[w] \in WorkerStates /\ wk \in [Workers -> WorkerStates]
  BY DEF TypeInv, TypeOK
<1> QED
  BY <1>1, <1>2 DEF Put, Moves, WorkerStates

LEMMA BeginEffect ==
   ASSUME TypeInv, NEW w \in Workers, Begin(w)
   PROVE  /\ Moves(w, "announce")
          /\ OtherRowsStay(Exp(w))
          /\ row'[Exp(w)].status = Written(w, "processing")
          /\ row'[Exp(w)].attempt = Exp(w)
          /\ row'[Exp(w)].parent = row[Exp(w)].parent
          /\ row'[Exp(w)].s3_key = row[Exp(w)].s3_key
          /\ row'[Exp(w)].sha = row[Exp(w)].sha
<1> DEFINE e == Exp(w)
           status == Written(w, "processing")
           n == [row[e] EXCEPT !.status = status, !.stage = "gathering_incident_data",
                             !.attempt = e]
<1>1. row' = [row EXCEPT ![e] = n]
  BY DEF Begin
<1>2. e \in Exports /\ row \in [Exports -> Rows] /\ row[e] \in Rows
  BY BusyExp DEF Begin, At, TypeInv, TypeOK
<1> HIDE DEF e, status
<1>3. /\ OtherRowsStay(e)
      /\ row'[e].status = status
      /\ row'[e].attempt = e /\ row'[e].parent = row[e].parent
      /\ row'[e].s3_key = row[e].s3_key /\ row'[e].sha = row[e].sha
  BY <1>1, <1>2 DEF OtherRowsStay, Rows, e
<1> QED
  BY <1>3, GoToEffect DEF Begin, e, status

LEMMA FinalizeEffect ==
   ASSUME TypeInv, NEW w \in Workers, Finalize(w)
   PROVE  /\ Moves(w, "stamp")
          /\ OtherRowsStay(Exp(w))
          /\ row'[Exp(w)].status = Written(w, "ready")
          /\ row'[Exp(w)].attempt = row[Exp(w)].attempt
          /\ row'[Exp(w)].parent = row[Exp(w)].parent
          /\ row'[Exp(w)].s3_key
          /\ row'[Exp(w)].sha = wk[w].build
          /\ row'[Exp(w)].stage = "ready_for_download"
<1> DEFINE e == Exp(w)
           status == Written(w, "ready")
           n == [row[e] EXCEPT !.status = status, !.stage = "ready_for_download",
                             !.s3_key = TRUE, !.sha = wk[w].build]
<1>1. row' = [row EXCEPT ![e] = n]
  BY DEF Finalize
<1>2. e \in Exports /\ row \in [Exports -> Rows] /\ row[e] \in Rows
  BY BusyExp DEF Finalize, At, TypeInv, TypeOK
<1> HIDE DEF e, status
<1>3. /\ OtherRowsStay(e)
      /\ row'[e].status = status
      /\ row'[e].attempt = row[e].attempt /\ row'[e].parent = row[e].parent
      /\ row'[e].s3_key /\ row'[e].sha = wk[w].build
      /\ row'[e].stage = "ready_for_download"
  BY <1>1, <1>2 DEF OtherRowsStay, Rows, e
<1> QED
  BY <1>3, GoToEffect DEF Finalize, e, status

LEMMA StampEffect ==
   ASSUME TypeInv, NEW w \in Workers, Stamp(w)
   PROVE  /\ Moves(w, "sync")
          /\ OtherRowsStay(Exp(w))
          /\ row'[Exp(w)] = [row[Exp(w)] EXCEPT !.sha = wk[w].build]
<1>1. row' = [row EXCEPT ![Exp(w)] = [row[Exp(w)] EXCEPT !.sha = wk[w].build]]
  BY DEF Stamp
<1>2. Exp(w) \in Exports /\ row \in [Exports -> Rows]
  BY BusyExp DEF Stamp, At, TypeInv, TypeOK
<1> QED
  BY <1>1, <1>2, GoToEffect DEF Stamp, OtherRowsStay

LEMMA MarkFailedEffect ==
   ASSUME TypeInv, NEW w \in Workers, MarkFailed(w)
   PROVE  \/ /\ Moves(w, "log_failed")
             /\ OtherRowsStay(Exp(w)) /\ SameButStatus(Exp(w))
             /\ row'[Exp(w)].status = Written(w, "failed")
          \/ Moves(w, "retry") /\ UNCHANGED row
<1>1. CASE GoTo(w, "retry") /\ UNCHANGED row
  BY <1>1, GoToEffect
<1>2. CASE /\ row' = [row EXCEPT ![Exp(w)].status = Written(w, "failed")]
           /\ GoTo(w, "log_failed")
  <2> DEFINE e == Exp(w)
             status == Written(w, "failed")
  <2>1. e \in Exports /\ row \in [Exports -> Rows] /\ row[e] \in Rows
    BY BusyExp DEF MarkFailed, At, TypeInv, TypeOK
  <2>2. row' = [row EXCEPT ![e].status = status]
    BY <1>2
  <2> HIDE DEF e, status
  <2>3. /\ OtherRowsStay(e) /\ SameButStatus(e)
        /\ row'[e].status = status
    BY <2>1, <2>2 DEF OtherRowsStay, SameButStatus, Rows
  <2> QED
    BY <1>2, <2>3, GoToEffect DEF e, status
<1> QED
  BY <1>1, <1>2 DEF MarkFailed

LEMMA LoadEffect ==
   ASSUME TypeInv, NEW w \in Workers, Load(w)
   PROVE  \/ Moves(w, "finish") /\ DuplicateWork(Exp(w))
          \/ Moves(w, "begin") /\ wk'[w].seen = row[Exp(w)].status /\ ~DuplicateWork(Exp(w))
<1>1. CASE DuplicateWork(Exp(w))
  BY <1>1, GoToEffect DEF Load
<1>2. CASE ~DuplicateWork(Exp(w))
  <2> DEFINE status == row[Exp(w)].status
  <2>1. wk' = [wk EXCEPT ![w] = [wk[w] EXCEPT !.pc = "begin", !.seen = status]]
    BY <1>2 DEF Load, TypeInv, TypeOK, WorkerStates
  <2>2. wk[w] \in WorkerStates /\ wk \in [Workers -> WorkerStates]
    BY DEF TypeInv, TypeOK
  <2> HIDE DEF status
  <2>3. Moves(w, "begin") /\ wk'[w].seen = status
    BY <2>1, <2>2 DEF Moves, WorkerStates
  <2> QED
    BY <1>2, <2>3 DEF status
<1> QED
  BY <1>1, <1>2

LEMMA TakeEffect ==
   ASSUME TypeInv, NEW w \in Workers, Take(w)
   PROVE  \E m \in queue :
             /\ queue' = queue \ {m}
             /\ wk'[w].pc = "load" /\ wk'[w].msg = m /\ wk'[w].held
             /\ \A v \in Workers \ {w} : wk'[v] = wk[v]
<1>1. wk \in [Workers -> WorkerStates]
  BY DEF TypeInv, TypeOK
<1> QED
  BY <1>1 DEF Take, IdleWorker

LEMMA RaiseEffect ==
   ASSUME TypeInv, NEW w \in Workers, Raise(w)
   PROVE  /\ Moves(w, "mark_failed")
          /\ wk'[w].seen = SeenOnRaise(w)
<1> DEFINE seen == SeenOnRaise(w)
<1>1. wk' = [wk EXCEPT ![w] = [wk[w] EXCEPT !.pc = "mark_failed", !.seen = seen]]
  BY DEF Raise, TypeInv, TypeOK, WorkerStates
<1>2. wk[w] \in WorkerStates /\ wk \in [Workers -> WorkerStates]
  BY DEF TypeInv, TypeOK
<1> HIDE DEF seen
<1>3. Moves(w, "mark_failed") /\ wk'[w].seen = seen
  BY <1>1, <1>2 DEF Moves, WorkerStates
<1> QED
  BY <1>3 DEF seen

LEMMA RedeliverEffect ==
   ASSUME TypeInv, NEW w \in Workers, Redeliver(w)
   PROVE  /\ wk'[w].pc = wk[w].pc /\ wk'[w].msg = wk[w].msg
          /\ wk'[w].build = wk[w].build /\ wk'[w].seen = wk[w].seen
          /\ ~wk'[w].held
          /\ \A v \in Workers \ {w} : wk'[v] = wk[v]
<1>1. wk \in [Workers -> WorkerStates]
  BY DEF TypeInv, TypeOK
<1> QED
  BY <1>1 DEF Redeliver, WorkerStates

LEMMA RestsEffect ==
   ASSUME TypeInv, NEW w \in Workers, wk' = [wk EXCEPT ![w] = IdleWorker]
   PROVE  Rests(w)
BY DEF Rests, TypeInv, TypeOK

LEMMA MarkQueuedEffect ==
   ASSUME TypeInv, NEW r \in Requests, MarkQueued(r)
   PROVE  /\ OtherRowsStay(req[r].exp) /\ SameButStatus(req[r].exp)
          /\ row'[req[r].exp].status = "queued"
<1>1. req[r].exp \in Exports /\ row \in [Exports -> Rows]
  BY DEF MarkQueued, Advance, TypeInv, TypeOK, HandlerHasRow
<1>2. row' = [row EXCEPT ![req[r].exp].status = "queued"]
  BY DEF MarkQueued, Flushed
<1> QED
  BY <1>1, <1>2 DEF OtherRowsStay, SameButStatus, Rows

LEMMA CreateRowEffect ==
   ASSUME TypeInv, NEW r \in Requests, CreateRow(r)
   PROVE  \E e \in Exports :
             /\ ~Exists(e)
             /\ OtherRowsStay(e)
             /\ row'[e].status = "requested" /\ ~row'[e].s3_key
             /\ row'[e].parent = req[r].parent
             /\ req'[r].exp = e /\ req'[r].pc = "announce"
             /\ \A s \in Requests \ {r} : req'[s] = req[s]
<1>1. PICK e \in Exports :
         /\ ~Exists(e)
         /\ row' = [row EXCEPT ![e] =
               [NoRow EXCEPT !.status = "requested", !.parent = req[r].parent,
                             !.attempt = IF req[r].parent = None THEN None
                                         ELSE row[req[r].parent].attempt]]
         /\ req' = [req EXCEPT ![r] = [@ EXCEPT !.pc = "announce", !.exp = e]]
  BY DEF CreateRow
<1>2. row \in [Exports -> Rows] /\ req \in [Requests -> Handlers]
  BY DEF TypeInv, TypeOK
<1>3. OtherRowsStay(e)
  BY <1>1, <1>2 DEF OtherRowsStay
<1>4. /\ row'[e].status = "requested" /\ ~row'[e].s3_key
      /\ row'[e].parent = req[r].parent
  BY <1>1, <1>2 DEF NoRow
<1>5. /\ req'[r].exp = e /\ req'[r].pc = "announce"
      /\ \A s \in Requests \ {r} : req'[s] = req[s]
  BY <1>1, <1>2 DEF Handlers
<1> QED
  BY <1>1, <1>3, <1>4, <1>5

\* The handler that answers from an earlier request, or refuses a retry, ends;
\* any other goes on to create its row.
LEMMA SubmitEffect ==
   ASSUME TypeInv, NEW r \in Requests, NEW k \in Keys \cup {None}, Submit(r, k)
   PROVE  /\ req'[r].pc \in {"create", "done"}
          /\ \A s \in Requests \ {r} : req'[s] = req[s]
<1>1. req[r] \in Handlers /\ req \in [Requests -> Handlers]
  BY DEF TypeInv, TypeOK
<1>2. CASE req' = [req EXCEPT ![r] = [@ EXCEPT !.pc = "create", !.key = k]]
  <2> DEFINE h == [req[r] EXCEPT !.pc = "create", !.key = k]
  <2>1. h.pc = "create" /\ req' = [req EXCEPT ![r] = h]
    BY <1>1, <1>2 DEF Handlers
  <2> HIDE DEF h
  <2> QED
    BY <1>1, <2>1
<1>3. ASSUME NEW i \in PriorRequests(k),
             req' = [req EXCEPT ![r] = [@ EXCEPT !.pc = "done", !.key = k,
                                                 !.exp = requested[i].exp]]
      PROVE  /\ req'[r].pc = "done"
             /\ \A s \in Requests \ {r} : req'[s] = req[s]
  <2> DEFINE h == [req[r] EXCEPT !.pc = "done", !.key = k, !.exp = requested[i].exp]
  <2>1. h.pc = "done" /\ req' = [req EXCEPT ![r] = h]
    BY <1>1, <1>3 DEF Handlers
  <2> HIDE DEF h
  <2> QED
    BY <1>1, <2>1
<1> QED
  BY <1>2, <1>3 DEF Submit

LEMMA SubmitRetryEffect ==
   ASSUME TypeInv, NEW r \in Requests, NEW e \in Exports, SubmitRetry(r, e)
   PROVE  /\ req'[r].pc \in {"create", "error"}
          /\ \A s \in Requests \ {r} : req'[s] = req[s]
<1>1. req[r] \in Handlers /\ req \in [Requests -> Handlers]
  BY DEF TypeInv, TypeOK
<1>2. ASSUME NEW step \in {"create", "error"},
             req' = [req EXCEPT ![r] = [@ EXCEPT !.pc = step, !.parent = e]]
      PROVE  /\ req'[r].pc = step
             /\ \A s \in Requests \ {r} : req'[s] = req[s]
  <2> DEFINE h == [req[r] EXCEPT !.pc = step, !.parent = e]
  <2>1. h.pc = step /\ req' = [req EXCEPT ![r] = h]
    BY <1>1, <1>2 DEF Handlers
  <2> HIDE DEF h
  <2> QED
    BY <1>1, <2>1
<1> QED
  BY <1>2 DEF SubmitRetry
-----------------------------------------------------------------------------
(* An offered package is stored.  The invariant follows the package from its *)
(* assembly to the row: what a worker is about to upload was assembled, and  *)
(* what it is about to offer was uploaded.                                   *)

Built == {"package", "open_upload", "put", "finalize", "stamp"}

StoredInv ==
   /\ OfferedPackageIsStored
   /\ \A w \in Workers : wk[w].pc \in Built => wk[w].build \in 1..builds[Exp(w)]
   /\ \A w \in Workers : wk[w].pc = "finalize" => vault[Exp(w)] \in 1..builds[Exp(w)]

\* A step that offers nothing, stores nothing and assembles nothing.
LEMMA StoredFrame ==
   ASSUME StoredInv, UNCHANGED <<vault, builds>>,
          \A e \in Exports :
             /\ row'[e].s3_key => row[e].s3_key /\ row'[e].sha = row[e].sha
             /\ row'[e].status = "ready" => row[e].status = "ready" /\ row'[e].s3_key = row[e].s3_key,
          \A v \in Workers : wk'[v].pc \in Built =>
             /\ wk[v].pc \in Built /\ wk'[v].msg = wk[v].msg /\ wk'[v].build = wk[v].build
             /\ wk'[v].pc = "finalize" => wk[v].pc = "finalize"
   PROVE  StoredInv'
<1>1. OfferedPackageIsStored'
  BY DEF StoredInv, OfferedPackageIsStored
<1>2. \A v \in Workers : wk'[v].pc \in Built =>
         /\ wk[v].pc \in Built /\ Exp(v)' = Exp(v) /\ wk'[v].build = wk[v].build
         /\ wk'[v].pc = "finalize" => wk[v].pc = "finalize"
  BY DEF Exp
<1> QED
  BY <1>1, <1>2 DEF StoredInv, Built

\* The handlers' steps.
LEMMA StoredHandler ==
   ASSUME TypeInv, StoredInv, NEW r \in Requests,
          \/ \E k \in Keys \cup {None} : Submit(r, k)
          \/ \E e \in Exports : SubmitRetry(r, e)
          \/ HandlerStep(r)
          \/ HandlerDies(r)
   PROVE  StoredInv'
<1>1. UNCHANGED <<vault, builds, wk>>
  BY DEF Submit, SubmitRetry, HandlerStep, HandlerDies, CreateRow, LogRequested, Publish,
         PublishFails, MarkQueued, LogQueued, store
<1>2. CASE UNCHANGED row
  BY <1>1, <1>2, StoredFrame
<1>3. CASE CreateRow(r)
  BY <1>1, <1>3, CreateRowEffect, StoredFrame DEF OtherRowsStay
<1>4. CASE MarkQueued(r)
  BY <1>1, <1>4, MarkQueuedEffect, StoredFrame DEF OtherRowsStay, SameButStatus
<1> QED
  BY <1>2, <1>3, <1>4 DEF Submit, SubmitRetry, HandlerStep, HandlerDies, LogRequested, Publish,
         PublishFails, LogQueued

\* A worker's step that leaves the row, the vault and the package as they are.
LEMMA StoredMoves ==
   ASSUME StoredInv, NEW w \in Workers, NEW step, Moves(w, step),
          step \in Built => wk[w].pc \in Built,
          step # "finalize",
          UNCHANGED <<row, vault, builds>>
   PROVE  StoredInv'
BY StoredFrame DEF Moves

LEMMA StoredRests ==
   ASSUME StoredInv, NEW w \in Workers, Rests(w), UNCHANGED <<row, vault, builds>>
   PROVE  StoredInv'
BY StoredFrame DEF Rests, IdleWorker, Built

\* The workers' steps.
LEMMA StoredWorker ==
   ASSUME TypeInv, StoredInv, NEW w \in Workers,
          WorkerStep(w) \/ BuildFails(w) \/ HandlerRaises(w) \/ Crash(w) \/ Redeliver(w)
   PROVE  StoredInv'
<1>0. row \in [Exports -> Rows] /\ builds \in [Exports -> Nat] /\ vault \in [Exports -> Nat]
  BY DEF TypeInv, TypeOK
<1>1. CASE Take(w)
  <2>1. UNCHANGED <<row, vault, builds>>
    BY <1>1 DEF Take, store
  <2> QED
    BY <1>1, <2>1, TakeEffect, StoredFrame DEF Built
<1>2. CASE Load(w)
  <2>1. UNCHANGED <<row, vault, builds>>
    BY <1>2 DEF Load, store
  <2> QED
    BY <1>2, <2>1, LoadEffect, StoredMoves DEF Built
<1>3. CASE Begin(w)
  <2>1. UNCHANGED <<vault, builds>>
    BY <1>3 DEF Begin, store
  <2> QED
    BY <1>3, <2>1, BeginEffect, StoredFrame
    DEF OtherRowsStay, Moves, Built, Written, Flushed
<1>4. CASE Announce(w) \/ SyncCaseStatus(w) \/ LogUploaded(w) \/ CheckGenerated(w)
           \/ LogGenerated(w) \/ LogFailed(w) \/ HandlerRaises(w)
  <2>1. UNCHANGED <<row, vault, builds>>
    BY <1>4 DEF Announce, SyncCaseStatus, LogUploaded, CheckGenerated, LogGenerated,
                LogFailed, HandlerRaises, store
  <2>2. \E step : Moves(w, step) /\ step \notin Built
    BY <1>4, GoToEffect DEF Announce, SyncCaseStatus, LogUploaded, CheckGenerated,
       LogGenerated, LogFailed, HandlerRaises, Built
  <2> QED
    BY <2>1, <2>2, StoredMoves DEF Built
<1>5. CASE Gather(w) \/ Package(w) \/ OpenUpload(w)
  <2>1. UNCHANGED <<vault, builds>>
    BY <1>5 DEF Gather, Package, OpenUpload, store
  <2>2. /\ OtherRowsStay(Exp(w)) /\ SameButStatus(Exp(w))
        /\ row'[Exp(w)].status = "processing"
    BY <1>5, GatherEffect, PackageEffect, OpenUploadEffect
  <2>3. \E step : Moves(w, step) /\ (step \in Built => wk[w].pc \in Built) /\ step # "finalize"
    BY <1>5, GatherEffect, PackageEffect, OpenUploadEffect DEF Package, OpenUpload, At, Built
  <2> QED
    BY <2>1, <2>2, <2>3, StoredFrame DEF OtherRowsStay, SameButStatus, Moves
<1>6. CASE Assemble(w)
  <2> DEFINE e == Exp(w)
  <2>1. e \in Exports
    BY <1>6, BusyExp DEF Assemble, At
  <2>2. /\ builds'[e] = builds[e] + 1
        /\ \A f \in Exports \ {e} : builds'[f] = builds[f]
    BY <1>0, <1>6, <2>1, AssembleEffect
  <2>3. UNCHANGED vault
    BY <1>6 DEF Assemble
  <2>4. \A f \in Exports : \A n \in 1..builds[f] : n \in 1..builds'[f]
    BY <1>0, <2>1, <2>2
  <2>5. OfferedPackageIsStored'
    BY <1>6, <2>3, <2>4, AssembleEffect
    DEF StoredInv, OfferedPackageIsStored, OtherRowsStay, SameButStatus
  <2>6. wk'[w].build \in 1..builds'[e] /\ Exp(w)' = e /\ wk'[w].pc # "finalize"
    BY <1>0, <1>6, <2>1, <2>2, AssembleEffect DEF Exp
  <2>7. \A v \in Workers \ {w} : wk'[v] = wk[v] /\ Exp(v)' = Exp(v)
    BY <1>6, AssembleEffect DEF Exp
  <2>8. \A v \in Workers : wk[v].pc \in Built => Exp(v) \in Exports
    BY BusyExp DEF Built
  <2> QED
    BY <2>3, <2>4, <2>5, <2>6, <2>7, <2>8 DEF StoredInv, Built
<1>7. CASE Put(w)
  <2> DEFINE e == Exp(w)
  <2>1. e \in Exports /\ wk[w].build \in 1..builds[e]
    BY <1>7, BusyExp DEF Put, At, StoredInv, Built
  <2>2. /\ vault'[e] = wk[w].build
        /\ \A f \in Exports \ {e} : vault'[f] = vault[f]
    BY <1>0, <1>7, <2>1, PutEffect
  <2>3. UNCHANGED <<row, builds>>
    BY <1>7 DEF Put
  <2>4. OfferedPackageIsStored'
    BY <2>1, <2>2, <2>3 DEF StoredInv, OfferedPackageIsStored
  <2>5. Exp(w)' = e /\ wk'[w].build = wk[w].build
    BY <1>7, PutEffect DEF Exp, Moves
  <2>6. \A v \in Workers \ {w} : wk'[v] = wk[v] /\ Exp(v)' = Exp(v)
    BY <1>7, PutEffect DEF Exp, Moves
  <2>7. \A v \in Workers : wk[v].pc \in Built => Exp(v) \in Exports
    BY BusyExp DEF Built
  <2> QED
    BY <2>1, <2>2, <2>3, <2>4, <2>5, <2>6, <2>7 DEF StoredInv, Built
<1>8. CASE Finalize(w)
  <2> DEFINE e == Exp(w)
  <2>1. e \in Exports /\ wk[w].build \in 1..builds[e] /\ vault[e] \in 1..builds[e]
    BY <1>8, BusyExp DEF Finalize, At, StoredInv, Built
  <2>2. UNCHANGED <<vault, builds>>
    BY <1>8 DEF Finalize, store
  <2>3. OfferedPackageIsStored'
    BY <1>8, <2>1, <2>2, FinalizeEffect DEF StoredInv, OfferedPackageIsStored, OtherRowsStay
  <2>4. Exp(w)' = e /\ wk'[w].build = wk[w].build /\ wk'[w].pc = "stamp"
    BY <1>8, FinalizeEffect DEF Exp, Moves
  <2>5. \A v \in Workers \ {w} : wk'[v] = wk[v] /\ Exp(v)' = Exp(v)
    BY <1>8, FinalizeEffect DEF Exp, Moves
  <2> QED
    BY <2>1, <2>2, <2>3, <2>4, <2>5 DEF StoredInv, Built
<1>9. CASE Stamp(w)
  <2> DEFINE e == Exp(w)
  <2>1. e \in Exports /\ wk[w].build \in 1..builds[e] /\ row[e] \in Rows
    BY <1>0, <1>9, BusyExp DEF Stamp, At, StoredInv, Built
  <2>2. UNCHANGED <<vault, builds>>
    BY <1>9 DEF Stamp, store
  <2>3. row'[e].status = row[e].status /\ row'[e].s3_key = row[e].s3_key
        /\ row'[e].sha = wk[w].build
    BY <1>9, <2>1, StampEffect DEF Rows
  <2>4. OfferedPackageIsStored'
    BY <1>9, <2>1, <2>2, <2>3, StampEffect DEF StoredInv, OfferedPackageIsStored, OtherRowsStay
  <2>5. wk'[w].pc = "sync" /\ \A v \in Workers \ {w} : wk'[v] = wk[v] /\ Exp(v)' = Exp(v)
    BY <1>9, StampEffect DEF Exp, Moves
  <2> QED
    BY <2>2, <2>4, <2>5 DEF StoredInv, Built
<1>10. CASE Finish(w) \/ AutoRetry(w) \/ Crash(w)
  <2>1. UNCHANGED <<row, vault, builds>>
    BY <1>10 DEF Finish, AutoRetry, Crash, store
  <2>2. Rests(w)
    BY <1>10, RestsEffect DEF Finish, AutoRetry, Crash
  <2> QED
    BY <2>1, <2>2, StoredRests
<1>11. CASE Refused(w) \/ BuildFails(w)
  <2>1. UNCHANGED <<row, vault, builds>> /\ Moves(w, "mark_failed")
    BY <1>11, RaiseEffect DEF Refused, BuildFails, Raise, store
  <2> QED
    BY <2>1, StoredMoves DEF Built
<1>12. CASE MarkFailed(w)
  <2>1. UNCHANGED <<vault, builds>>
    BY <1>12 DEF MarkFailed, store
  <2> QED
    BY <1>12, <2>1, MarkFailedEffect, StoredFrame
    DEF OtherRowsStay, SameButStatus, Moves, Built, Written, Flushed
<1>13. CASE Redeliver(w)
  <2>1. UNCHANGED <<row, vault, builds>>
    BY <1>13 DEF Redeliver, store
  <2> QED
    BY <1>13, <2>1, RedeliverEffect, StoredFrame
<1> QED
  BY <1>1, <1>2, <1>3, <1>4, <1>5, <1>6, <1>7, <1>8, <1>9, <1>10, <1>11, <1>12, <1>13
  DEF WorkerStep

LEMMA StoredStep == TypeInv /\ StoredInv /\ [Next]_vars => StoredInv'
<1> SUFFICES ASSUME TypeInv, StoredInv, [Next]_vars PROVE StoredInv'
  OBVIOUS
<1>1. ASSUME NEW e \in Exports, Requeue(e) PROVE StoredInv'
  <2>1. UNCHANGED <<row, vault, builds, wk>>
    BY <1>1 DEF Requeue, store
  <2> QED
    BY <2>1, StoredFrame
<1>2. CASE UNCHANGED vars
  BY <1>2, StoredFrame DEF vars
<1> QED
  BY <1>1, <1>2, StoredHandler, StoredWorker DEF Next

\* Whatever crashes, repeated deliveries and late writes happen, a row that
\* offers a package offers one that build_export has put in the vault.
THEOREM OfferedIsStored == Spec => []OfferedPackageIsStored
<1>1. Init => StoredInv
  BY DEF Init, StoredInv, OfferedPackageIsStored, NoRow, Absent, IdleWorker, Built
<1>2. StoredInv => OfferedPackageIsStored
  BY DEF StoredInv
<1> QED
  BY <1>1, <1>2, StoredStep, AlwaysTypeInv, PTL DEF Spec
-----------------------------------------------------------------------------
(* A row being processed carries its own attempt id.  The id is written when *)
(* the build begins and no other step touches it, save the creation of a     *)
(* row: no handler, message or worker may name an export that has no row.    *)

NamesExist ==
   /\ \A m \in queue : Exists(m.exp)
   /\ \A w \in Workers : wk[w].pc # "idle" => Exists(Exp(w))
   /\ \A e \in deadLetters : Exists(e)
   /\ \A r \in Requests :
         req[r].pc \in {"announce", "publish", "mark_queued", "log_queued"}
            => Exists(req[r].exp)

Begun == {"announce", "gather", "assemble", "package", "open_upload"}

AttemptInv ==
   /\ ProcessingIsOwnAttempt
   /\ \A w \in Workers : wk[w].pc \in Begun => row[Exp(w)].attempt = Exp(w)

\* A row that exists goes on existing.
LEMMA RowsStay ==
   ASSUME TypeInv, NamesExist, [Next]_vars, NEW e \in Exports, Exists(e)
   PROVE  Exists(e)'
<1>1. CASE UNCHANGED row
  BY <1>1 DEF Exists
<1>2. ASSUME NEW r \in Requests, CreateRow(r) PROVE Exists(e)'
  BY <1>2, CreateRowEffect DEF Exists, OtherRowsStay, Absent
<1>3. ASSUME NEW r \in Requests, MarkQueued(r) PROVE Exists(e)'
  BY <1>3, MarkQueuedEffect DEF Exists, OtherRowsStay, Absent
<1>4. ASSUME NEW w \in Workers, Gather(w) \/ Assemble(w) \/ Package(w) \/ OpenUpload(w)
      PROVE  Exists(e)'
  BY <1>4, GatherEffect, AssembleEffect, PackageEffect, OpenUploadEffect
  DEF Exists, OtherRowsStay, Absent
<1>5. ASSUME NEW w \in Workers, Begin(w) \/ Finalize(w) \/ MarkFailed(w)
      PROVE  Exists(e)'
  <2>1. CASE UNCHANGED row
    BY <2>1 DEF Exists
  <2>2. CASE ~UNCHANGED row
    <3>1. PICK to \in {"processing", "ready", "failed"} :
             /\ OtherRowsStay(Exp(w))
             /\ row'[Exp(w)].status = Written(w, to)
      BY <1>5, <2>2, BeginEffect, FinalizeEffect, MarkFailedEffect
    <3> QED
      BY <3>1 DEF Exists, OtherRowsStay, Written, Flushed, Absent
  <2> QED
    BY <2>1, <2>2
<1>6. ASSUME NEW w \in Workers, Stamp(w) PROVE Exists(e)'
  <2>1. row[Exp(w)] \in Rows
    BY <1>6, BusyExp DEF Stamp, At, TypeInv, TypeOK
  <2> QED
    BY <1>6, <2>1, StampEffect DEF Exists, OtherRowsStay, Rows
<1>7. ASSUME NEW w \in Workers,
             Take(w) \/ Load(w) \/ Announce(w) \/ Put(w) \/ SyncCaseStatus(w)
             \/ LogUploaded(w) \/ CheckGenerated(w) \/ LogGenerated(w) \/ Finish(w)
             \/ Refused(w) \/ LogFailed(w) \/ AutoRetry(w) \/ BuildFails(w)
             \/ HandlerRaises(w) \/ Crash(w) \/ Redeliver(w)
      PROVE  UNCHANGED row
  BY <1>7 DEF Take, Load, Announce, Put, SyncCaseStatus, LogUploaded, CheckGenerated,
     LogGenerated, Finish, Refused, LogFailed, AutoRetry, BuildFails, HandlerRaises,
     Crash, Redeliver, Raise
<1>8. ASSUME NEW r \in Requests,
             \/ \E k \in Keys \cup {None} : Submit(r, k)
             \/ \E f \in Exports : SubmitRetry(r, f)
             \/ LogRequested(r) \/ Publish(r) \/ PublishFails(r) \/ LogQueued(r)
             \/ HandlerDies(r)
      PROVE  UNCHANGED row
  BY <1>8 DEF Submit, SubmitRetry, LogRequested, Publish, PublishFails, LogQueued, HandlerDies
<1>9. ASSUME NEW f \in Exports, Requeue(f) PROVE UNCHANGED row
  BY <1>9 DEF Requeue
<1> QED
  BY <1>1, <1>2, <1>3, <1>4, <1>5, <1>6, <1>7, <1>8, <1>9
  DEF Next, WorkerStep, HandlerStep, vars

\* A worker that goes on with its message.
LEMMA NamesWorkers ==
   ASSUME TypeInv, NamesExist, \A e \in Exports : Exists(e) => row'[e].status # Absent,
          \A v \in Workers : wk'[v].pc # "idle" =>
             \/ wk[v].pc # "idle" /\ wk'[v].msg = wk[v].msg
             \/ wk'[v].msg \in queue
   PROVE  \A v \in Workers : wk'[v].pc # "idle" => row'[wk'[v].msg.exp].status # Absent
<1> SUFFICES ASSUME NEW v \in Workers, wk'[v].pc # "idle"
             PROVE  row'[wk'[v].msg.exp].status # Absent
  OBVIOUS
<1>1. CASE wk[v].pc # "idle" /\ wk'[v].msg = wk[v].msg
  <2>1. Exists(wk[v].msg.exp) /\ wk[v].msg.exp \in Exports
    BY <1>1, BusyExp DEF NamesExist, Exp
  <2> QED
    BY <1>1, <2>1
<1>2. CASE wk'[v].msg \in queue
  <2>1. Exists(wk'[v].msg.exp) /\ wk'[v].msg.exp \in Exports
    BY <1>2 DEF NamesExist, TypeInv, TypeOK, Messages
  <2> QED
    BY <2>1
<1> QED
  BY <1>1, <1>2

LEMMA NamesStep == TypeInv /\ NamesExist /\ [Next]_vars => NamesExist'
<1> SUFFICES ASSUME TypeInv, NamesExist, [Next]_vars PROVE NamesExist'
  OBVIOUS
<1>1. \A e \in Exports : Exists(e) => row'[e].status # Absent
  BY RowsStay DEF Exists
<1>2. \A m \in queue : m.exp \in Exports /\ Exists(m.exp)
  BY DEF NamesExist, TypeInv, TypeOK, Messages
<1>3. \A w \in Workers : wk[w].pc # "idle" => Exp(w) \in Exports /\ Exists(Exp(w))
  BY BusyExp DEF NamesExist
<1>4. deadLetters \subseteq Exports
  BY DEF TypeInv, TypeOK
<1>5. \A r \in Requests :
         req[r].pc \in {"announce", "publish", "mark_queued", "log_queued"}
            => req[r].exp \in Exports /\ Exists(req[r].exp)
  BY DEF NamesExist, TypeInv, HandlerHasRow
<1>6. \A w \in Workers : wk'[w].pc # "idle" => row'[wk'[w].msg.exp].status # Absent
  <2>1. ASSUME NEW w \in Workers,
               WorkerStep(w) \/ BuildFails(w) \/ HandlerRaises(w) \/ Crash(w) \/ Redeliver(w)
        PROVE  \A v \in Workers : wk'[v].pc # "idle" =>
                  \/ wk[v].pc # "idle" /\ wk'[v].msg = wk[v].msg
                  \/ wk'[v].msg \in queue
    <3>1. CASE Take(w)
      BY <3>1, TakeEffect
    <3>2. CASE \E step : Moves(w, step) /\ wk[w].pc # "idle"
      BY <3>2 DEF Moves
    <3>3. CASE Assemble(w)
      BY <3>3, AssembleEffect DEF Assemble, At
    <3>4. CASE Finish(w) \/ AutoRetry(w) \/ Crash(w)
      <4>1. Rests(w)
        BY <3>4, RestsEffect DEF Finish, AutoRetry, Crash
      <4> QED
        BY <4>1 DEF Rests, IdleWorker
    <3>5. CASE Redeliver(w)
      BY <3>5, RedeliverEffect DEF Redeliver, At
    <3>6. ASSUME Load(w) \/ Begin(w) \/ Gather(w) \/ Package(w) \/ OpenUpload(w) \/ Put(w)
                 \/ Finalize(w) \/ Stamp(w) \/ MarkFailed(w)
          PROVE  \E step : Moves(w, step) /\ wk[w].pc # "idle"
      BY <3>6, LoadEffect, BeginEffect, GatherEffect, PackageEffect, OpenUploadEffect,
         PutEffect, FinalizeEffect, StampEffect, MarkFailedEffect
      DEF Load, Begin, Gather, Package, OpenUpload, Put, Finalize, Stamp, MarkFailed, At
    <3>7. ASSUME Announce(w) \/ SyncCaseStatus(w) \/ LogUploaded(w) \/ CheckGenerated(w)
                 \/ LogGenerated(w) \/ LogFailed(w) \/ HandlerRaises(w)
          PROVE  \E step : Moves(w, step) /\ wk[w].pc # "idle"
      BY <3>7, GoToEffect
      DEF Announce, SyncCaseStatus, LogUploaded, CheckGenerated, LogGenerated, LogFailed,
          HandlerRaises, At
    <3>8. ASSUME Refused(w) \/ BuildFails(w)
          PROVE  \E step : Moves(w, step) /\ wk[w].pc # "idle"
      BY <3>8, RaiseEffect DEF Refused, BuildFails, At, BuildSteps, StageSteps
    <3> QED
      BY <2>1, <3>1, <3>2, <3>3, <3>4, <3>5, <3>6, <3>7, <3>8 DEF WorkerStep
  <2>2. CASE UNCHANGED wk
    BY <1>1, <2>2, NamesWorkers
  <2>3. UNCHANGED wk \/ \E w \in Workers :
           WorkerStep(w) \/ BuildFails(w) \/ HandlerRaises(w) \/ Crash(w) \/ Redeliver(w)
    BY DEF Next, HandlerStep, Submit, SubmitRetry, CreateRow, LogRequested, Publish,
       PublishFails, MarkQueued, LogQueued, HandlerDies, Requeue, vars
  <2> QED
    BY <1>1, <2>1, <2>2, <2>3, NamesWorkers
<1>7. \A m \in queue' : row'[m.exp].status # Absent
  <2>1. ASSUME NEW r \in Requests, Publish(r) PROVE \A m \in queue' : row'[m.exp].status # Absent
    BY <1>1, <1>2, <1>5, <2>1 DEF Publish, Advance
  <2>2. ASSUME NEW w \in Workers, Take(w) \/ AutoRetry(w) \/ Crash(w) \/ Redeliver(w)
        PROVE  \A m \in queue' : row'[m.exp].status # Absent
    <3>1. wk[w].pc # "idle" => wk[w].msg \in Messages
      BY BusyExp
    <3>2. CASE Take(w) \/ Crash(w)
      BY <1>1, <1>2, <1>3, <3>2 DEF Take, Crash, Exp, At
    <3>3. CASE AutoRetry(w)
      <4>1. [wk[w].msg EXCEPT !.tries = @ + 1].exp = Exp(w)
        BY <3>1, <3>3 DEF AutoRetry, At, Exp, Messages
      <4> QED
        BY <1>1, <1>2, <1>3, <3>3, <4>1 DEF AutoRetry, At
    <3>4. CASE Redeliver(w)
      <4>1. [wk[w].msg EXCEPT !.copy = copies + 1].exp = Exp(w)
        BY <3>1, <3>4 DEF Redeliver, At, Exp, Messages
      <4> QED
        BY <1>1, <1>2, <1>3, <3>4, <4>1 DEF Redeliver, At
    <3> QED
      BY <2>2, <3>2, <3>3, <3>4
  <2>3. ASSUME NEW e \in Exports, Requeue(e) PROVE \A m \in queue' : row'[m.exp].status # Absent
    BY <1>1, <1>2, <2>3 DEF Requeue, NamesExist
  <2>4. CASE UNCHANGED queue
    BY <1>1, <1>2, <2>4
  <2> QED
    BY <2>1, <2>2, <2>3, <2>4
    DEF Next, HandlerStep, WorkerStep, Submit, SubmitRetry, CreateRow, LogRequested,
        PublishFails, MarkQueued, LogQueued, HandlerDies, Load, Begin, Announce, Gather,
        Assemble, Package, OpenUpload, Put, Finalize, Stamp, SyncCaseStatus, LogUploaded,
        CheckGenerated, LogGenerated, Finish, Refused, BuildFails, Raise, MarkFailed,
        LogFailed, HandlerRaises, broker, vars
<1>8. \A e \in deadLetters' : row'[e].status # Absent
  <2>1. \A e \in deadLetters' : e \in deadLetters \/ \E w \in Workers : wk[w].pc # "idle" /\ e = Exp(w)
    BY DEF Next, HandlerStep, WorkerStep, Submit, SubmitRetry, CreateRow, LogRequested,
        Publish, PublishFails, MarkQueued, LogQueued, HandlerDies, Take, Load, Begin,
        Announce, Gather, Assemble, Package, OpenUpload, Put, Finalize, Stamp,
        SyncCaseStatus, LogUploaded, CheckGenerated, LogGenerated, Finish, Refused,
        BuildFails, Raise, MarkFailed, LogFailed, HandlerRaises, AutoRetry, Crash,
        Redeliver, Requeue, At, broker, vars
  <2> QED
    BY <1>1, <1>3, <1>4, <2>1 DEF NamesExist
<1>9. \A r \in Requests :
         req'[r].pc \in {"announce", "publish", "mark_queued", "log_queued"}
            => row'[req'[r].exp].status # Absent
  <2> DEFINE Named(pc) == pc \in {"announce", "publish", "mark_queued", "log_queued"}
  <2>0. req \in [Requests -> Handlers]
    BY DEF TypeInv, TypeOK
  <2>1. CASE UNCHANGED req
    BY <1>1, <1>5, <2>1
  <2>2. ASSUME NEW r \in Requests, CreateRow(r)
        PROVE  \A s \in Requests : Named(req'[s].pc) => row'[req'[s].exp].status # Absent
    BY <1>1, <1>5, <2>2, CreateRowEffect DEF Exists, Absent
  <2>3. ASSUME NEW r \in Requests,
               LogRequested(r) \/ Publish(r) \/ PublishFails(r) \/ MarkQueued(r)
               \/ LogQueued(r) \/ HandlerDies(r)
        PROVE  \A s \in Requests : Named(req'[s].pc) => row'[req'[s].exp].status # Absent
    <3>1. ASSUME NEW to, req' = [req EXCEPT ![r].pc = to], Named(to) => Named(req[r].pc)
          PROVE  \A s \in Requests : Named(req'[s].pc) => row'[req'[s].exp].status # Absent
      <4>1. /\ req'[r].pc = to /\ req'[r].exp = req[r].exp
            /\ \A s \in Requests \ {r} : req'[s] = req[s]
        BY <2>0, <3>1 DEF Handlers
      <4> QED
        BY <1>1, <1>5, <3>1, <4>1
    <3>2. CASE HandlerDies(r)
      BY <3>1, <3>2 DEF HandlerDies
    <3>3. CASE LogRequested(r) \/ Publish(r) \/ PublishFails(r) \/ MarkQueued(r) \/ LogQueued(r)
      <4>1. Named(req[r].pc)
        BY <3>3 DEF LogRequested, Publish, PublishFails, MarkQueued, LogQueued, Advance
      <4> QED
        BY <3>1, <3>3, <4>1 DEF LogRequested, Publish, PublishFails, MarkQueued, LogQueued,
                                Advance
    <3> QED
      BY <2>3, <3>2, <3>3
  <2>4. ASSUME NEW r \in Requests,
               \/ \E k \in Keys \cup {None} : Submit(r, k)
               \/ \E e \in Exports : SubmitRetry(r, e)
        PROVE  \A s \in Requests : Named(req'[s].pc) => row'[req'[s].exp].status # Absent
    <3>1. /\ req'[r].pc \in {"create", "done", "error"}
          /\ \A s \in Requests \ {r} : req'[s] = req[s]
      BY <2>4, SubmitEffect, SubmitRetryEffect
    <3> QED
      BY <1>1, <1>5, <3>1
  <2>5. ASSUME NEW w \in Workers,
               WorkerStep(w) \/ BuildFails(w) \/ HandlerRaises(w) \/ Crash(w) \/ Redeliver(w)
        PROVE  UNCHANGED req
    BY <2>5 DEF WorkerStep, Take, Load, Begin, Announce, Gather, Assemble, Package,
       OpenUpload, Put, Finalize, Stamp, SyncCaseStatus, LogUploaded, CheckGenerated,
       LogGenerated, Finish, Refused, BuildFails, Raise, MarkFailed, LogFailed,
       HandlerRaises, AutoRetry, Crash, Redeliver, api
  <2>6. ASSUME NEW e \in Exports, Requeue(e) PROVE UNCHANGED req
    BY <2>6 DEF Requeue, api
  <2> QED
    BY <2>1, <2>2, <2>3, <2>4, <2>5, <2>6 DEF Next, HandlerStep, vars
<1> QED
  BY <1>6, <1>7, <1>8, <1>9 DEF NamesExist, Exists, Exp

\* A step that starts no processing and keeps the attempt ids.
LEMMA AttemptFrame ==
   ASSUME AttemptInv,
          \A e \in Exports : row'[e].status = "processing" =>
             row[e].status = "processing" /\ row'[e].attempt = row[e].attempt,
          \A v \in Workers : wk'[v].pc \in Begun =>
             /\ wk[v].pc \in Begun /\ wk'[v].msg = wk[v].msg
             /\ row'[Exp(v)].attempt = row[Exp(v)].attempt
   PROVE  AttemptInv'
<1>1. ProcessingIsOwnAttempt'
  BY DEF AttemptInv, ProcessingIsOwnAttempt
<1>2. \A v \in Workers : wk'[v].pc \in Begun =>
         /\ wk[v].pc \in Begun /\ Exp(v)' = Exp(v)
         /\ row'[Exp(v)].attempt = row[Exp(v)].attempt
  BY DEF Exp
<1> QED
  BY <1>1, <1>2 DEF AttemptInv, Begun

LEMMA AttemptWorker ==
   ASSUME TypeInv, AttemptInv, NEW w \in Workers,
          WorkerStep(w) \/ BuildFails(w) \/ HandlerRaises(w) \/ Crash(w) \/ Redeliver(w)
   PROVE  AttemptInv'
<1>0. \A v \in Workers : wk[v].pc \in Begun => Exp(v) \in Exports
  BY BusyExp DEF Begun
<1>1. CASE Begin(w)
  <2> DEFINE e == Exp(w)
  <2>1. e \in Exports
    BY <1>1, BusyExp DEF Begin, At
  <2>2. \A f \in Exports : row'[f].attempt = row[f].attempt \/ f = e
    BY <1>1, BeginEffect DEF OtherRowsStay
  <2>3. ProcessingIsOwnAttempt'
    BY <1>1, <2>1, BeginEffect DEF AttemptInv, ProcessingIsOwnAttempt, OtherRowsStay
  <2>4. \A v \in Workers : Exp(v)' = Exp(v)
    BY <1>1, BeginEffect DEF Moves, Exp
  <2>5. \A v \in Workers \ {w} : wk'[v] = wk[v]
    BY <1>1, BeginEffect DEF Moves
  <2>6. row'[e].attempt = e
    BY <1>1, BeginEffect
  <2> QED
    BY <1>0, <2>2, <2>3, <2>4, <2>5, <2>6 DEF AttemptInv
<1>2. CASE Gather(w) \/ Assemble(w) \/ Package(w) \/ OpenUpload(w)
  <2> DEFINE e == Exp(w)
  <2>1. e \in Exports /\ row[e].attempt = e /\ wk[w].pc \in Begun
    BY <1>2, BusyExp DEF Gather, Assemble, Package, OpenUpload, At, AttemptInv, Begun
  <2>2. OtherRowsStay(e) /\ SameButStatus(e)
    BY <1>2, GatherEffect, AssembleEffect, PackageEffect, OpenUploadEffect
  <2>3. \A f \in Exports : row'[f].attempt = row[f].attempt
    BY <2>2 DEF OtherRowsStay, SameButStatus
  <2>4. ProcessingIsOwnAttempt'
    BY <2>1, <2>2, <2>3 DEF AttemptInv, ProcessingIsOwnAttempt, OtherRowsStay
  <2>5. wk'[w].msg = wk[w].msg /\ \A v \in Workers \ {w} : wk'[v] = wk[v]
    BY <1>2, GatherEffect, AssembleEffect, PackageEffect, OpenUploadEffect DEF Moves
  <2>6. \A v \in Workers : Exp(v)' = Exp(v) /\ (wk'[v].pc \in Begun => wk[v].pc \in Begun)
    BY <2>1, <2>5 DEF Exp
  <2> QED
    BY <1>0, <2>3, <2>4, <2>6 DEF AttemptInv
<1>3. CASE Finalize(w) \/ MarkFailed(w)
  <2>1. \A f \in Exports : /\ row'[f].attempt = row[f].attempt
                           /\ row'[f].status = "processing" => row[f].status = "processing"
    BY <1>3, FinalizeEffect, MarkFailedEffect
    DEF OtherRowsStay, SameButStatus, Written, Flushed
  <2>2. \A v \in Workers : wk'[v].pc \in Begun => wk[v].pc \in Begun /\ wk'[v].msg = wk[v].msg
    BY <1>3, FinalizeEffect, MarkFailedEffect DEF Moves, Begun
  <2> QED
    BY <1>0, <2>1, <2>2, AttemptFrame
<1>4. CASE Stamp(w)
  <2>1. row[Exp(w)] \in Rows
    BY <1>4, BusyExp DEF Stamp, At, TypeInv, TypeOK
  <2>2. \A f \in Exports : /\ row'[f].attempt = row[f].attempt
                           /\ row'[f].status = "processing" => row[f].status = "processing"
    <3>1. /\ row'[Exp(w)].attempt = row[Exp(w)].attempt
          /\ row'[Exp(w)].status = row[Exp(w)].status
      BY <1>4, <2>1, StampEffect DEF Rows
    <3> QED
      BY <1>4, <3>1, StampEffect DEF OtherRowsStay
  <2>3. \A v \in Workers : wk'[v].pc \in Begun => wk[v].pc \in Begun /\ wk'[v].msg = wk[v].msg
    BY <1>4, StampEffect DEF Moves, Begun
  <2> QED
    BY <1>0, <2>2, <2>3, AttemptFrame
<1>5. CASE Announce(w)
  <2>1. UNCHANGED row /\ wk[w].pc \in Begun
    BY <1>5 DEF Announce, At, Begun
  <2> QED
    BY <1>0, <1>5, <2>1, GoToEffect, AttemptFrame DEF Announce, Moves, Begun
<1>6. CASE Take(w)
  <2>1. UNCHANGED row
    BY <1>6 DEF Take
  <2> QED
    BY <1>6, <2>1, TakeEffect, AttemptFrame DEF Begun
<1>7. CASE Load(w) \/ Put(w)
  <2>1. UNCHANGED row
    BY <1>7 DEF Load, Put
  <2> QED
    BY <1>7, <2>1, LoadEffect, PutEffect, AttemptFrame DEF Moves, Begun
<1>8. CASE SyncCaseStatus(w) \/ LogUploaded(w) \/ CheckGenerated(w)
           \/ LogGenerated(w) \/ LogFailed(w) \/ HandlerRaises(w)
  <2>1. UNCHANGED row
    BY <1>8 DEF SyncCaseStatus, LogUploaded, CheckGenerated, LogGenerated, LogFailed,
                HandlerRaises
  <2>2. \E step : Moves(w, step) /\ step \notin Begun
    BY <1>8, GoToEffect DEF SyncCaseStatus, LogUploaded, CheckGenerated, LogGenerated,
                            LogFailed, HandlerRaises, Begun
  <2> QED
    BY <2>1, <2>2, AttemptFrame DEF Moves
<1>9. CASE Finish(w) \/ AutoRetry(w) \/ Crash(w)
  <2>1. UNCHANGED row
    BY <1>9 DEF Finish, AutoRetry, Crash
  <2>2. Rests(w)
    BY <1>9, RestsEffect DEF Finish, AutoRetry, Crash
  <2> QED
    BY <2>1, <2>2, AttemptFrame DEF Rests, IdleWorker, Begun
<1>10. CASE Refused(w) \/ BuildFails(w)
  <2>1. UNCHANGED row /\ Moves(w, "mark_failed")
    BY <1>10, RaiseEffect DEF Refused, BuildFails, Raise
  <2> QED
    BY <2>1, AttemptFrame DEF Moves, Begun
<1>11. CASE Redeliver(w)
  <2>1. UNCHANGED row
    BY <1>11 DEF Redeliver
  <2> QED
    BY <1>11, <2>1, RedeliverEffect, AttemptFrame
<1> QED
  BY <1>1, <1>2, <1>3, <1>4, <1>5, <1>6, <1>7, <1>8, <1>9, <1>10, <1>11 DEF WorkerStep

LEMMA AttemptStep == TypeInv /\ NamesExist /\ AttemptInv /\ [Next]_vars => AttemptInv'
<1> SUFFICES ASSUME TypeInv, NamesExist, AttemptInv, [Next]_vars PROVE AttemptInv'
  OBVIOUS
<1>1. ASSUME NEW r \in Requests, CreateRow(r) PROVE AttemptInv'
  <2>1. UNCHANGED wk
    BY <1>1 DEF CreateRow
  <2>2. PICK e \in Exports : /\ ~Exists(e) /\ OtherRowsStay(e)
                             /\ row'[e].status = "requested"
    BY <1>1, CreateRowEffect
  <2>3. \A v \in Workers : wk[v].pc \in Begun => Exp(v) \in Exports \ {e}
    BY <2>2, BusyExp DEF NamesExist, Begun
  <2> QED
    BY <2>1, <2>2, <2>3, AttemptFrame DEF OtherRowsStay
<1>2. ASSUME NEW r \in Requests, MarkQueued(r) PROVE AttemptInv'
  <2>1. UNCHANGED wk
    BY <1>2 DEF MarkQueued
  <2>2. \A v \in Workers : wk[v].pc \in Begun => Exp(v) \in Exports
    BY BusyExp DEF Begun
  <2> QED
    BY <1>2, <2>1, <2>2, MarkQueuedEffect, AttemptFrame DEF OtherRowsStay, SameButStatus
<1>3. ASSUME NEW r \in Requests,
             \/ \E k \in Keys \cup {None} : Submit(r, k)
             \/ \E f \in Exports : SubmitRetry(r, f)
             \/ LogRequested(r) \/ Publish(r) \/ PublishFails(r) \/ LogQueued(r)
             \/ HandlerDies(r)
      PROVE  UNCHANGED <<row, wk>>
  BY <1>3 DEF Submit, SubmitRetry, LogRequested, Publish, PublishFails, LogQueued, HandlerDies
<1>4. ASSUME NEW e \in Exports, Requeue(e) PROVE UNCHANGED <<row, wk>>
  BY <1>4 DEF Requeue
<1>5. CASE UNCHANGED <<row, wk>>
  BY <1>5, AttemptFrame
<1> QED
  BY <1>1, <1>2, <1>3, <1>4, <1>5, AttemptWorker DEF Next, HandlerStep, vars

\* However handlers, retries, late writes and repeated deliveries interleave,
\* a row that is being processed carries its own attempt id, never the one a
\* retry inherited from its parent's options_json.
THEOREM ProcessingIsOwn == Spec => []ProcessingIsOwnAttempt
<1>1. Init => NamesExist /\ AttemptInv
  BY DEF Init, NamesExist, AttemptInv, ProcessingIsOwnAttempt, NoRow, Absent, IdleWorker,
         IdleHandler, Begun
<1>2. AttemptInv => ProcessingIsOwnAttempt
  BY DEF AttemptInv
<1> QED
  BY <1>1, <1>2, NamesStep, AttemptStep, AlwaysTypeInv, PTL DEF Spec
-----------------------------------------------------------------------------
(* One delivery at a time.  As long as the broker repeats no delivery whose  *)
(* first one is still running (copies = 0), what keeps two builds of one     *)
(* export apart is that its task is in one place: in a handler that has not  *)
(* published it, in the queue, in one worker, or among the dead letters.     *)
(* The worker that has it is then the only writer of its row but for the     *)
(* handler's late "queued", so what it has seen is what the row holds.       *)

Unpublished(r) == req[r].pc \in {"announce", "publish"}
Busy(w) == wk[w].pc # "idle"

HandlersApart ==
   \A r, s \in Requests :
      Outstanding(r) /\ Outstanding(s) /\ req[r].exp = req[s].exp => r = s

UnpublishedApart ==
   \A r \in Requests : Unpublished(r) =>
      /\ \A m \in queue : m.exp # req[r].exp
      /\ \A w \in Workers : Busy(w) => Exp(w) # req[r].exp
      /\ req[r].exp \notin deadLetters

MessagesApart ==
   \A m \in queue : /\ \A n \in queue : m.exp = n.exp => m = n
                    /\ \A w \in Workers : Busy(w) => Exp(w) # m.exp
                    /\ m.exp \notin deadLetters

WorkersApart ==
   \A w \in Workers : Busy(w) =>
      /\ \A v \in Workers : Busy(v) /\ Exp(v) = Exp(w) => v = w
      /\ Exp(w) \notin deadLetters
      /\ wk[w].held

TaskInOnePlace == HandlersApart /\ UnpublishedApart /\ MessagesApart /\ WorkersApart

Done == {"stamp", "sync", "log_uploaded", "check_generated", "log_generated"}

\* What the worker that builds an export knows about its row, its package in
\* the vault and its EXPORT_GENERATED event.
WorkerKnows(w) ==
   /\ wk[w].pc = "begin" =>
         /\ wk[w].seen \in Statuses \ {"ready"}
         /\ row[Exp(w)].status \in {wk[w].seen, "queued"}
   /\ wk[w].pc \in Begun \cup {"put", "finalize"} =>
         row[Exp(w)].status \in {"processing", "queued"}
   /\ wk[w].pc \in {"put", "finalize"} => wk[w].seen = "processing"
   /\ wk[w].pc \in {"finalize", "stamp"} => vault[Exp(w)] = wk[w].build
   /\ wk[w].pc \in Done => row[Exp(w)].status \in {"ready", "queued"} /\ row[Exp(w)].s3_key
   /\ wk[w].pc = "log_generated" => generated[Exp(w)] = <<>>
   /\ wk[w].pc = "finish" => row[Exp(w)].status # "processing"
   /\ wk[w].pc = "mark_failed" =>
         /\ wk[w].seen \in Statuses
         /\ row[Exp(w)].status \in {wk[w].seen, "queued"}

GeneratedHasRow == \A e \in Exports : generated[e] # <<>> => Exists(e)

TellsInv == PackageIntegrity /\ GeneratedOnce /\ GeneratedHasRow /\ NoTaskLost

SoleInv == /\ TaskInOnePlace
           /\ \A w \in Workers : Busy(w) => WorkerKnows(w)
           /\ TellsInv

-----------------------------------------------------------------------------
(* The task stays in one place. *)

LEMMA OnePlaceFrame ==
   ASSUME TaskInOnePlace, queue' \subseteq queue, deadLetters' \subseteq deadLetters,
          \A r \in Requests :
             req'[r].pc \in {"announce", "publish", "mark_queued"} =>
                /\ req[r].pc \in {"announce", "publish", "mark_queued"}
                /\ req'[r].pc \in {"announce", "publish"} => req[r].pc \in {"announce", "publish"}
                /\ req'[r].exp = req[r].exp,
          \A w \in Workers : wk'[w].pc # "idle" =>
             wk[w].pc # "idle" /\ wk'[w].msg = wk[w].msg /\ wk'[w].held = wk[w].held
   PROVE  TaskInOnePlace'
<1>1. \A w \in Workers : Busy(w)' => Busy(w) /\ Exp(w)' = Exp(w) /\ wk'[w].held = wk[w].held
  BY DEF Busy, Exp
<1>2. \A r \in Requests : Outstanding(r)' => Outstanding(r) /\ req'[r].exp = req[r].exp
  BY DEF Outstanding
<1>3. \A r \in Requests : Unpublished(r)' => Unpublished(r) /\ req'[r].exp = req[r].exp
  BY DEF Unpublished
<1> QED
  BY <1>1, <1>2, <1>3
  DEF TaskInOnePlace, HandlersApart, UnpublishedApart, MessagesApart, WorkersApart

\* A worker that is not idle after one of its steps, or after another's, held
\* its message before; only Take gives it one and only Redeliver copies it.
LEMMA WorkersKeep ==
   ASSUME TypeInv, NEW w \in Workers,
          WorkerStep(w) \/ BuildFails(w) \/ HandlerRaises(w) \/ Crash(w),
          ~Take(w)
   PROVE  /\ wk[w].pc # "idle"
          /\ \A v \in Workers \ {w} : wk'[v] = wk[v]
          /\ wk'[w].pc # "idle" => wk'[w].msg = wk[w].msg /\ wk'[w].held = wk[w].held
          /\ Finish(w) \/ AutoRetry(w) \/ Crash(w) \/ wk'[w].pc # "idle"
<1>1. CASE \E step : Moves(w, step) /\ step # "idle" /\ wk[w].pc # "idle"
  BY <1>1 DEF Moves
<1>2. CASE Assemble(w)
  BY <1>2, AssembleEffect DEF Assemble, At
<1>3. CASE Finish(w) \/ AutoRetry(w) \/ Crash(w)
  <2>1. Rests(w)
    BY <1>3, RestsEffect DEF Finish, AutoRetry, Crash
  <2> QED
    BY <1>3, <2>1 DEF Rests, IdleWorker, Finish, AutoRetry, Crash, At
<1>4. ASSUME Load(w) \/ Begin(w) \/ Gather(w) \/ Package(w) \/ OpenUpload(w) \/ Put(w)
             \/ Finalize(w) \/ Stamp(w) \/ MarkFailed(w)
      PROVE  \E step : Moves(w, step) /\ step # "idle" /\ wk[w].pc # "idle"
  BY <1>4, LoadEffect, BeginEffect, GatherEffect, PackageEffect, OpenUploadEffect,
     PutEffect, FinalizeEffect, StampEffect, MarkFailedEffect
  DEF Load, Begin, Gather, Package, OpenUpload, Put, Finalize, Stamp, MarkFailed, At
<1>5. ASSUME Announce(w) \/ SyncCaseStatus(w) \/ LogUploaded(w) \/ CheckGenerated(w)
             \/ LogGenerated(w) \/ LogFailed(w) \/ HandlerRaises(w)
      PROVE  \E step : Moves(w, step) /\ step # "idle" /\ wk[w].pc # "idle"
  BY <1>5, GoToEffect
  DEF Announce, SyncCaseStatus, LogUploaded, CheckGenerated, LogGenerated, LogFailed,
      HandlerRaises, At
<1>6. ASSUME Refused(w) \/ BuildFails(w)
      PROVE  \E step : Moves(w, step) /\ step # "idle" /\ wk[w].pc # "idle"
  BY <1>6, RaiseEffect DEF Refused, BuildFails, At, BuildSteps, StageSteps
<1> QED
  BY <1>1, <1>2, <1>3, <1>4, <1>5, <1>6 DEF WorkerStep

\* What the steps of a handler leave in its state.
LEMMA HandlerEffect ==
   ASSUME TypeInv, NEW r \in Requests, NEW to, req' = [req EXCEPT ![r].pc = to]
   PROVE  /\ req'[r].pc = to /\ req'[r].exp = req[r].exp
          /\ \A s \in Requests \ {r} : req'[s] = req[s]
BY DEF TypeInv, TypeOK, Handlers

LEMMA OnePlaceHandler ==
   ASSUME TypeInv, NamesExist, TaskInOnePlace, NEW r \in Requests,
          \/ \E k \in Keys \cup {None} : Submit(r, k)
          \/ \E e \in Exports : SubmitRetry(r, e)
          \/ HandlerStep(r)
          \/ HandlerDies(r)
   PROVE  TaskInOnePlace'
<1>1. CASE \/ \E k \in Keys \cup {None} : Submit(r, k)
           \/ \E e \in Exports : SubmitRetry(r, e)
  <2>1. UNCHANGED <<wk, queue, deadLetters>>
    BY <1>1 DEF Submit, SubmitRetry, broker
  <2>2. /\ req'[r].pc \in {"create", "done", "error"}
        /\ \A s \in Requests \ {r} : req'[s] = req[s]
    BY <1>1, SubmitEffect, SubmitRetryEffect
  <2> QED
    BY <2>1, <2>2, OnePlaceFrame
<1>2. CASE LogRequested(r) \/ PublishFails(r) \/ MarkQueued(r) \/ LogQueued(r) \/ HandlerDies(r)
  <2>1. UNCHANGED <<wk, queue, deadLetters>>
    BY <1>2 DEF LogRequested, PublishFails, MarkQueued, LogQueued, HandlerDies, broker
  <2>2. CASE LogRequested(r)
    <3>1. /\ req[r].pc = "announce" /\ req'[r].pc = "publish" /\ req'[r].exp = req[r].exp
          /\ \A s \in Requests \ {r} : req'[s] = req[s]
      BY <2>2, HandlerEffect DEF LogRequested, Advance
    <3> QED
      BY <2>1, <3>1, OnePlaceFrame
  <2>3. CASE ~LogRequested(r)
    <3>1. /\ req'[r].pc \in {"error", "log_queued", "done", "dead"}
          /\ \A s \in Requests \ {r} : req'[s] = req[s]
      BY <1>2, <2>3, HandlerEffect
      DEF PublishFails, MarkQueued, LogQueued, HandlerDies, Advance
    <3> QED
      BY <2>1, <3>1, OnePlaceFrame
  <2> QED
    BY <2>2, <2>3
<1>3. CASE Publish(r)
  <2> DEFINE e == req[r].exp
             m == [exp |-> e, tries |-> 0, copy |-> 0]
  <2>1. /\ req[r].pc = "publish" /\ req'[r].pc = "mark_queued" /\ req'[r].exp = e
        /\ \A s \in Requests \ {r} : req'[s] = req[s]
    BY <1>3, HandlerEffect DEF Publish, Advance
  <2>2. UNCHANGED <<wk, deadLetters>> /\ queue' = queue \cup {m}
    BY <1>3 DEF Publish
  <2>3. m.exp = e
    OBVIOUS
  <2> HIDE DEF m, e
  <2>4. /\ \A n \in queue : n.exp # e
        /\ \A w \in Workers : Busy(w) => Exp(w) # e
        /\ e \notin deadLetters
    BY <2>1 DEF TaskInOnePlace, UnpublishedApart, Unpublished, e
  <2>5. \A s \in Requests : Outstanding(s)' => Outstanding(s) /\ req'[s].exp = req[s].exp
    BY <2>1 DEF Outstanding, e
  <2>6. \A s \in Requests : Unpublished(s)' =>
           Unpublished(s) /\ req'[s].exp = req[s].exp /\ req[s].exp # e
    BY <2>1 DEF TaskInOnePlace, HandlersApart, Unpublished, Outstanding, e
  <2>7. \A w \in Workers : (Busy(w)' <=> Busy(w)) /\ Exp(w)' = Exp(w) /\ wk'[w].held = wk[w].held
    BY <2>2 DEF Busy, Exp
  <2>8. HandlersApart'
    BY <2>5 DEF TaskInOnePlace, HandlersApart
  <2>9. UnpublishedApart'
    BY <2>2, <2>3, <2>6, <2>7 DEF TaskInOnePlace, UnpublishedApart
  <2>10. MessagesApart'
    BY <2>2, <2>3, <2>4, <2>7 DEF TaskInOnePlace, MessagesApart
  <2>11. WorkersApart'
    BY <2>2, <2>7 DEF TaskInOnePlace, WorkersApart
  <2> QED
    BY <2>8, <2>9, <2>10, <2>11 DEF TaskInOnePlace
<1>4. CASE CreateRow(r)
  <2>1. PICK e \in Exports : /\ ~Exists(e)
             /\ req'[r].exp = e /\ req'[r].pc = "announce"
             /\ \A s \in Requests \ {r} : req'[s] = req[s]
    BY <1>4, CreateRowEffect
  <2>2. UNCHANGED <<wk, queue, deadLetters>>
    BY <1>4 DEF CreateRow, broker
  <2>3. /\ \A n \in queue : n.exp # e
        /\ \A w \in Workers : Busy(w) => Exp(w) # e
        /\ e \notin deadLetters
        /\ \A s \in Requests : Outstanding(s) => req[s].exp # e
    BY <2>1 DEF NamesExist, Busy, Outstanding
  <2>4. \A w \in Workers : (Busy(w)' <=> Busy(w)) /\ Exp(w)' = Exp(w) /\ wk'[w].held = wk[w].held
    BY <2>2 DEF Busy, Exp
  <2>5. \A s \in Requests \ {r} :
           /\ Outstanding(s)' <=> Outstanding(s)
           /\ Unpublished(s)' <=> Unpublished(s)
           /\ req'[s].exp = req[s].exp
    BY <2>1 DEF Outstanding, Unpublished
  <2>6. HandlersApart'
    BY <2>1, <2>3, <2>5 DEF TaskInOnePlace, HandlersApart
  <2>7. UnpublishedApart'
    BY <2>1, <2>2, <2>3, <2>4, <2>5 DEF TaskInOnePlace, UnpublishedApart
  <2>8. MessagesApart' /\ WorkersApart'
    BY <2>2, <2>4 DEF TaskInOnePlace, MessagesApart, WorkersApart
  <2> QED
    BY <2>6, <2>7, <2>8 DEF TaskInOnePlace
<1> QED
  BY <1>1, <1>2, <1>3, <1>4 DEF HandlerStep

LEMMA OnePlaceWorker ==
   ASSUME TypeInv, NamesExist, TaskInOnePlace, NEW w \in Workers,
          WorkerStep(w) \/ BuildFails(w) \/ HandlerRaises(w) \/ Crash(w)
   PROVE  TaskInOnePlace'
<1>0. UNCHANGED req
  BY DEF WorkerStep, Take, Load, Begin, Announce, Gather, Assemble, Package,
         OpenUpload, Put, Finalize, Stamp, SyncCaseStatus, LogUploaded, CheckGenerated,
         LogGenerated, Finish, Refused, BuildFails, Raise, MarkFailed, LogFailed,
         HandlerRaises, AutoRetry, Crash, api
<1>1. HandlersApart'
  BY <1>0 DEF TaskInOnePlace, HandlersApart, Outstanding
<1>2. \A r \in Requests : (Unpublished(r)' <=> Unpublished(r)) /\ req'[r].exp = req[r].exp
  BY <1>0 DEF Unpublished
<1>3. CASE Take(w)
  <2>1. PICK m \in queue :
             /\ queue' = queue \ {m}
             /\ wk'[w].pc = "load" /\ wk'[w].msg = m /\ wk'[w].held
             /\ \A v \in Workers \ {w} : wk'[v] = wk[v]
    BY <1>3, TakeEffect
  <2>2. UNCHANGED deadLetters
    BY <1>3 DEF Take
  <2>3. Exp(w)' = m.exp /\ wk'[w].held
    BY <2>1 DEF Exp
  <2>4. \A v \in Workers \ {w} :
           (Busy(v)' <=> Busy(v)) /\ Exp(v)' = Exp(v) /\ wk'[v].held = wk[v].held
    BY <2>1 DEF Busy, Exp
  <2>5. UnpublishedApart'
    BY <1>2, <2>1, <2>2, <2>3, <2>4 DEF TaskInOnePlace, UnpublishedApart
  <2>6. MessagesApart'
    BY <2>1, <2>2, <2>3, <2>4 DEF TaskInOnePlace, MessagesApart
  <2>7. WorkersApart'
    BY <2>1, <2>2, <2>3, <2>4 DEF TaskInOnePlace, WorkersApart, MessagesApart
  <2> QED
    BY <1>1, <2>5, <2>6, <2>7 DEF TaskInOnePlace
<1>4. CASE Crash(w) \/ AutoRetry(w)
  <2> DEFINE e == Exp(w)
  <2>1. wk[w].pc # "idle" /\ wk[w].msg \in Messages /\ wk[w].held
    <3>1. wk[w].pc # "idle"
      BY <1>4 DEF Crash, AutoRetry, At
    <3> QED
      BY <3>1, BusyExp DEF TaskInOnePlace, WorkersApart, Busy
  <2>2. wk'[w].pc = "idle" /\ \A v \in Workers \ {w} : wk'[v] = wk[v]
    BY <1>4, RestsEffect DEF Crash, AutoRetry, Rests, IdleWorker
  <2>3. \/ \E m : m.exp = e /\ queue' = queue \cup {m} /\ deadLetters' = deadLetters
        \/ queue' = queue /\ deadLetters' = deadLetters \cup {e}
    <3>1. CASE Crash(w)
      BY <2>1, <3>1 DEF Crash, Exp
    <3>2. CASE AutoRetry(w)
      <4>1. [wk[w].msg EXCEPT !.tries = @ + 1].exp = e
        BY <2>1 DEF Messages, Exp
      <4> QED
        BY <3>2, <4>1 DEF AutoRetry
    <3> QED
      BY <1>4, <3>1, <3>2
  <2>4. /\ \A r \in Requests : Unpublished(r) => req[r].exp # e
        /\ \A m \in queue : m.exp # e
        /\ \A v \in Workers \ {w} : Busy(v) => Exp(v) # e
        /\ e \notin deadLetters
    BY <2>1 DEF TaskInOnePlace, UnpublishedApart, MessagesApart, WorkersApart, Busy
  <2>5. \A v \in Workers :
           Busy(v)' => v # w /\ Busy(v) /\ Exp(v)' = Exp(v) /\ wk'[v].held = wk[v].held
    BY <2>2 DEF Busy, Exp
  <2> HIDE DEF e
  <2>6. UnpublishedApart'
    BY <1>2, <2>3, <2>4, <2>5 DEF TaskInOnePlace, UnpublishedApart
  <2>7. MessagesApart'
    BY <2>3, <2>4, <2>5 DEF TaskInOnePlace, MessagesApart
  <2>8. WorkersApart'
    BY <2>3, <2>4, <2>5 DEF TaskInOnePlace, WorkersApart
  <2> QED
    BY <1>1, <2>6, <2>7, <2>8 DEF TaskInOnePlace
<1>5. CASE ~Take(w) /\ ~Crash(w) /\ ~AutoRetry(w)
  <2>1. UNCHANGED <<queue, deadLetters>>
    BY <1>5 DEF WorkerStep, Load, Begin, Announce, Gather, Assemble, Package,
         OpenUpload, Put, Finalize, Stamp, SyncCaseStatus, LogUploaded, CheckGenerated,
         LogGenerated, Finish, Refused, BuildFails, Raise, MarkFailed, LogFailed,
         HandlerRaises, broker
  <2> QED
    BY <1>0, <1>5, <2>1, WorkersKeep, OnePlaceFrame
<1> QED
  BY <1>3, <1>4, <1>5

LEMMA OnePlaceRequeue ==
   ASSUME TypeInv, TaskInOnePlace, NEW e \in Exports, Requeue(e)
   PROVE  TaskInOnePlace'
<1> DEFINE m == [exp |-> e, tries |-> 0, copy |-> 0]
<1>1. UNCHANGED <<req, wk>> /\ queue' = queue \cup {m} /\ deadLetters' = deadLetters \ {e}
  BY DEF Requeue, api
<1>2. m.exp = e /\ e \in deadLetters
  BY DEF Requeue
<1> HIDE DEF m
<1>3. \A w \in Workers : (Busy(w)' <=> Busy(w)) /\ Exp(w)' = Exp(w) /\ wk'[w].held = wk[w].held
  BY <1>1 DEF Busy, Exp
<1>4. \A r \in Requests : (Unpublished(r)' <=> Unpublished(r)) /\ req'[r].exp = req[r].exp
  BY <1>1 DEF Unpublished
<1>5. HandlersApart'
  BY <1>1 DEF TaskInOnePlace, HandlersApart, Outstanding
<1>6. UnpublishedApart'
  BY <1>1, <1>2, <1>3, <1>4 DEF TaskInOnePlace, UnpublishedApart
<1>7. MessagesApart'
  BY <1>1, <1>2, <1>3 DEF TaskInOnePlace, MessagesApart, WorkersApart
<1>8. WorkersApart'
  BY <1>1, <1>3 DEF TaskInOnePlace, WorkersApart
<1> QED
  BY <1>5, <1>6, <1>7, <1>8 DEF TaskInOnePlace
-----------------------------------------------------------------------------
(* What the worker knows. *)

\* A step that touches nothing the worker knows about, but for a "queued".
LEMMA KnowsFrame ==
   ASSUME NEW v \in Workers, WorkerKnows(v), wk'[v] = wk[v],
          row'[Exp(v)].status \in {row[Exp(v)].status, "queued"},
          row'[Exp(v)].s3_key = row[Exp(v)].s3_key,
          vault'[Exp(v)] = vault[Exp(v)], generated'[Exp(v)] = generated[Exp(v)]
   PROVE  WorkerKnows(v)'
<1>1. Exp(v)' = Exp(v)
  BY DEF Exp
<1> QED
  BY <1>1 DEF WorkerKnows

\* A worker leaves the other exports alone.
LEMMA WorkerIsLocal ==
   ASSUME TypeInv, NEW w \in Workers,
          WorkerStep(w) \/ BuildFails(w) \/ HandlerRaises(w) \/ Crash(w)
   PROVE  /\ OtherRowsStay(Exp(w))
          /\ \A f \in Exports \ {Exp(w)} : vault'[f] = vault[f] /\ generated'[f] = generated[f]
<1>1. OtherRowsStay(Exp(w))
  <2>1. CASE UNCHANGED row
    BY <2>1 DEF OtherRowsStay
  <2>2. CASE ~UNCHANGED row
    <3>1. Begin(w) \/ Gather(w) \/ Assemble(w) \/ Package(w) \/ OpenUpload(w) \/ Finalize(w)
             \/ Stamp(w) \/ MarkFailed(w)
      BY <2>2 DEF WorkerStep, Take, Load, Announce, Put, SyncCaseStatus, LogUploaded,
         CheckGenerated, LogGenerated, Finish, Refused, BuildFails, Raise, LogFailed,
         HandlerRaises, AutoRetry, Crash
    <3> QED
      BY <2>2, <3>1, BeginEffect, GatherEffect, AssembleEffect, PackageEffect,
         OpenUploadEffect, FinalizeEffect, StampEffect, MarkFailedEffect
  <2> QED
    BY <2>1, <2>2
<1>2. \A f \in Exports \ {Exp(w)} : vault'[f] = vault[f]
  <2>1. CASE Put(w)
    BY <2>1, PutEffect DEF TypeInv, TypeOK
  <2>2. CASE ~Put(w)
    BY <2>2 DEF WorkerStep, Take, Load, Begin, Announce, Gather, Assemble, Package,
         OpenUpload, Finalize, Stamp, SyncCaseStatus, LogUploaded,
         CheckGenerated, LogGenerated, Finish, Refused, BuildFails, Raise, MarkFailed,
         LogFailed, HandlerRaises, AutoRetry, Crash, store
  <2> QED
    BY <2>1, <2>2
<1>3. \A f \in Exports \ {Exp(w)} : generated'[f] = generated[f]
  <2>1. CASE LogGenerated(w)
    BY <2>1 DEF LogGenerated, TypeInv, TypeOK
  <2>2. CASE ~LogGenerated(w)
    BY <2>2 DEF WorkerStep, Take, Load, Begin, Announce, Gather, Assemble, Package,
         OpenUpload, Put, Finalize, Stamp, SyncCaseStatus, LogUploaded,
         CheckGenerated, Finish, Refused, BuildFails, Raise, MarkFailed,
         LogFailed, HandlerRaises, AutoRetry, Crash, store
  <2> QED
    BY <2>1, <2>2
<1> QED
  BY <1>1, <1>2, <1>3

\* The worker's own steps keep what it knows true.
LEMMA KnowsOwn ==
   ASSUME TypeInv, NamesExist, AttemptInv, StoredInv, NEW w \in Workers,
          Busy(w) => WorkerKnows(w),
          WorkerStep(w) \/ BuildFails(w) \/ HandlerRaises(w) \/ Crash(w),
          Busy(w)'
   PROVE  WorkerKnows(w)'
<1>1. CASE Take(w)
  BY <1>1, TakeEffect DEF WorkerKnows, Begun, Done
<1> SUFFICES ASSUME ~Take(w) PROVE WorkerKnows(w)'
  BY <1>1
<1> DEFINE e == Exp(w)
           st == row[e].status
<1>2. Busy(w) /\ e \in Exports /\ Exp(w)' = e /\ WorkerKnows(w)
  BY WorkersKeep, BusyExp DEF Busy, Exp
<1>3. row[e] \in Rows /\ st \in Statuses /\ row \in [Exports -> Rows]
  BY <1>2 DEF NamesExist, Exists, Busy, TypeInv, TypeOK, Rows
<1>4. Expired \notin Statuses
  BY DEF Expired, Statuses
<1>5. CASE Load(w)
  <2>1. CASE DuplicateWork(e)
    BY <1>2, <1>5, <2>1, LoadEffect
    DEF Load, WorkerKnows, Moves, DuplicateWork, AttemptInv, ProcessingIsOwnAttempt, Begun, Done
  <2>2. CASE ~DuplicateWork(e)
    <3>1. st # "ready"
      BY <1>2, <2>2 DEF DuplicateWork, StoredInv, OfferedPackageIsStored
    <3>2. wk'[w].pc = "begin" /\ wk'[w].seen = st /\ UNCHANGED row
      BY <1>5, <2>2, LoadEffect DEF Load, Moves
    <3> QED
      BY <1>2, <1>3, <3>1, <3>2 DEF WorkerKnows, Begun, Done
  <2> QED
    BY <2>1, <2>2
<1>6. CASE Begin(w)
  <2>1. wk[w].pc = "begin" /\ wk[w].seen \in Statuses /\ st \in {wk[w].seen, "queued"}
    BY <1>2, <1>6 DEF Begin, At, WorkerKnows
  <2>2. Written(w, "processing") \in {"processing", "queued"}
    BY <1>4, <2>1 DEF Written, Seen, Flushed
  <2>3. wk'[w].pc = "announce" /\ row'[e].status = Written(w, "processing")
    BY <1>6, BeginEffect DEF Moves
  <2> QED
    BY <1>2, <2>2, <2>3 DEF WorkerKnows, Begun, Done
<1>7. CASE Announce(w)
  BY <1>2, <1>7, GoToEffect DEF Announce, At, Moves, WorkerKnows, Begun, Done
<1>8. CASE Gather(w) \/ Assemble(w) \/ Package(w) \/ OpenUpload(w)
  <2>1. /\ wk'[w].pc \in Begun \cup {"put"} /\ row'[e].status = "processing"
        /\ wk'[w].pc = "put" => wk'[w].seen = "processing"
    BY <1>8, GatherEffect, AssembleEffect, PackageEffect, OpenUploadEffect DEF Moves, Begun
  <2> QED
    BY <1>2, <2>1 DEF WorkerKnows, Begun, Done
<1>9. CASE Put(w)
  <2>1. wk[w].pc = "put" /\ UNCHANGED row /\ vault \in [Exports -> Nat]
    BY <1>9 DEF Put, At, TypeInv, TypeOK
  <2>2. /\ wk'[w].pc = "finalize" /\ wk'[w].build = wk[w].build /\ wk'[w].seen = wk[w].seen
        /\ vault'[e] = wk[w].build
    BY <1>2, <1>9, <2>1, PutEffect DEF Moves
  <2> QED
    BY <1>2, <2>1, <2>2 DEF WorkerKnows, Begun, Done
<1>10. CASE Finalize(w)
  <2>1. wk[w].pc = "finalize" /\ wk[w].seen = "processing" /\ vault[e] = wk[w].build
    BY <1>2, <1>10 DEF Finalize, At, WorkerKnows
  <2>2. Written(w, "ready") = "ready"
    BY <2>1 DEF Written, Seen, Flushed, Expired
  <2>3. /\ wk'[w].pc = "stamp" /\ wk'[w].build = wk[w].build /\ UNCHANGED vault
        /\ row'[e].status = "ready" /\ row'[e].s3_key
    BY <1>10, <2>2, FinalizeEffect DEF Finalize, Moves, store
  <2> QED
    BY <1>2, <2>1, <2>3 DEF WorkerKnows, Begun, Done
<1>11. CASE Stamp(w)
  <2>1. /\ wk[w].pc = "stamp" /\ wk'[w].pc = "sync"
        /\ row'[e].status = st /\ row'[e].s3_key = row[e].s3_key
    <3>1. row'[e] = [row[e] EXCEPT !.sha = wk[w].build] /\ wk'[w].pc = "sync"
      BY <1>11, StampEffect DEF Moves
    <3>2. row'[e].status = st /\ row'[e].s3_key = row[e].s3_key
      BY <1>3, <3>1 DEF Rows
    <3> QED
      BY <1>11, <3>1, <3>2 DEF Stamp, At
  <2> QED
    BY <1>2, <2>1 DEF WorkerKnows, Begun, Done
<1>12. CASE SyncCaseStatus(w) \/ LogUploaded(w)
  <2>1. /\ wk[w].pc \in Done /\ wk'[w].pc \in {"log_uploaded", "check_generated"}
        /\ UNCHANGED row
    BY <1>12, GoToEffect DEF SyncCaseStatus, LogUploaded, At, Moves, Done
  <2> QED
    BY <1>2, <2>1 DEF WorkerKnows, Begun, Done
<1>13. CASE CheckGenerated(w) \/ LogGenerated(w)
  <2>1. /\ wk[w].pc \in Done /\ wk'[w].pc \in {"log_generated", "finish"}
        /\ wk'[w].pc = "log_generated" => generated[e] = <<>> /\ UNCHANGED generated
        /\ UNCHANGED row
    BY <1>13, GoToEffect DEF CheckGenerated, LogGenerated, At, Moves, Done, store
  <2> QED
    BY <1>2, <2>1 DEF WorkerKnows, Begun, Done
<1>14. CASE Refused(w) \/ BuildFails(w)
  <2>1. wk'[w].pc = "mark_failed" /\ wk'[w].seen = SeenOnRaise(w) /\ UNCHANGED row
    BY <1>14, RaiseEffect DEF Refused, BuildFails, Raise, Moves
  <2>2. SeenOnRaise(w) \in Statuses /\ st \in {SeenOnRaise(w), "queued"}
    BY <1>2, <1>3, <1>4 DEF SeenOnRaise, Seen, WorkerKnows
  <2> QED
    BY <1>2, <2>1, <2>2 DEF WorkerKnows, Begun, Done
<1>15. CASE MarkFailed(w) \/ LogFailed(w) \/ HandlerRaises(w)
  <2>1. wk'[w].pc \in {"log_failed", "retry"}
    BY <1>15, MarkFailedEffect, GoToEffect DEF LogFailed, HandlerRaises, Moves
  <2> QED
    BY <2>1 DEF WorkerKnows, Begun, Done
<1>16. CASE Finish(w) \/ AutoRetry(w) \/ Crash(w)
  BY <1>16, RestsEffect DEF Finish, AutoRetry, Crash, Rests, IdleWorker, Busy
<1> QED
  BY <1>5, <1>6, <1>7, <1>8, <1>9, <1>10, <1>11, <1>12, <1>13, <1>14, <1>15, <1>16 DEF WorkerStep

\* Every worker's knowledge outlives another worker's step: they build
\* different exports.
LEMMA KnowsWorker ==
   ASSUME TypeInv, NamesExist, AttemptInv, StoredInv, TaskInOnePlace, NEW w \in Workers,
          \A v \in Workers : Busy(v) => WorkerKnows(v),
          WorkerStep(w) \/ BuildFails(w) \/ HandlerRaises(w) \/ Crash(w)
   PROVE  \A v \in Workers : Busy(v)' => WorkerKnows(v)'
<1> SUFFICES ASSUME NEW v \in Workers, Busy(v)', v # w PROVE WorkerKnows(v)'
  BY KnowsOwn
<1>1. wk'[v] = wk[v]
  BY WorkersKeep, TakeEffect
<1>2. Busy(v) /\ Exp(v) \in Exports
  BY <1>1, BusyExp DEF Busy
<1>3. CASE Take(w)
  BY <1>1, <1>2, <1>3, KnowsFrame DEF Take, store
<1>4. CASE ~Take(w)
  <2>1. Exp(v) # Exp(w)
    BY <1>2, <1>4, WorkersKeep DEF Busy, TaskInOnePlace, WorkersApart
  <2>2. row'[Exp(v)] = row[Exp(v)] /\ vault'[Exp(v)] = vault[Exp(v)]
        /\ generated'[Exp(v)] = generated[Exp(v)]
    BY <1>2, <2>1, WorkerIsLocal DEF OtherRowsStay
  <2> QED
    BY <1>1, <1>2, <2>2, KnowsFrame
<1> QED
  BY <1>3, <1>4
-----------------------------------------------------------------------------
(* What the row and the events tell. *)

\* The task of an export is with the broker, in a worker or a dead letter.
InHand(e) == \/ \E m \in queue : m.exp = e
             \/ \E w \in Workers : Busy(w) /\ Exp(w) = e
             \/ e \in deadLetters

LEMMA NoTaskLostInHand ==
   NoTaskLost <=> \A e \in Exports : row[e].status = "processing" => InHand(e)
BY DEF NoTaskLost, InHand, Busy

\* Only the end of a build lets go of a task.
LEMMA InHandStays ==
   ASSUME TypeInv, TaskInOnePlace, NEW e \in Exports, InHand(e), NEW w \in Workers,
          WorkerStep(w) \/ BuildFails(w) \/ HandlerRaises(w) \/ Crash(w),
          ~(Finish(w) /\ Exp(w) = e)
   PROVE  InHand(e)'
<1>1. CASE Take(w)
  <2>1. PICK m \in queue :
             /\ queue' = queue \ {m}
             /\ wk'[w].pc = "load" /\ wk'[w].msg = m
             /\ \A v \in Workers \ {w} : wk'[v] = wk[v]
    BY <1>1, TakeEffect
  <2>2. \A v \in Workers : Busy(v) => Busy(v)' /\ Exp(v)' = Exp(v)
    BY <1>1, <2>1 DEF Take, At, Busy, Exp
  <2>3. Busy(w)' /\ Exp(w)' = m.exp /\ UNCHANGED deadLetters
    BY <1>1, <2>1 DEF Take, Busy, Exp
  <2> QED
    BY <2>1, <2>2, <2>3 DEF InHand
<1>2. CASE Crash(w) \/ AutoRetry(w)
  <2>1. wk[w].pc # "idle" /\ wk[w].msg \in Messages /\ wk[w].held
    <3>1. wk[w].pc # "idle"
      BY <1>2 DEF Crash, AutoRetry, At
    <3> QED
      BY <3>1, BusyExp DEF TaskInOnePlace, WorkersApart, Busy
  <2>2. \A v \in Workers \ {w} : wk'[v] = wk[v]
    BY <1>2, RestsEffect DEF Crash, AutoRetry, Rests
  <2>3. \/ \E m : m.exp = Exp(w) /\ queue' = queue \cup {m} /\ deadLetters' = deadLetters
        \/ queue' = queue /\ deadLetters' = deadLetters \cup {Exp(w)}
    <3>1. CASE Crash(w)
      BY <2>1, <3>1 DEF Crash, Exp
    <3>2. CASE AutoRetry(w)
      <4>1. [wk[w].msg EXCEPT !.tries = @ + 1].exp = Exp(w)
        BY <2>1 DEF Messages, Exp
      <4> QED
        BY <3>2, <4>1 DEF AutoRetry
    <3> QED
      BY <1>2, <3>1, <3>2
  <2>4. \A v \in Workers \ {w} : Busy(v) => Busy(v)' /\ Exp(v)' = Exp(v)
    BY <2>2 DEF Busy, Exp
  <2> QED
    BY <2>3, <2>4 DEF InHand
<1>3. CASE ~Take(w) /\ ~Crash(w) /\ ~AutoRetry(w)
  <2>1. UNCHANGED <<queue, deadLetters>>
    BY <1>3 DEF WorkerStep, Load, Begin, Announce, Gather, Assemble, Package,
         OpenUpload, Put, Finalize, Stamp, SyncCaseStatus, LogUploaded, CheckGenerated,
         LogGenerated, Finish, Refused, BuildFails, Raise, MarkFailed, LogFailed,
         HandlerRaises, broker
  <2>2. \A v \in Workers \ {w} : Busy(v) => Busy(v)' /\ Exp(v)' = Exp(v)
    BY <1>3, WorkersKeep DEF Busy, Exp
  <2>3. ~Finish(w) => Busy(w)'
    BY <1>3, WorkersKeep DEF Busy
  <2>4. Busy(w)' => Busy(w) /\ Exp(w)' = Exp(w)
    BY <1>3, WorkersKeep DEF Busy, Exp
  <2> QED
    BY <2>1, <2>2, <2>3, <2>4 DEF InHand
<1> QED
  BY <1>1, <1>2, <1>3

\* A step that leaves the offers and the records of all exports alone and
\* starts no processing.
LEMMA TellsFrame ==
   ASSUME TellsInv, UNCHANGED <<vault, generated>>,
          \A e \in Exports : row'[e].status = "ready" =>
             row[e].status = "ready" /\ row'[e].sha = row[e].sha /\ row'[e].stage = row[e].stage,
          \A e \in Exports : generated[e] # <<>> =>
             (row[e].s3_key => row'[e].s3_key) /\ (Exists(e) => Exists(e)'),
          NoTaskLost'
   PROVE  TellsInv'
BY DEF TellsInv, PackageIntegrity, GeneratedOnce, GeneratedHasRow

LEMMA TellsHandler ==
   ASSUME TypeInv, NamesExist, TellsInv, NEW r \in Requests,
          \/ \E k \in Keys \cup {None} : Submit(r, k)
          \/ \E e \in Exports : SubmitRetry(r, e)
          \/ HandlerStep(r)
          \/ HandlerDies(r)
   PROVE  TellsInv'
<1>1. UNCHANGED <<vault, generated, wk, deadLetters>> /\ queue \subseteq queue'
  BY DEF Submit, SubmitRetry, HandlerStep, HandlerDies, CreateRow, LogRequested, Publish,
         PublishFails, MarkQueued, LogQueued, store, broker
<1>2. \A e \in Exports : InHand(e) => InHand(e)'
  BY <1>1 DEF InHand, Busy, Exp
<1>3. ASSUME \A e \in Exports : row'[e].status = "processing" => row[e].status = "processing"
      PROVE  NoTaskLost'
  <2>1. \A e \in Exports : row'[e].status = "processing" => InHand(e)'
    BY <1>2, <1>3, NoTaskLostInHand DEF TellsInv
  <2> QED
    BY <2>1 DEF NoTaskLost, InHand, Busy
<1>4. CASE UNCHANGED row
  BY <1>1, <1>3, <1>4, TellsFrame DEF Exists
<1>5. CASE CreateRow(r)
  <2>1. PICK e \in Exports : ~Exists(e) /\ OtherRowsStay(e) /\ row'[e].status = "requested"
    BY <1>5, CreateRowEffect
  <2>2. generated[e] = <<>>
    BY <2>1 DEF TellsInv, GeneratedHasRow
  <2> QED
    BY <1>1, <1>3, <2>1, <2>2, TellsFrame DEF OtherRowsStay, Exists
<1>6. CASE MarkQueued(r)
  BY <1>1, <1>3, <1>6, MarkQueuedEffect, TellsFrame
  DEF OtherRowsStay, SameButStatus, Exists, Absent
<1> QED
  BY <1>4, <1>5, <1>6 DEF Submit, SubmitRetry, HandlerStep, HandlerDies, LogRequested, Publish,
         PublishFails, LogQueued

LEMMA TellsWorker ==
   ASSUME TypeInv, NamesExist, StoredInv, TaskInOnePlace, TellsInv, [Next]_vars,
          \A v \in Workers : Busy(v) => WorkerKnows(v),
          NEW w \in Workers,
          WorkerStep(w) \/ BuildFails(w) \/ HandlerRaises(w) \/ Crash(w)
   PROVE  TellsInv'
<1>1. CASE Take(w)
  <2>1. UNCHANGED <<row, vault, generated>>
    BY <1>1 DEF Take, store
  <2>2. \A e \in Exports : InHand(e) => InHand(e)'
    BY <1>1, InHandStays DEF Take, Finish, At
  <2>3. NoTaskLost'
    BY <2>1, <2>2, NoTaskLostInHand DEF TellsInv, NoTaskLost, InHand, Busy
  <2> QED
    BY <2>1, <2>3, TellsFrame DEF Exists
<1>2. CASE ~Take(w)
  <2> DEFINE e == Exp(w)
             st == row[e].status
  <2>1. Busy(w) /\ e \in Exports /\ WorkerKnows(w)
    BY <1>2, WorkersKeep, BusyExp DEF Busy
  <2>2. row[e] \in Rows /\ st \in Statuses /\ row \in [Exports -> Rows]
    BY <2>1 DEF NamesExist, Exists, Busy, TypeInv, TypeOK, Rows
  <2>3. \A f \in Exports \ {e} :
           row'[f] = row[f] /\ vault'[f] = vault[f] /\ generated'[f] = generated[f]
    BY WorkerIsLocal DEF OtherRowsStay
  <2>4. NoTaskLost'
    <3>1. SUFFICES ASSUME NEW f \in Exports, row'[f].status = "processing"
                   PROVE  InHand(f)'
      BY DEF NoTaskLost, InHand, Busy
    <3>2. CASE f # e
      BY <2>3, <3>1, <3>2, NoTaskLostInHand, InHandStays DEF TellsInv
    <3>3. CASE f = e /\ Finish(w)
      BY <2>1, <3>1, <3>3 DEF Finish, At, WorkerKnows
    <3>4. CASE f = e /\ ~Finish(w)
      <4>1. InHand(f)
        BY <2>1, <3>4 DEF InHand
      <4> QED
        BY <3>4, <4>1, InHandStays
    <3> QED
      BY <3>2, <3>3, <3>4
  <2>5. row'[e].status = "ready" =>
           row'[e].sha = vault'[e] /\ row'[e].stage = "ready_for_download"
    <3>1. CASE Begin(w)
      <4>1. wk[w].seen \in Statuses \ {"ready"} /\ st \in {wk[w].seen, "queued"}
        BY <2>1, <3>1 DEF Begin, At, WorkerKnows
      <4>2. Written(w, "processing") # "ready"
        BY <4>1 DEF Written, Seen, Flushed, Expired
      <4> QED
        BY <3>1, <4>2, BeginEffect
    <3>2. CASE Gather(w) \/ Assemble(w) \/ Package(w) \/ OpenUpload(w)
      BY <3>2, GatherEffect, AssembleEffect, PackageEffect, OpenUploadEffect
    <3>3. CASE Put(w)
      BY <2>1, <3>3 DEF Put, At, WorkerKnows
    <3>4. CASE Finalize(w)
      <4>1. vault[e] = wk[w].build /\ UNCHANGED vault
        BY <2>1, <3>4 DEF Finalize, At, WorkerKnows, store
      <4> QED
        BY <3>4, <4>1, FinalizeEffect
    <3>5. CASE Stamp(w)
      <4>1. vault[e] = wk[w].build /\ UNCHANGED vault
        BY <2>1, <3>5 DEF Stamp, At, WorkerKnows, store
      <4>2. row'[e] = [row[e] EXCEPT !.sha = wk[w].build]
        BY <3>5, StampEffect
      <4>3. /\ row'[e].status = st /\ row'[e].stage = row[e].stage
            /\ row'[e].sha = wk[w].build
        BY <2>2, <4>2 DEF Rows
      <4> QED
        BY <2>1, <4>1, <4>3 DEF TellsInv, PackageIntegrity
    <3>6. CASE MarkFailed(w)
      <4>1. wk[w].seen \in Statuses /\ st \in {wk[w].seen, "queued"} /\ UNCHANGED vault
        BY <2>1, <3>6 DEF MarkFailed, At, WorkerKnows, store
      <4>2. Written(w, "failed") # "ready"
        BY <4>1 DEF Written, Seen, Flushed, Expired, Statuses
      <4> QED
        BY <2>1, <3>6, <4>1, <4>2, MarkFailedEffect DEF TellsInv, PackageIntegrity
    <3>7. CASE UNCHANGED <<row, vault>>
      BY <2>1, <3>7 DEF TellsInv, PackageIntegrity
    <3> QED
      BY <1>2, <3>1, <3>2, <3>3, <3>4, <3>5, <3>6, <3>7
      DEF WorkerStep, Load, Announce, SyncCaseStatus, LogUploaded,
         CheckGenerated, LogGenerated, Finish, Refused, BuildFails, Raise, LogFailed,
         HandlerRaises, AutoRetry, Crash, store
  <2>6. PackageIntegrity'
    BY <2>3, <2>5 DEF TellsInv, PackageIntegrity
  <2>7. Len(generated'[e]) <= 1 /\ (generated'[e] # <<>> => row'[e].s3_key /\ row'[e].status # Absent)
    <3>1. row'[e].status # Absent
      <4>1. \A f \in Exports : Exists(f) => row'[f].status # Absent
        BY RowsStay DEF Exists
      <4> QED
        BY <2>1, <4>1 DEF NamesExist, Busy
    <3>2. row[e].s3_key => row'[e].s3_key
      <4>1. CASE UNCHANGED row
        BY <4>1
      <4>2. CASE Stamp(w)
        BY <2>2, <4>2, StampEffect DEF Rows
      <4>3. CASE ~UNCHANGED row /\ ~Stamp(w)
        <5>1. Begin(w) \/ Gather(w) \/ Assemble(w) \/ Package(w) \/ OpenUpload(w) \/ Finalize(w)
              \/ MarkFailed(w)
          BY <4>3 DEF WorkerStep, Take, Load, Announce, Put, SyncCaseStatus, LogUploaded,
             CheckGenerated, LogGenerated, Finish, Refused, BuildFails, Raise, LogFailed,
             HandlerRaises, AutoRetry, Crash
        <5> QED
          BY <4>3, <5>1, BeginEffect, GatherEffect, AssembleEffect, PackageEffect,
             OpenUploadEffect, FinalizeEffect, MarkFailedEffect DEF SameButStatus
      <4> QED
        BY <4>1, <4>2, <4>3
    <3>3. CASE LogGenerated(w)
      <4>1. wk[w].build \in Nat
        BY DEF TypeInv, TypeOK, WorkerStates
      <4>2. /\ generated[e] = <<>> /\ row[e].s3_key
            /\ generated'[e] = Append(<<>>, wk[w].build)
        BY <2>1, <3>3 DEF LogGenerated, At, WorkerKnows, Done, TypeInv, TypeOK
      <4>3. Len(generated'[e]) = 1
        BY <4>1, <4>2
      <4> QED
        BY <3>1, <3>2, <4>2, <4>3
    <3>4. CASE UNCHANGED generated
      BY <2>1, <3>1, <3>2, <3>4 DEF TellsInv, GeneratedOnce
    <3> QED
      BY <3>3, <3>4
      DEF WorkerStep, Take, Load, Begin, Announce, Gather, Assemble, Package,
         OpenUpload, Put, Finalize, Stamp, SyncCaseStatus, LogUploaded,
         CheckGenerated, Finish, Refused, BuildFails, Raise, MarkFailed,
         LogFailed, HandlerRaises, AutoRetry, Crash, store
  <2>8. GeneratedOnce'
    BY <2>3, <2>7 DEF TellsInv, GeneratedOnce
  <2>9. GeneratedHasRow'
    BY <2>3, <2>7 DEF TellsInv, GeneratedHasRow, Exists
  <2> QED
    BY <2>4, <2>6, <2>8, <2>9 DEF TellsInv
<1> QED
  BY <1>1, <1>2

LEMMA KnowsHandler ==
   ASSUME TypeInv, NamesExist, NEW r \in Requests,
          \A v \in Workers : Busy(v) => WorkerKnows(v),
          \/ \E k \in Keys \cup {None} : Submit(r, k)
          \/ \E e \in Exports : SubmitRetry(r, e)
          \/ HandlerStep(r)
          \/ HandlerDies(r)
   PROVE  \A v \in Workers : Busy(v)' => WorkerKnows(v)'
<1>1. UNCHANGED <<vault, generated, wk>>
  BY DEF Submit, SubmitRetry, HandlerStep, HandlerDies, CreateRow, LogRequested, Publish,
         PublishFails, MarkQueued, LogQueued, store
<1> SUFFICES ASSUME NEW v \in Workers, Busy(v)' PROVE WorkerKnows(v)'
  OBVIOUS
<1>2. Busy(v) /\ Exp(v) \in Exports /\ Exists(Exp(v))
  BY <1>1, BusyExp DEF Busy, NamesExist
<1>3. CASE UNCHANGED row
  BY <1>1, <1>2, <1>3, KnowsFrame
<1>4. CASE CreateRow(r)
  BY <1>1, <1>2, <1>4, CreateRowEffect, KnowsFrame DEF OtherRowsStay
<1>5. CASE MarkQueued(r)
  BY <1>1, <1>2, <1>5, MarkQueuedEffect, KnowsFrame DEF OtherRowsStay, SameButStatus
<1> QED
  BY <1>3, <1>4, <1>5 DEF Submit, SubmitRetry, HandlerStep, HandlerDies, LogRequested, Publish,
         PublishFails, LogQueued

LEMMA SoleRequeue ==
   ASSUME TypeInv, SoleInv, NEW e \in Exports, Requeue(e)
   PROVE  SoleInv'
<1>1. UNCHANGED <<row, vault, generated, wk>>
  BY DEF Requeue, store
<1>2. TaskInOnePlace'
  BY OnePlaceRequeue DEF SoleInv
<1>3. \A v \in Workers : Busy(v)' => WorkerKnows(v)'
  BY <1>1, KnowsFrame DEF SoleInv, Busy
<1>4. ASSUME NEW f \in Exports, InHand(f) PROVE InHand(f)'
  <2> DEFINE m == [exp |-> e, tries |-> 0, copy |-> 0]
  <2>1. m.exp = e /\ queue' = queue \cup {m} /\ deadLetters' = deadLetters \ {e}
    BY DEF Requeue
  <2> HIDE DEF m
  <2>2. \A w \in Workers : (Busy(w)' <=> Busy(w)) /\ Exp(w)' = Exp(w)
    BY <1>1 DEF Busy, Exp
  <2> QED
    BY <1>4, <2>1, <2>2 DEF InHand
<1>5. NoTaskLost'
  BY <1>1, <1>4, NoTaskLostInHand DEF SoleInv, TellsInv, NoTaskLost, InHand, Busy
<1>6. TellsInv'
  BY <1>1, <1>5, TellsFrame DEF SoleInv, Exists
<1> QED
  BY <1>2, <1>3, <1>6 DEF SoleInv

Context == TypeInv /\ NamesExist /\ AttemptInv /\ StoredInv

\* copies only grows, and a step that leaves it 0 repeats no delivery.
LEMMA SoleBefore ==
   ASSUME TypeInv, [Next]_vars, copies' = 0
   PROVE  copies = 0 /\ \A w \in Workers : ~Redeliver(w)
<1>1. \A w \in Workers : ~Redeliver(w)
  BY DEF Redeliver, TypeInv, TypeOK
<1>2. UNCHANGED copies
  BY <1>1 DEF Next, WorkerStep, HandlerStep, Submit, SubmitRetry, CreateRow, LogRequested,
     Publish, PublishFails, MarkQueued, LogQueued, HandlerDies, Take, Load, Begin, Announce,
     Gather, Assemble, Package, OpenUpload, Put, Finalize, Stamp, SyncCaseStatus, LogUploaded,
     CheckGenerated, LogGenerated, Finish, Refused, BuildFails, Raise, MarkFailed, LogFailed,
     HandlerRaises, AutoRetry, Crash, Requeue, broker, vars
<1> QED
  BY <1>1, <1>2

LEMMA SoleStep ==
   Context /\ (copies = 0 => SoleInv) /\ [Next]_vars => (copies = 0 => SoleInv)'
<1> SUFFICES ASSUME Context, copies = 0 => SoleInv, [Next]_vars, copies' = 0
             PROVE  SoleInv'
  OBVIOUS
<1>1. SoleInv /\ \A w \in Workers : ~Redeliver(w)
  BY SoleBefore DEF Context
<1>2. ASSUME NEW r \in Requests,
             \/ \E k \in Keys \cup {None} : Submit(r, k)
             \/ \E e \in Exports : SubmitRetry(r, e)
             \/ HandlerStep(r)
             \/ HandlerDies(r)
      PROVE  SoleInv'
  BY <1>1, <1>2, OnePlaceHandler, KnowsHandler, TellsHandler DEF SoleInv, Context
<1>3. ASSUME NEW w \in Workers, WorkerStep(w) \/ BuildFails(w) \/ HandlerRaises(w) \/ Crash(w)
      PROVE  SoleInv'
  BY <1>1, <1>3, OnePlaceWorker, KnowsWorker, TellsWorker DEF SoleInv, Context
<1>4. ASSUME NEW e \in Exports, Requeue(e) PROVE SoleInv'
  BY <1>1, <1>4, SoleRequeue DEF Context
<1>5. CASE UNCHANGED vars
  <2>1. TaskInOnePlace'
    BY <1>1, <1>5, OnePlaceFrame DEF SoleInv, vars
  <2>2. \A v \in Workers : Busy(v)' => WorkerKnows(v)'
    BY <1>1, <1>5, KnowsFrame DEF SoleInv, vars, Busy
  <2>3. TellsInv'
    BY <1>1, <1>5, TellsFrame DEF SoleInv, TellsInv, vars, NoTaskLost, Exp, Exists
  <2> QED
    BY <2>1, <2>2, <2>3 DEF SoleInv
<1> QED
  BY <1>1, <1>2, <1>3, <1>4, <1>5 DEF Next

LEMMA SoleInit == Init => Context /\ SoleInv
<1> SUFFICES ASSUME Init PROVE Context /\ SoleInv
  OBVIOUS
<1>1. TypeInv
  BY TypeInit
<1>2. NamesExist /\ AttemptInv /\ StoredInv
  BY DEF Init, NamesExist, AttemptInv, ProcessingIsOwnAttempt, StoredInv,
         OfferedPackageIsStored, NoRow, Absent, IdleWorker, IdleHandler, Begun, Built
<1>3. TaskInOnePlace
  BY DEF Init, TaskInOnePlace, HandlersApart, UnpublishedApart, MessagesApart, WorkersApart,
         IdleHandler, IdleWorker, Outstanding, Unpublished, Busy
<1>4. \A w \in Workers : Busy(w) => WorkerKnows(w)
  BY DEF Init, IdleWorker, Busy
<1>5. TellsInv
  <2>1. \A e \in Exports : row[e].status = Absent /\ generated[e] = <<>>
    BY DEF Init, NoRow
  <2>2. Len(<<>>) = 0
    OBVIOUS
  <2> QED
    BY <2>1, <2>2 DEF TellsInv, PackageIntegrity, GeneratedOnce, GeneratedHasRow, NoTaskLost,
                      Absent
<1> QED
  BY <1>1, <1>2, <1>3, <1>4, <1>5 DEF Context, SoleInv

LEMMA AlwaysContext == Spec => []Context
<1>1. Context /\ [Next]_vars => Context'
  BY TypeStep, NamesStep, AttemptStep, StoredStep DEF Context
<1> QED
  BY <1>1, SoleInit, PTL DEF Spec

LEMMA AlwaysSole == Spec => [](copies = 0 => SoleInv)
BY AlwaysContext, SoleInit, SoleStep, PTL DEF Spec

\* As long as the broker delivers a task to one worker at a time, the digest in
\* a ready row is that of the stored package and the stage says it can be
\* downloaded, whatever crashes, retries, requeues and late writes happen.
THEOREM PackageIsIntact == Spec => [](copies = 0 => PackageIntegrity)
<1>1. SoleInv => PackageIntegrity
  BY DEF SoleInv, TellsInv
<1> QED
  BY <1>1, AlwaysSole, PTL

\* As long as the broker delivers a task to one worker at a time, _emit_once
\* records EXPORT_GENERATED at most once per export, and never without an upload.
THEOREM GeneratedIsOnce == Spec => [](copies = 0 => GeneratedOnce)
<1>1. SoleInv => GeneratedOnce
  BY DEF SoleInv, TellsInv
<1> QED
  BY <1>1, AlwaysSole, PTL

\* As long as the broker delivers a task to one worker at a time, an export
\* that is being processed has its task in the broker, in a worker or among
\* the dead letters, however often workers are lost.
THEOREM TaskIsKept == Spec => [](copies = 0 => NoTaskLost)
<1>1. SoleInv => NoTaskLost
  BY DEF SoleInv, TellsInv
<1> QED
  BY <1>1, AlwaysSole, PTL
-----------------------------------------------------------------------------
(* The lifecycle that clients rely on, step by step. *)

Late(e) == \E r \in Requests : Outstanding(r) /\ req[r].exp = e

\* The worker's steps: the outcome of pending work, or nothing to be seen.
LEMMA PhaseWorker ==
   ASSUME Context, SoleInv, NEW w \in Workers,
          WorkerStep(w) \/ BuildFails(w) \/ HandlerRaises(w) \/ Crash(w)
   PROVE  \/ \A f \in Exports : PhaseOf(row'[f].status) = PhaseOf(row[f].status)
          \/ \E e \in Exports :
                /\ PhaseOf(row[e].status) = "pending"
                /\ PhaseOf(row'[e].status) \in {"ready", "failed"}
                /\ \A f \in Exports \ {e} : row'[f] = row[f]
<1>0. TypeInv
  BY DEF Context
<1>1. CASE UNCHANGED row
  BY <1>1
<1> SUFFICES ASSUME ~UNCHANGED row
             PROVE  \/ \A f \in Exports : PhaseOf(row'[f].status) = PhaseOf(row[f].status)
                    \/ \E e \in Exports :
                          /\ PhaseOf(row[e].status) = "pending"
                          /\ PhaseOf(row'[e].status) \in {"ready", "failed"}
                          /\ \A f \in Exports \ {e} : row'[f] = row[f]
  BY <1>1
<1>2. Begin(w) \/ Gather(w) \/ Assemble(w) \/ Package(w) \/ OpenUpload(w) \/ Finalize(w)
             \/ Stamp(w) \/ MarkFailed(w)
  BY DEF WorkerStep, Take, Load, Announce, Put, SyncCaseStatus, LogUploaded,
     CheckGenerated, LogGenerated, Finish, Refused, BuildFails, Raise, LogFailed,
     HandlerRaises, AutoRetry, Crash
<1>3. wk[w].pc # "idle"
  BY <1>2 DEF Begin, Gather, Assemble, Package, OpenUpload, Finalize, Stamp, MarkFailed, At
<1>4. PICK e \in Exports : e = Exp(w)
  BY <1>0, <1>3, BusyExp
<1> DEFINE st == row[e].status
           st2 == row'[e].status
<1>5. WorkerKnows(w) /\ row[e] \in Rows /\ st \in Statuses
  BY <1>0, <1>3, <1>4 DEF SoleInv, Busy, Context, NamesExist, Exists, TypeInv, TypeOK, Rows
<1>6. \A f \in Exports \ {e} : row'[f] = row[f]
  BY <1>0, <1>4, WorkerIsLocal DEF OtherRowsStay
<1>7. CASE Begin(w)
  <2>1. wk[w].seen \in Statuses /\ st \in {wk[w].seen, "queued"}
        /\ ValidTransition(wk[w].seen, "processing")
    BY <1>4, <1>5, <1>7 DEF Begin, At, WorkerKnows, Seen, Expired, Statuses
  <2>2. wk[w].seen \in {"requested", "queued", "processing"}
    BY <2>1 DEF ValidTransition, ExportAllowedTransitions, Statuses
  <2>3. st2 \in {"processing", "queued"}
    BY <1>0, <1>4, <1>7, <2>1, BeginEffect DEF Written, Seen, Flushed, Expired, Statuses
  <2> QED
    BY <1>6, <2>1, <2>2, <2>3 DEF PhaseOf, Absent
<1>8. CASE Gather(w) \/ Assemble(w) \/ Package(w) \/ OpenUpload(w)
  <2>1. st \in {"processing", "queued"}
    BY <1>4, <1>5, <1>8 DEF Gather, Assemble, Package, OpenUpload, At, WorkerKnows, Begun
  <2>2. st2 = "processing"
    BY <1>0, <1>4, <1>8, GatherEffect, AssembleEffect, PackageEffect, OpenUploadEffect
  <2> QED
    BY <1>6, <2>1, <2>2 DEF PhaseOf, Absent
<1>9. CASE Finalize(w)
  <2>1. st \in {"processing", "queued"} /\ wk[w].seen = "processing"
    BY <1>4, <1>5, <1>9 DEF Finalize, At, WorkerKnows
  <2>2. st2 = "ready"
    BY <1>0, <1>4, <1>9, <2>1, FinalizeEffect DEF Written, Seen, Flushed, Expired
  <2> QED
    BY <1>6, <2>1, <2>2 DEF PhaseOf, Absent
<1>10. CASE Stamp(w)
  <2>1. row'[e] = [row[e] EXCEPT !.sha = wk[w].build]
    BY <1>0, <1>4, <1>10, StampEffect
  <2>2. st2 = st
    BY <1>5, <2>1 DEF Rows
  <2> QED
    BY <1>6, <2>2
<1>11. CASE MarkFailed(w)
  <2>1. wk[w].seen \in Statuses /\ st \in {wk[w].seen, "queued"}
        /\ ValidTransition(wk[w].seen, "failed")
    BY <1>4, <1>5, <1>11 DEF MarkFailed, At, WorkerKnows, Seen, Expired, Statuses
  <2>2. wk[w].seen \in {"requested", "queued", "processing", "failed"}
    BY <2>1 DEF ValidTransition, ExportAllowedTransitions, Statuses
  <2>3. st2 = IF wk[w].seen = "failed" THEN st ELSE "failed"
    BY <1>0, <1>4, <1>11, <2>1, MarkFailedEffect DEF Written, Seen, Flushed, Expired, Statuses
  <2> QED
    BY <1>6, <2>1, <2>2, <2>3 DEF PhaseOf, Absent
<1> QED
  BY <1>2, <1>7, <1>8, <1>9, <1>10, <1>11

\* A handler that leaves the row alone: its late write is still to come, or
\* it is not.
LEMMA LateHandler ==
   ASSUME TypeInv, NEW r \in Requests, UNCHANGED row,
          \A s \in Requests \ {r} : req'[s] = req[s],
          Outstanding(r)' => Outstanding(r) /\ req'[r].exp = req[r].exp,
          \A s \in Requests :
             Outstanding(r) /\ Outstanding(s) /\ req[r].exp = req[s].exp => r = s,
          Outstanding(r) => req[r].exp \in Exports
   PROVE  [EL!Next]_(EL!vars)
<1> DEFINE ph == [e \in Exports |-> PhaseOf(row[e].status)]
           lt == [e \in Exports |-> Late(e)]
<1>1. \A s \in Requests \ {r} :
         (Outstanding(s)' <=> Outstanding(s)) /\ req'[s].exp = req[s].exp
  BY DEF Outstanding
<1>2. ph' = ph
  OBVIOUS
<1>3. CASE Outstanding(r)' <=> Outstanding(r)
  <2>1. \A e \in Exports : Late(e)' <=> Late(e)
    BY <1>1, <1>3 DEF Late
  <2>2. lt' = lt
    BY <2>1 DEF Late
  <2> QED
    BY <1>2, <2>2 DEF EL!vars, Late
<1>4. CASE Outstanding(r) /\ ~Outstanding(r)'
  <2>1. PICK e \in Exports : e = req[r].exp
    BY <1>4
  <2>2. Late(e)
    BY <1>4, <2>1 DEF Late
  <2>4. \A f \in Exports : (\E s \in Requests : Outstanding(s)' /\ req'[s].exp = f)
                              <=> (\E s \in Requests : Outstanding(s) /\ req[s].exp = f) /\ f # e
    BY <1>1, <1>4, <2>1
  <2>5. lt' = [lt EXCEPT ![e] = FALSE]
    BY <2>1, <2>4 DEF Late
  <2>6. lt[e] = TRUE
    BY <2>1, <2>2
  <2>7. EL!Forget(e)
    BY <1>2, <2>5, <2>6 DEF EL!Forget, Late
  <2> QED
    BY <2>1, <2>7 DEF EL!Next
<1> QED
  BY <1>3, <1>4

LEMMA LifecycleHandler ==
   ASSUME Context, SoleInv, NEW r \in Requests,
          \/ \E k \in Keys \cup {None} : Submit(r, k)
          \/ \E e \in Exports : SubmitRetry(r, e)
          \/ HandlerStep(r)
          \/ HandlerDies(r)
   PROVE  [EL!Next]_(EL!vars)
<1> DEFINE ph == [e \in Exports |-> PhaseOf(row[e].status)]
           lt == [e \in Exports |-> Late(e)]
<1>0. TypeInv /\ NamesExist
  BY DEF Context
<1>1. /\ \A s \in Requests :
             Outstanding(r) /\ Outstanding(s) /\ req[r].exp = req[s].exp => r = s
      /\ Outstanding(r) => req[r].exp \in Exports
  BY <1>0 DEF SoleInv, TaskInOnePlace, HandlersApart, TypeInv, HandlerHasRow, Outstanding
<1>2. CASE \/ \E k \in Keys \cup {None} : Submit(r, k)
           \/ \E e \in Exports : SubmitRetry(r, e)
  <2>1. /\ UNCHANGED row
        /\ req'[r].pc \in {"create", "done", "error"}
        /\ \A s \in Requests \ {r} : req'[s] = req[s]
    BY <1>0, <1>2, SubmitEffect, SubmitRetryEffect DEF Submit, SubmitRetry
  <2>2. ~Outstanding(r)'
    BY <2>1 DEF Outstanding
  <2> QED
    BY <1>0, <1>1, <2>1, <2>2, LateHandler
<1>3. CASE LogRequested(r) \/ Publish(r) \/ PublishFails(r) \/ LogQueued(r) \/ HandlerDies(r)
  <2>1. UNCHANGED row
    BY <1>3 DEF LogRequested, Publish, PublishFails, LogQueued, HandlerDies
  <2>2. /\ req'[r].exp = req[r].exp
        /\ \A s \in Requests \ {r} : req'[s] = req[s]
    BY <1>0, <1>3, HandlerEffect
    DEF LogRequested, Publish, PublishFails, LogQueued, HandlerDies, Advance
  <2>3. Outstanding(r)' => Outstanding(r)
    BY <1>0, <1>3, HandlerEffect
    DEF LogRequested, Publish, PublishFails, LogQueued, HandlerDies, Advance, Outstanding
  <2> QED
    BY <1>0, <1>1, <2>1, <2>2, <2>3, LateHandler
<1>4. CASE CreateRow(r)
  <2>1. PICK e \in Exports :
             /\ ~Exists(e)
             /\ OtherRowsStay(e)
             /\ row'[e].status = "requested"
             /\ req'[r].exp = e /\ req'[r].pc = "announce"
             /\ \A s \in Requests \ {r} : req'[s] = req[s]
    BY <1>0, <1>4, CreateRowEffect
  <2>2. ~Outstanding(r)
    BY <1>4 DEF CreateRow, Outstanding
  <2>3. \A f \in Exports : (\E s \in Requests : Outstanding(s)' /\ req'[s].exp = f)
                              <=> (\E s \in Requests : Outstanding(s) /\ req[s].exp = f) \/ f = e
    BY <2>1, <2>2 DEF Outstanding
  <2>4. lt' = [lt EXCEPT ![e] = TRUE]
    BY <2>3 DEF Late
  <2>5. ph[e] = "none" /\ PhaseOf(row'[e].status) = "pending"
    BY <2>1 DEF PhaseOf, Exists, Absent
  <2>6. ph' = [ph EXCEPT ![e] = "pending"]
    BY <2>1, <2>5 DEF OtherRowsStay
  <2>7. EL!Accept(e)
    BY <2>4, <2>5, <2>6 DEF EL!Accept, Late
  <2> QED
    BY <2>7 DEF EL!Next
<1>5. CASE MarkQueued(r)
  <2>1. Outstanding(r) /\ req[r].exp \in Exports
    BY <1>1, <1>5 DEF MarkQueued, Advance, Outstanding
  <2>2. PICK e \in Exports : e = req[r].exp
    BY <2>1
  <2>3. /\ req'[r].pc = "log_queued"
        /\ \A s \in Requests \ {r} : req'[s] = req[s]
    BY <1>0, <1>5, HandlerEffect DEF MarkQueued, Advance
  <2>4. \A f \in Exports : (\E s \in Requests : Outstanding(s)' /\ req'[s].exp = f)
                              <=> (\E s \in Requests : Outstanding(s) /\ req[s].exp = f) /\ f # e
    BY <1>1, <2>1, <2>2, <2>3 DEF Outstanding
  <2>5. lt' = [lt EXCEPT ![e] = FALSE]
    BY <2>4 DEF Late
  <2>6. lt[e] = TRUE
    BY <2>1, <2>2 DEF Late
  <2>7. OtherRowsStay(e) /\ row'[e].status = "queued"
    BY <1>0, <1>5, <2>2, MarkQueuedEffect
  <2>8. PhaseOf(row'[e].status) = "pending"
    BY <2>7 DEF PhaseOf, Absent
  <2>9. ph' = [ph EXCEPT ![e] = "pending"]
    BY <2>7, <2>8 DEF OtherRowsStay
  <2>10. EL!Acknowledge(e)
    BY <2>5, <2>6, <2>9 DEF EL!Acknowledge, Late
  <2> QED
    BY <2>10 DEF EL!Next
<1> QED
  BY <1>2, <1>3, <1>4, <1>5 DEF HandlerStep

LEMMA LifecycleWorker ==
   ASSUME Context, SoleInv, NEW w \in Workers,
          WorkerStep(w) \/ BuildFails(w) \/ HandlerRaises(w) \/ Crash(w)
   PROVE  [EL!Next]_(EL!vars)
<1> DEFINE ph == [e \in Exports |-> PhaseOf(row[e].status)]
           lt == [e \in Exports |-> Late(e)]
<1>1. UNCHANGED req
  BY DEF WorkerStep, Take, Load, Begin, Announce, Gather, Assemble, Package,
         OpenUpload, Put, Finalize, Stamp, SyncCaseStatus, LogUploaded, CheckGenerated,
         LogGenerated, Finish, Refused, BuildFails, Raise, MarkFailed, LogFailed,
         HandlerRaises, AutoRetry, Crash, api
<1>2. lt' = lt
  BY <1>1 DEF Late, Outstanding
<1>3. CASE \A f \in Exports : PhaseOf(row'[f].status) = PhaseOf(row[f].status)
  <2>1. ph' = ph
    BY <1>3
  <2> QED
    BY <1>2, <2>1 DEF EL!vars, Late
<1>4. CASE \E e \in Exports :
                /\ PhaseOf(row[e].status) = "pending"
                /\ PhaseOf(row'[e].status) \in {"ready", "failed"}
                /\ \A f \in Exports \ {e} : row'[f] = row[f]
  <2>1. PICK e \in Exports :
                /\ PhaseOf(row[e].status) = "pending"
                /\ PhaseOf(row'[e].status) \in {"ready", "failed"}
                /\ \A f \in Exports \ {e} : row'[f] = row[f]
    BY <1>4
  <2>2. PICK outcome \in {"ready", "failed"} : PhaseOf(row'[e].status) = outcome
    BY <2>1
  <2>3. ph' = [ph EXCEPT ![e] = outcome] /\ ph[e] = "pending"
    <3>1. \A f \in Exports \ {e} : PhaseOf(row'[f].status) = PhaseOf(row[f].status)
      BY <2>1
    <3> QED
      BY <2>1, <2>2, <3>1
  <2>4. EL!Complete(e)
    BY <1>2, <2>3 DEF EL!Complete, Late
  <2> QED
    BY <2>4 DEF EL!Next
<1> QED
  BY <1>3, <1>4, PhaseWorker

\* A step of the pipeline that repeats no delivery is a step of the lifecycle
\* or leaves it unchanged.
LEMMA LifecycleStep ==
   Context /\ SoleInv /\ [Next]_vars /\ (copies = 0)' => [EL!Next]_(EL!vars)
<1> SUFFICES ASSUME Context, SoleInv, [Next]_vars, copies' = 0
             PROVE  [EL!Next]_(EL!vars)
  OBVIOUS
<1>1. \A w \in Workers : ~Redeliver(w)
  BY SoleBefore DEF Context
<1>2. CASE UNCHANGED <<row, req>>
  BY <1>2 DEF EL!vars, Outstanding
<1>3. ASSUME NEW e \in Exports, Requeue(e) PROVE UNCHANGED <<row, req>>
  BY <1>3 DEF Requeue, api
<1> QED
  BY <1>1, <1>2, <1>3, LifecycleHandler, LifecycleWorker DEF Next, vars

\* As long as the broker delivers a task to one worker at a time, the pipeline
\* implements ExportLifecycle: each step of a handler, a worker or an operator
\* is a step of a client-visible lifecycle in which an outcome is final but
\* for the request handler's own late write.
THEOREM LifecycleIsImplemented == Spec /\ [](copies = 0) => ImplementsLifecycle
<1>1. Init => EL!Init
  <2> SUFFICES ASSUME Init PROVE EL!Init
    OBVIOUS
  <2>1. \A e \in Exports : PhaseOf(row[e].status) = "none"
    BY DEF Init, NoRow, PhaseOf, Absent
  <2>2. \A r \in Requests : ~Outstanding(r)
    BY DEF Init, IdleHandler, Outstanding
  <2> QED
    BY <2>1, <2>2 DEF EL!Init
<1> QED
  BY <1>1, AlwaysContext, AlwaysSole, LifecycleStep, PTL DEF Spec, ImplementsLifecycle, EL!Spec
=============================================================================
