------------------------------ MODULE CaseProofs ------------------------------
(***************************************************************************)
(* Theorems about CaseWorkflow and UploadQueue, which both build on        *)
(* CaseReadiness: for any operators and roles, any finite set of artifacts *)
(* and of items, and any statuses and owners that are asked for.           *)
(*                                                                         *)
(* The case desk comes first.  What a request may do was checked against   *)
(* the row it has read: the invariant Typed keeps with every request what  *)
(* that check has found.  A commit then writes what was checked, over the  *)
(* row as it is by now.  The upload queue follows, with invariants of its  *)
(* own.                                                                    *)
(***************************************************************************)
EXTENDS CaseWorkflow, UploadQueue, SequenceTheorems, FiniteSetTheorems, TLAPS

People == Users \cup {Nobody}
CaseRows == [status : Statuses, owner : People, by : People, stored : {"none", "exported"}]
TaskRows == [status : {"open", "completed", "canceled"}, finisher : People, canceller : People,
             assignee : People, assigner : People]
NoteRows == [author : People, editor : People, deleter : People, deleted : BOOLEAN]

Pcs == {"idle", "write", "artifacts", "events", "exports", "create", "log", "over"}
Deeds == {"none", "move", "own", "sync", "set", "assign", "complete", "cancel", "edit", "delete",
          "export"}
Aims == Statuses \cup {"open", "completed", "canceled"} \cup People
Kinds == {"created", "audit", "status_changed", "escalated", "closed", "reopened", "reassigned",
          "completed", "canceled", "edited", "deleted", "export_requested", "publish",
          "export_queued"}

\* What the request for an export has read so far, when it is about to read its
\* artifacts, its events and its exports, and to create the export.
ArtifactsNext == [status : Statuses]
EventsNext == [status : Statuses, artifacts : [Artifacts -> ArtifactStatuses]]
ExportsNext == [status : Statuses, artifacts : [Artifacts -> ArtifactStatuses],
                collected : BOOLEAN, validated : BOOLEAN, exported : BOOLEAN]
AllRead == [status : Statuses, artifacts : [Artifacts -> ArtifactStatuses],
            collected : BOOLEAN, validated : BOOLEAN, exported : BOOLEAN,
            ready : BOOLEAN, requested : BOOLEAN]
Readings == ArtifactsNext \cup EventsNext \cup ExportsNext \cup AllRead

RequestRecords ==
   [pc : Pcs, user : People, op : [do : Deeds, to : Aims],
    read : {Absent} \cup CaseRows \cup TaskRows \cup NoteRows \cup Readings, left : Seq(Kinds)]

EvidenceRecords ==
   [artifacts : [Artifacts -> ArtifactStatuses], collected : BOOLEAN, validated : BOOLEAN,
    exported : BOOLEAN, ready : BOOLEAN, requested : BOOLEAN]

\* What a request about to write was checked for.
MayWriteCase(r, x) ==
   /\ x.read \in CaseRows
   /\ \/ x.op.do = "sync" /\ x.read.status = "ready_for_export"
      \/ x.op.do = "own" /\ x.op.to \in People /\ x.user \in Users
      \/ /\ x.op.do = "move" /\ x.op.to \in Statuses /\ r # Worker
         /\ MayMove(x.user, x.read.status, x.op.to)

MayWriteTask(x) ==
   /\ x.read \in TaskRows /\ row \in TaskRows /\ x.user \in Users
   /\ \/ x.op.do = "set" /\ x.op.to \in {"open", "completed", "canceled"}
                         /\ TaskTransition(x.read.status, x.op.to)
      \/ x.op.do = "assign" /\ x.op.to \in Users
      \/ x.op.do = "complete" /\ TaskTransition(x.read.status, "completed")
      \/ x.op.do = "cancel" /\ TaskTransition(x.read.status, "canceled")

MayWriteNote(x) ==
   /\ x.read \in NoteRows /\ row \in NoteRows /\ x.user \in Users
   /\ \/ x.op.do = "edit" /\ ~x.read.deleted
      \/ x.op.do = "delete"

Admitted(r, x) ==
   /\ x.pc = "write" =>
         /\ table = "case" => MayWriteCase(r, x)
         /\ table = "task" => MayWriteTask(x)
         /\ table = "note" => MayWriteNote(x)
   /\ x.pc = "artifacts" => x.read \in ArtifactsNext
   /\ x.pc = "events" => x.read \in EventsNext
   /\ x.pc = "exports" => x.read \in ExportsNext /\ (x.read.validated => evidence.validated)
   /\ x.pc = "create" => /\ x.read \in AllRead
                         /\ x.read.validated => evidence.validated
                         /\ x.read.ready => evidence.ready

RowTyped ==
   /\ table \in Tables
   /\ table = "case" => row \in CaseRows
   /\ table = "task" => row \in TaskRows \cup {Absent}
   /\ table = "note" => row \in NoteRows \cup {Absent}

Typed ==
   /\ RowTyped
   /\ request \in [Requests -> RequestRecords]
   /\ \A r \in Requests : Admitted(r, request[r])
   /\ evidence \in EvidenceRecords
   /\ overtaken \in BOOLEAN

\* A kind among the entries a request has not logged yet.
IsLeft(k, x) == \E i \in 1..Len(x.left) : x.left[i] = k

\* What is told, or is about to be told, of the end of a task.
EndIsTold(k) ==
   (k \in log \/ \E r \in Requests : IsLeft(k, request[r])) => Exists /\ row.status = k

Paired(one, other) == one = Nobody <=> other = Nobody

StoryInv ==
   ~overtaken =>
      /\ table = "case" => Paired(row.owner, row.by)
      /\ table = "task" =>
            /\ Exists =>
                  /\ row.status = "completed" <=> row.finisher # Nobody
                  /\ row.status = "canceled" <=> row.canceller # Nobody
                  /\ Paired(row.assignee, row.assigner)
            /\ EndIsTold("completed") /\ EndIsTold("canceled")
      /\ (table = "note" /\ Exists) => (row.deleted <=> row.deleter # Nobody)

\* What a request appends after the notice of its move.
OtherKinds == Kinds \ {"status_changed"}

\* A notice still to be written is that of the last move, or its request moved
\* the case before the last move did.
TrailInv ==
   /\ TrailTellsStatus
   /\ lastMove = NoMove \/ (table = "case" /\ lastMove.by \in Requests)
   /\ \A r \in Requests : Owes(r) =>
         /\ (r = lastMove.by /\ Op(r).to = lastMove.to) \/ r \in lastMove.behind
         /\ Tail(request[r].left) \in Seq(OtherKinds)

-----------------------------------------------------------------------------
(* Names. *)

LEMMA Names ==
   /\ Nobody \notin Users /\ Owners \subseteq Users
   /\ Met \subseteq Statuses /\ Targets \subseteq Statuses /\ IsFiniteSet(Artifacts)
BY CaseAssumption

LEMMA RowKinds ==
   /\ Absent \notin CaseRows /\ Absent \notin TaskRows /\ Absent \notin NoteRows
   /\ \A w \in CaseRows : DOMAIN w = {"status", "owner", "by", "stored"}
   /\ \A w \in TaskRows : DOMAIN w = {"status", "finisher", "canceller", "assignee", "assigner"}
   /\ \A w \in NoteRows : DOMAIN w = {"author", "editor", "deleter", "deleted"}
<1>1. DOMAIN Absent = {"absent"}
  BY DEF Absent
<1>2. \A w \in CaseRows : DOMAIN w = {"status", "owner", "by", "stored"}
  BY DEF CaseRows
<1>3. \A w \in TaskRows : DOMAIN w = {"status", "finisher", "canceller", "assignee", "assigner"}
  BY DEF TaskRows
<1>4. \A w \in NoteRows : DOMAIN w = {"author", "editor", "deleter", "deleted"}
  BY DEF NoteRows
<1>5. "status" # "absent" /\ "author" # "absent"
  OBVIOUS
<1> HIDE DEF Absent
<1>6. Absent \notin CaseRows /\ Absent \notin TaskRows /\ Absent \notin NoteRows
  <2>1. "status" \notin DOMAIN Absent /\ "author" \notin DOMAIN Absent
    BY <1>1, <1>5
  <2> QED
    BY <1>2, <1>3, <1>4, <2>1
<1> QED
  BY <1>2, <1>3, <1>4, <1>6

LEMMA CaseRowOf ==
   ASSUME NEW w, w = [c \in {"status", "owner", "by", "stored"} |-> w[c]],
          w.status \in Statuses, w.owner \in People, w.by \in People,
          w.stored \in {"none", "exported"}
   PROVE  w \in CaseRows
BY DEF CaseRows

LEMMA TaskRowOf ==
   ASSUME NEW w,
          w = [c \in {"status", "finisher", "canceller", "assignee", "assigner"} |-> w[c]],
          w.status \in {"open", "completed", "canceled"}, w.finisher \in People,
          w.canceller \in People, w.assignee \in People, w.assigner \in People
   PROVE  w \in TaskRows
BY DEF TaskRows

LEMMA NoteRowOf ==
   ASSUME NEW w, w = [c \in {"author", "editor", "deleter", "deleted"} |-> w[c]],
          w.author \in People, w.editor \in People, w.deleter \in People, w.deleted \in BOOLEAN
   PROVE  w \in NoteRows
BY DEF NoteRows

LEMMA IdleFacts ==
   /\ Idle \in RequestRecords /\ Idle.pc = "idle" /\ Idle.left = <<>>
   /\ Idle.read = Absent /\ Idle.user = Nobody
<1>1. [do |-> "none", to |-> Nobody] \in [do : Deeds, to : Aims]
  BY DEF Deeds, Aims, People
<1>2. <<>> \in Seq(Kinds)
  OBVIOUS
<1> QED
  BY <1>1, <1>2 DEF Idle, RequestRecords, Pcs, People

\* The handler of a request.
LEMMA Handles ==
   ASSUME NEW u, NEW op, NEW read, NEW reread
   PROVE  /\ op.do = "move" => Handler(u, op, read, reread) = PatchStatus(u, op.to, read)
          /\ op.do = "own" => Handler(u, op, read, reread) = PatchOwner(u, op.to, read)
          /\ op.do = "sync" => Handler(u, op, read, reread) = SyncAfterExport(read)
          /\ op.do \in {"set", "assign"} => Handler(u, op, read, reread) = PatchTask(u, op, read, reread)
          /\ op.do = "complete" => Handler(u, op, read, reread) = CompleteTask(u, read)
          /\ op.do = "cancel" => Handler(u, op, read, reread) = CancelTask(u, read)
          /\ op.do = "edit" => Handler(u, op, read, reread) = EditNote(u, read)
          /\ op.do = "delete" => Handler(u, op, read, reread) = DeleteNote(u, read)
BY DEF Handler

\* The entries of a handler, a sequence whichever conditions hold.
LEMMA WhenFacts ==
   ASSUME NEW S, NEW condition, NEW entries \in Seq(S)
   PROVE  When(condition, entries) \in Seq(S)
<1>1. <<>> \in Seq(S)
  OBVIOUS
<1> QED
  BY <1>1 DEF When

LEMMA StatusLog ==
   ASSUME NEW u, NEW to, NEW read
   PROVE  LET log_ == PatchStatus(u, to, read).log
          IN /\ log_ \in Seq(Kinds) /\ log_ # <<>> /\ Head(log_) = "status_changed"
             /\ Tail(log_) \in Seq(OtherKinds)
<1> DEFINE e == When(to = "escalated", <<"escalated">>)
           c == When(to = "closed", <<"closed">>)
           o == When(read.status = "closed" /\ to # "closed", <<"reopened">>)
<1>1. /\ <<"escalated">> \in Seq(OtherKinds) /\ <<"closed">> \in Seq(OtherKinds)
      /\ <<"reopened">> \in Seq(OtherKinds) /\ <<"audit">> \in Seq(OtherKinds)
  BY DEF Kinds, OtherKinds
<1>2. \A condition : \A s \in Seq(OtherKinds) : When(condition, s) \in Seq(OtherKinds)
  BY WhenFacts
<1>3. e \in Seq(OtherKinds) /\ c \in Seq(OtherKinds) /\ o \in Seq(OtherKinds)
  BY <1>1, <1>2
<1>4. PatchStatus(u, to, read).log = <<"status_changed">> \o e \o c \o o \o <<"audit">>
  BY DEF PatchStatus
<1> HIDE DEF e, c, o
<1>5. PICK rest \in Seq(OtherKinds) : PatchStatus(u, to, read).log = <<"status_changed">> \o rest
  <2>1. /\ <<"status_changed">> \in Seq(Kinds) /\ e \in Seq(Kinds) /\ c \in Seq(Kinds)
        /\ o \in Seq(Kinds) /\ <<"audit">> \in Seq(Kinds)
    BY <1>3 DEF Kinds, OtherKinds
  <2>2. <<"status_changed">> \o e \o c \o o \o <<"audit">>
          = <<"status_changed">> \o (e \o c \o o \o <<"audit">>)
    BY <2>1
  <2>3. e \o c \o o \o <<"audit">> \in Seq(OtherKinds)
    BY <1>1, <1>3
  <2> QED
    BY <1>4, <2>2, <2>3
<1>6. "status_changed" \in Kinds /\ rest \in Seq(Kinds)
  BY DEF Kinds, OtherKinds
<1>7. PICK all \in Seq(Kinds) : all = <<"status_changed">> \o rest
  <2>1. <<"status_changed">> \in Seq(Kinds)
    BY <1>6
  <2>2. <<"status_changed">> \o rest \in Seq(Kinds)
    BY <1>6, <2>1
  <2> QED
    BY <2>2
<1>8. all # <<>> /\ Head(all) = "status_changed" /\ Tail(all) = rest
  <2>1. Len(all) = 1 + Len(rest) /\ all[1] = "status_changed"
    BY <1>6, <1>7
  <2>2. Len(all) # 0
    BY <2>1
  <2>3. Tail(all) = rest
    BY <1>6, <1>7, <2>1
  <2> QED
    BY <2>1, <2>2, <2>3
<1> QED
  BY <1>5, <1>7, <1>8

LEMMA TaskLog ==
   ASSUME NEW u, NEW op, NEW read, NEW reread
   PROVE  /\ PatchTask(u, op, read, reread).log \in Seq({"audit", "reassigned"})
          /\ PatchTask(u, op, read, reread).log \in Seq(Kinds)
          /\ PatchTask(u, op, read, reread).log \in Seq(OtherKinds)
<1>1. ASSUME NEW S, "audit" \in S, "reassigned" \in S
      PROVE  PatchTask(u, op, read, reread).log \in Seq(S)
  <2>1. <<"audit", "reassigned">> \in Seq(S) /\ <<"audit">> \in Seq(S)
    BY <1>1
  <2>2. \A s, t \in Seq(S) : s \o t \in Seq(S)
    OBVIOUS
  <2>3. \A condition : \A s \in Seq(S) : When(condition, s) \in Seq(S)
    BY WhenFacts
  <2> QED
    BY <2>1, <2>2, <2>3 DEF PatchTask
<1> QED
  BY <1>1 DEF Kinds, OtherKinds

LEMMA NoteLog ==
   ASSUME NEW u, NEW read
   PROVE  /\ EditNote(u, read).log \in Seq(Kinds) /\ EditNote(u, read).log \in Seq(OtherKinds)
          /\ DeleteNote(u, read).log \in Seq(Kinds) /\ DeleteNote(u, read).log \in Seq(OtherKinds)
<1>1. /\ <<"edited", "audit">> \in Seq(Kinds) /\ <<"edited", "audit">> \in Seq(OtherKinds)
      /\ <<"deleted", "audit">> \in Seq(Kinds) /\ <<"deleted", "audit">> \in Seq(OtherKinds)
  BY DEF Kinds, OtherKinds
<1> QED
  BY <1>1, WhenFacts DEF EditNote, DeleteNote

-----------------------------------------------------------------------------
(* The life of a request. *)

RequestBecomes(r, y) == y \in RequestRecords /\ request' = [request EXCEPT ![r] = y]

LEMMA EndEffect ==
   ASSUME NEW r, End(r)
   PROVE  \E y : RequestBecomes(r, y) /\ y.pc = "over" /\ y.left = <<>>
<1>1. PICK i \in RequestRecords : i = Idle
  BY IdleFacts
<1> DEFINE y == [i EXCEPT !.pc = "over"]
<1>2. y \in RequestRecords /\ y.pc = "over" /\ y.left = i.left
  BY DEF RequestRecords, Pcs
<1>3. request' = [request EXCEPT ![r] = y]
  BY <1>1 DEF End
<1> HIDE DEF y
<1> QED
  BY <1>1, <1>2, <1>3, IdleFacts DEF RequestBecomes

LEMMA AdmitEffect ==
   ASSUME NEW r, NEW u \in People, NEW op \in [do : Deeds, to : Aims], NEW pc \in Pcs,
          NEW columns \in CaseRows \cup TaskRows \cup NoteRows \cup Readings, Admit(r, u, op, pc, columns)
   PROVE  \E y : /\ RequestBecomes(r, y) /\ y.pc = pc /\ y.left = <<>>
                 /\ y.user = u /\ y.op = op /\ y.read = columns
<1>1. PICK i \in RequestRecords : i = Idle
  BY IdleFacts
<1> DEFINE y == [i EXCEPT !.pc = pc, !.user = u, !.op = op, !.read = columns]
<1>2. /\ y \in RequestRecords /\ y.pc = pc /\ y.left = i.left
      /\ y.user = u /\ y.op = op /\ y.read = columns
  BY DEF RequestRecords
<1>3. request' = [request EXCEPT ![r] = y]
  BY <1>1 DEF Admit
<1> HIDE DEF y
<1>4. /\ RequestBecomes(r, y) /\ y.pc = pc /\ y.left = <<>>
      /\ y.user = u /\ y.op = op /\ y.read = columns
  BY <1>1, <1>2, <1>3, IdleFacts DEF RequestBecomes
<1> QED
  BY <1>4

LEMMA LogEffect ==
   ASSUME NEW r, NEW left \in Seq(Kinds),
          request' = [request EXCEPT ![r] = [Idle EXCEPT !.pc = "log", !.left = left]]
   PROVE  \E y : RequestBecomes(r, y) /\ y.pc = "log" /\ y.left = left
<1>1. PICK i \in RequestRecords : i = Idle
  BY IdleFacts
<1> DEFINE y == [i EXCEPT !.pc = "log", !.left = left]
<1>2. y \in RequestRecords /\ y.pc = "log" /\ y.left = left
  BY DEF RequestRecords, Pcs
<1>3. request' = [request EXCEPT ![r] = y]
  BY <1>1
<1> HIDE DEF y
<1> QED
  BY <1>2, <1>3 DEF RequestBecomes

LEMMA Replaced ==
   ASSUME Typed, NEW r \in Requests, NEW y, RequestBecomes(r, y)
   PROVE  /\ request' \in [Requests -> RequestRecords]
          /\ request'[r] = y
          /\ \A s \in Requests : s # r => request'[s] = request[s]
BY DEF Typed, RequestBecomes

\* What the requests under way have found goes on to hold.
Stays ==
   /\ table' = table
   /\ row \in TaskRows => row' \in TaskRows
   /\ row \in NoteRows => row' \in NoteRows
   /\ evidence.validated => evidence'.validated
   /\ evidence.ready => evidence'.ready

LEMMA AdmittedStill ==
   ASSUME NEW r, NEW x, Admitted(r, x), Stays PROVE Admitted(r, x)'
BY DEF Admitted, Stays, MayWriteCase, MayWriteTask, MayWriteNote

LEMMA RequestStep ==
   ASSUME Typed, NEW r \in Requests, NEW y, RequestBecomes(r, y), Admitted(r, y)', Stays,
          RowTyped', evidence' \in EvidenceRecords, overtaken' \in BOOLEAN
   PROVE  Typed'
<1>1. /\ request' \in [Requests -> RequestRecords]
      /\ request'[r] = y
      /\ \A s \in Requests : s # r => request'[s] = request[s]
  BY Replaced
<1>2. ASSUME NEW s \in Requests PROVE Admitted(s, request[s])'
  <2>1. CASE s = r
    BY <1>1, <2>1 DEF Admitted, MayWriteCase, MayWriteTask, MayWriteNote
  <2>2. CASE s # r
    <3>1. PICK x : x = request[s] /\ Admitted(s, x)
      BY DEF Typed
    <3>2. Admitted(s, x)' /\ request'[s] = x
      BY <1>1, <2>2, <3>1, AdmittedStill
    <3> QED
      BY <3>2 DEF Admitted, MayWriteCase, MayWriteTask, MayWriteNote
  <2> QED
    BY <2>1, <2>2
<1> QED
  BY <1>1, <1>2 DEF Typed

LEMMA EvidenceFacts ==
   ASSUME Typed
   PROVE  /\ evidence.artifacts \in [Artifacts -> ArtifactStatuses]
          /\ evidence.validated \in BOOLEAN /\ evidence.ready \in BOOLEAN
BY DEF Typed, EvidenceRecords

-----------------------------------------------------------------------------
(* What a commit writes. *)

\* A column, of the row as it is by now.
Merged(x, set, c) == IF c \in DOMAIN set /\ set[c] # x.read[c] THEN set[c] ELSE row[c]

LEMMA WrittenColumns ==
   ASSUME NEW r, NEW u, NEW op, NEW set, NEW x, x = request[r], x.user = u, x.op = op,
          Handler(u, op, x.read, x.read).set = set
   PROVE  Written(r) = [c \in DOMAIN row |-> Merged(x, set, c)]
BY DEF Written, Columns, Op, Merged

\* A commit keeps what is asked for a move only.
KeptOp(x) == IF x.op.do = "move" THEN x.op ELSE Idle.op

LEMMA KeptOps == ASSUME NEW x \in RequestRecords PROVE KeptOp(x) \in [do : Deeds, to : Aims]
BY IdleFacts DEF KeptOp, RequestRecords

\* What the creation of an export leaves to log.
ExportLeft == <<"export_requested", "publish", "export_queued">>

\* A request's notice is the next thing it will append.
Owing(y) == y.pc = "log" /\ y.left # <<>> /\ Head(y.left) = "status_changed"

LEMMA NotOwing == ASSUME NEW y, y.left \in Seq(OtherKinds) PROVE ~Owing(y)
<1>1. "status_changed" \notin OtherKinds
  BY DEF OtherKinds
<1>2. y.left # <<>> => Head(y.left) \in OtherKinds
  OBVIOUS
<1> QED
  BY <1>1, <1>2 DEF Owing

LEMMA QuietEntries ==
   ASSUME NEW y, y.left = <<>> \/ y.left = <<"created", "audit">> \/ y.left = ExportLeft
   PROVE  ~Owing(y)
<1>1. <<>> \in Seq(OtherKinds) /\ <<"created", "audit">> \in Seq(OtherKinds)
      /\ ExportLeft \in Seq(OtherKinds)
  BY DEF OtherKinds, Kinds, ExportLeft
<1> QED
  BY <1>1, NotOwing

\* What a move leaves to its request, and another commit to its.
Keeps(x, y) ==
   IF x.op.do = "move" THEN Owing(y) /\ y.op = x.op /\ Tail(y.left) \in Seq(OtherKinds)
   ELSE ~Owing(y)

LEMMA CaseCommit ==
   ASSUME Typed, NEW r \in Requests, Commit(r), table = "case"
   PROVE  LET x == request[r]
          IN /\ MayWriteCase(r, x) /\ row \in CaseRows /\ row' \in CaseRows
             /\ \E y : RequestBecomes(r, y) /\ y.pc = "log" /\ Keeps(x, y)
             /\ x.op.do = "move" =>
                   /\ Columns(r).status = x.op.to
                   /\ row'.status = IF x.op.to # x.read.status THEN x.op.to ELSE row.status
                   /\ row'.owner = row.owner /\ row'.by = row.by
             /\ x.op.do = "sync" =>
                   /\ Columns(r).status = "exported" /\ row'.status = "exported"
                   /\ row'.owner = row.owner /\ row'.by = row.by
             /\ x.op.do = "own" =>
                   LET by == IF x.op.to = Nobody THEN Nobody ELSE x.user
                   IN /\ row'.status = row.status
                      /\ row'.owner = IF x.op.to # x.read.owner THEN x.op.to ELSE row.owner
                      /\ row'.by = IF by # x.read.by THEN by ELSE row.by
<1>1. PICK x \in RequestRecords : x = request[r] /\ MayWriteCase(r, x)
  BY DEF Typed, Commit, At, Admitted
<1>2. row \in CaseRows /\ x.read \in CaseRows /\ DOMAIN row = {"status", "owner", "by", "stored"}
  BY <1>1, RowKinds DEF Typed, RowTyped, MayWriteCase
<1> DEFINE L == Handler(x.user, x.op, x.read, Written(r)).log
           z == [Idle EXCEPT !.pc = "log", !.op = KeptOp(x), !.left = L]
<1>3. row' = Written(r) /\ request' = [request EXCEPT ![r] = z]
  BY <1>1 DEF Commit, Op, KeptOp
<1> HIDE DEF L, z
<1>8. ASSUME L \in Seq(Kinds)
      PROVE  RequestBecomes(r, z) /\ z.pc = "log" /\ z.op = KeptOp(x) /\ z.left = L
  <2>1. PICK i \in RequestRecords : i = Idle
    BY IdleFacts
  <2>2. KeptOp(x) \in [do : Deeds, to : Aims]
    BY KeptOps
  <2>3. z \in RequestRecords /\ z.pc = "log" /\ z.op = KeptOp(x) /\ z.left = L
    BY <1>8, <2>1, <2>2 DEF z, RequestRecords, Pcs
  <2> QED
    BY <1>3, <2>3 DEF RequestBecomes
<1> DEFINE S == {"status", "owner", "by", "stored"}
<1>4. CASE x.op.do = "move"
  <2> DEFINE set == [status |-> x.op.to]
  <2>1. Handler(x.user, x.op, x.read, x.read).set = set
    BY <1>4, Handles DEF PatchStatus
  <2>2. Columns(r).status = x.op.to
    BY <1>1, <2>1 DEF Columns, Op
  <2>3. row' = [c \in S |-> Merged(x, set, c)]
    BY <1>1, <1>2, <1>3, <2>1, WrittenColumns
  <2>4. /\ Merged(x, set, "status") = IF x.op.to # x.read.status THEN x.op.to ELSE row.status
        /\ Merged(x, set, "owner") = row.owner /\ Merged(x, set, "by") = row.by
        /\ Merged(x, set, "stored") = row.stored
    BY DEF Merged
  <2> HIDE DEF set
  <2>5. /\ row'.status = IF x.op.to # x.read.status THEN x.op.to ELSE row.status
        /\ row'.owner = row.owner /\ row'.by = row.by /\ row'.stored = row.stored
    BY <2>3, <2>4
  <2>6. x.op.to \in Statuses
    BY <1>1, <1>4 DEF MayWriteCase
  <2>7. row' \in CaseRows
    <3>1. row.status \in Statuses /\ row.owner \in People /\ row.by \in People /\ row.stored \in {"none", "exported"}
      BY <1>2 DEF CaseRows
    <3> QED
      BY <2>3, <2>5, <2>6, <3>1, CaseRowOf
  <2>8. \E y : RequestBecomes(r, y) /\ y.pc = "log" /\ Keeps(x, y)
    <3>1. /\ L \in Seq(Kinds) /\ L # <<>> /\ Head(L) = "status_changed"
          /\ Tail(L) \in Seq(OtherKinds)
      BY <1>4, Handles, StatusLog DEF L
    <3>2. Keeps(x, z)
      BY <1>8, <1>4, <3>1 DEF Keeps, Owing, KeptOp
    <3> QED
      BY <1>8, <3>1, <3>2
  <2> QED
    BY <1>1, <1>2, <1>4, <2>2, <2>5, <2>7, <2>8
<1>5. CASE x.op.do = "sync"
  <2> DEFINE set == [status |-> "exported", stored |-> "exported"]
  <2>1. Handler(x.user, x.op, x.read, x.read).set = set
    BY <1>5, Handles DEF SyncAfterExport
  <2>2. Columns(r).status = "exported"
    BY <1>1, <2>1 DEF Columns, Op
  <2>3. row' = [c \in S |-> Merged(x, set, c)]
    BY <1>1, <1>2, <1>3, <2>1, WrittenColumns
  <2>4. x.read.status = "ready_for_export"
    BY <1>1, <1>5 DEF MayWriteCase
  <2>5. /\ Merged(x, set, "status") = "exported"
        /\ Merged(x, set, "owner") = row.owner /\ Merged(x, set, "by") = row.by
        /\ Merged(x, set, "stored") \in {"exported", row.stored}
    BY <2>4 DEF Merged
  <2> HIDE DEF set
  <2>6. /\ row'.status = "exported" /\ row'.owner = row.owner /\ row'.by = row.by
        /\ row'.stored \in {"exported", row.stored}
    BY <2>3, <2>5
  <2>7. row' \in CaseRows
    <3>1. row.owner \in People /\ row.by \in People /\ row.stored \in {"none", "exported"}
      BY <1>2 DEF CaseRows
    <3>2. "exported" \in Statuses
      BY DEF Statuses
    <3> QED
      BY <2>3, <2>6, <3>1, <3>2, CaseRowOf
  <2>8. \E y : RequestBecomes(r, y) /\ y.pc = "log" /\ Keeps(x, y)
    <3>1. L = <<>> /\ <<>> \in Seq(Kinds) /\ <<>> \in Seq(OtherKinds)
      BY <1>5, Handles DEF L, SyncAfterExport
    <3>2. Keeps(x, z)
      BY <1>8, <1>5, <3>1, NotOwing DEF Keeps
    <3> QED
      BY <1>8, <3>1, <3>2
  <2> QED
    BY <1>1, <1>2, <1>5, <2>2, <2>6, <2>7, <2>8
<1>6. CASE x.op.do = "own"
  <2> DEFINE by == IF x.op.to = Nobody THEN Nobody ELSE x.user
             set == [owner |-> x.op.to, by |-> by]
  <2>1. Handler(x.user, x.op, x.read, x.read).set = set
    BY <1>6, Handles DEF PatchOwner
  <2>2. x.op.to \in People /\ by \in People
    BY <1>1, <1>6 DEF MayWriteCase, People
  <2> HIDE DEF by
  <2>3. row' = [c \in S |-> Merged(x, set, c)]
    BY <1>1, <1>2, <1>3, <2>1, WrittenColumns
  <2>4. /\ Merged(x, set, "status") = row.status /\ Merged(x, set, "stored") = row.stored
        /\ Merged(x, set, "owner") = IF x.op.to # x.read.owner THEN x.op.to ELSE row.owner
        /\ Merged(x, set, "by") = IF by # x.read.by THEN by ELSE row.by
    BY DEF Merged
  <2> HIDE DEF set
  <2>5. /\ row'.status = row.status /\ row'.stored = row.stored
        /\ row'.owner = IF x.op.to # x.read.owner THEN x.op.to ELSE row.owner
        /\ row'.by = IF by # x.read.by THEN by ELSE row.by
    BY <2>3, <2>4
  <2>6. row' \in CaseRows
    <3>1. row.status \in Statuses /\ row.owner \in People /\ row.by \in People /\ row.stored \in {"none", "exported"}
      BY <1>2 DEF CaseRows
    <3> QED
      BY <2>2, <2>3, <2>5, <3>1, CaseRowOf
  <2>7. \E y : RequestBecomes(r, y) /\ y.pc = "log" /\ Keeps(x, y)
    <3>1. L = <<"audit">> /\ <<"audit">> \in Seq(Kinds) /\ <<"audit">> \in Seq(OtherKinds)
      BY <1>6, Handles DEF L, PatchOwner, Kinds, OtherKinds
    <3>2. Keeps(x, z)
      BY <1>8, <1>6, <3>1, NotOwing DEF Keeps
    <3> QED
      BY <1>8, <3>1, <3>2
  <2> QED
    BY <1>1, <1>2, <1>6, <2>5, <2>6, <2>7 DEF by
<1> QED
  BY <1>1, <1>4, <1>5, <1>6 DEF MayWriteCase

LEMMA NoteCommit ==
   ASSUME Typed, NEW r \in Requests, Commit(r), table = "note"
   PROVE  LET x == request[r]
          IN /\ MayWriteNote(x) /\ row' \in NoteRows
             /\ \E y : RequestBecomes(r, y) /\ y.pc = "log" /\ Keeps(x, y)
             /\ x.op.do = "edit" =>
                   /\ ~x.read.deleted
                   /\ row'.deleted = row.deleted /\ row'.deleter = row.deleter
             /\ x.op.do = "delete" =>
                   /\ row'.editor = row.editor
                   /\ x.read.deleted => row'.deleted = row.deleted /\ row'.deleter = row.deleter
                   /\ ~x.read.deleted =>
                         /\ row'.deleted = TRUE
                         /\ row'.deleter = IF x.user # x.read.deleter THEN x.user ELSE row.deleter
<1>1. PICK x \in RequestRecords : x = request[r] /\ MayWriteNote(x)
  BY DEF Typed, Commit, At, Admitted
<1>2. row \in NoteRows /\ x.read \in NoteRows /\ DOMAIN row = {"author", "editor", "deleter", "deleted"}
  BY <1>1, RowKinds DEF MayWriteNote
<1> DEFINE L == Handler(x.user, x.op, x.read, Written(r)).log
           z == [Idle EXCEPT !.pc = "log", !.op = KeptOp(x), !.left = L]
<1>3. row' = Written(r) /\ request' = [request EXCEPT ![r] = z]
  BY <1>1 DEF Commit, Op, KeptOp
<1> HIDE DEF L, z
<1>8. ASSUME L \in Seq(Kinds)
      PROVE  RequestBecomes(r, z) /\ z.pc = "log" /\ z.op = KeptOp(x) /\ z.left = L
  <2>1. PICK i \in RequestRecords : i = Idle
    BY IdleFacts
  <2>2. KeptOp(x) \in [do : Deeds, to : Aims]
    BY KeptOps
  <2>3. z \in RequestRecords /\ z.pc = "log" /\ z.op = KeptOp(x) /\ z.left = L
    BY <1>8, <2>1, <2>2 DEF z, RequestRecords, Pcs
  <2> QED
    BY <1>3, <2>3 DEF RequestBecomes
<1>4. /\ row.author \in People /\ row.editor \in People /\ row.deleter \in People /\ row.deleted \in BOOLEAN
      /\ x.user \in People
  BY <1>2 DEF NoteRows, RequestRecords
<1> DEFINE S == {"author", "editor", "deleter", "deleted"}
<1>5. CASE x.op.do = "edit"
  <2> DEFINE set == [editor |-> x.user]
  <2>1. Handler(x.user, x.op, x.read, x.read).set = set
    BY <1>5, Handles DEF EditNote
  <2>2. row' = [c \in S |-> Merged(x, set, c)]
    BY <1>1, <1>2, <1>3, <2>1, WrittenColumns
  <2>3. /\ Merged(x, set, "author") = row.author /\ Merged(x, set, "deleter") = row.deleter
        /\ Merged(x, set, "deleted") = row.deleted
        /\ Merged(x, set, "editor") \in {x.user, row.editor}
    BY DEF Merged
  <2> HIDE DEF set
  <2>4. /\ row'.author = row.author /\ row'.deleter = row.deleter /\ row'.deleted = row.deleted
        /\ row'.editor \in {x.user, row.editor}
    BY <2>2, <2>3
  <2>5. row' \in NoteRows
    BY <1>4, <2>2, <2>4, NoteRowOf
  <2>6. \E y : RequestBecomes(r, y) /\ y.pc = "log" /\ Keeps(x, y)
    <3>1. L \in Seq(Kinds) /\ L \in Seq(OtherKinds)
      BY <1>5, Handles, NoteLog DEF L
    <3>2. Keeps(x, z)
      BY <1>8, <1>5, <3>1, NotOwing DEF Keeps
    <3> QED
      BY <1>8, <3>1, <3>2
  <2> QED
    BY <1>1, <1>5, <2>4, <2>5, <2>6 DEF MayWriteNote
<1>6. CASE x.op.do = "delete"
  <2> DEFINE set == IF x.read.deleted THEN Nothing ELSE [deleted |-> TRUE, deleter |-> x.user]
  <2>1. Handler(x.user, x.op, x.read, x.read).set = set
    <3>1. Handler(x.user, x.op, x.read, x.read) = DeleteNote(x.user, x.read)
      BY <1>6, Handles
    <3> QED
      BY <3>1 DEF DeleteNote
  <2>2. row' = [c \in S |-> Merged(x, set, c)]
    BY <1>1, <1>2, <1>3, <2>1, WrittenColumns
  <2>3. x.read.deleted \in BOOLEAN
    BY <1>2 DEF NoteRows
  <2>4. /\ Merged(x, set, "author") = row.author /\ Merged(x, set, "editor") = row.editor
        /\ x.read.deleted => Merged(x, set, "deleter") = row.deleter /\ Merged(x, set, "deleted") = row.deleted
        /\ ~x.read.deleted =>
              /\ Merged(x, set, "deleted") = TRUE
              /\ Merged(x, set, "deleter") = IF x.user # x.read.deleter THEN x.user ELSE row.deleter
    <3>1. CASE x.read.deleted
      BY <3>1 DEF Merged, Nothing
    <3>2. CASE ~x.read.deleted
      BY <2>3, <3>2 DEF Merged
    <3> QED
      BY <3>1, <3>2
  <2> HIDE DEF set
  <2>5. /\ row'.author = row.author /\ row'.editor = row.editor
        /\ x.read.deleted => row'.deleter = row.deleter /\ row'.deleted = row.deleted
        /\ ~x.read.deleted =>
              /\ row'.deleted = TRUE
              /\ row'.deleter = IF x.user # x.read.deleter THEN x.user ELSE row.deleter
    BY <2>2, <2>4
  <2>6. row' \in NoteRows
    BY <1>4, <2>2, <2>5, NoteRowOf
  <2>7. \E y : RequestBecomes(r, y) /\ y.pc = "log" /\ Keeps(x, y)
    <3>1. L \in Seq(Kinds) /\ L \in Seq(OtherKinds)
      BY <1>6, Handles, NoteLog DEF L
    <3>2. Keeps(x, z)
      BY <1>8, <1>6, <3>1, NotOwing DEF Keeps
    <3> QED
      BY <1>8, <3>1, <3>2
  <2> QED
    BY <1>1, <1>6, <2>5, <2>6, <2>7
<1> QED
  BY <1>1, <1>5, <1>6 DEF MayWriteNote

\* The status that a request asks for.
Asked(x) == CASE x.op.do = "complete" -> "completed"
              [] x.op.do = "cancel" -> "canceled"
              [] OTHER -> x.op.to

TaskStatusWritten(x) ==
   LET st == Asked(x)
       fin == IF st = "completed" THEN x.user ELSE Nobody
       can == IF st = "canceled" THEN x.user ELSE Nobody
   IN /\ st \in {"open", "completed", "canceled"} /\ TaskTransition(x.read.status, st)
      /\ row'.status = IF st # x.read.status THEN st ELSE row.status
      /\ row'.finisher = IF fin # x.read.finisher THEN fin ELSE row.finisher
      /\ row'.canceller = IF can # x.read.canceller THEN can ELSE row.canceller
      /\ row'.assignee = row.assignee /\ row'.assigner = row.assigner

TaskAssigneeWritten(x) ==
   /\ row'.status = row.status /\ row'.finisher = row.finisher /\ row'.canceller = row.canceller
   /\ x.op.to = x.read.assignee =>
         row'.assignee = row.assignee /\ row'.assigner = row.assigner
   /\ x.op.to # x.read.assignee =>
         /\ row'.assignee = x.op.to
         /\ row'.assigner = IF x.user # x.read.assigner THEN x.user ELSE row.assigner

\* What is left to log of a task's commit.
TaskLeft(x, y) ==
   /\ IsLeft("completed", y) => x.op.do = "complete"
   /\ IsLeft("canceled", y) => x.op.do = "cancel"

LEMMA TaskCommit ==
   ASSUME Typed, NEW r \in Requests, Commit(r), table = "task"
   PROVE  LET x == request[r]
          IN /\ MayWriteTask(x) /\ row' \in TaskRows
             /\ \E y : RequestBecomes(r, y) /\ y.pc = "log" /\ Keeps(x, y) /\ TaskLeft(x, y)
             /\ x.op.do # "assign" => TaskStatusWritten(x)
             /\ x.op.do = "assign" => TaskAssigneeWritten(x)
<1>1. PICK x \in RequestRecords : x = request[r] /\ MayWriteTask(x)
  BY DEF Typed, Commit, At, Admitted
<1>2. /\ row \in TaskRows /\ x.read \in TaskRows
      /\ DOMAIN row = {"status", "finisher", "canceller", "assignee", "assigner"}
  BY <1>1, RowKinds DEF MayWriteTask
<1> DEFINE L == Handler(x.user, x.op, x.read, Written(r)).log
           z == [Idle EXCEPT !.pc = "log", !.op = KeptOp(x), !.left = L]
<1>3. row' = Written(r) /\ request' = [request EXCEPT ![r] = z]
  BY <1>1 DEF Commit, Op, KeptOp
<1> HIDE DEF L, z
<1>8. ASSUME L \in Seq(Kinds)
      PROVE  RequestBecomes(r, z) /\ z.pc = "log" /\ z.op = KeptOp(x) /\ z.left = L
  <2>1. PICK i \in RequestRecords : i = Idle
    BY IdleFacts
  <2>2. KeptOp(x) \in [do : Deeds, to : Aims]
    BY KeptOps
  <2>3. z \in RequestRecords /\ z.pc = "log" /\ z.op = KeptOp(x) /\ z.left = L
    BY <1>8, <2>1, <2>2 DEF z, RequestRecords, Pcs
  <2> QED
    BY <1>3, <2>3 DEF RequestBecomes
<1>4. /\ row.status \in {"open", "completed", "canceled"} /\ row.finisher \in People
      /\ row.canceller \in People /\ row.assignee \in People /\ row.assigner \in People
      /\ x.user \in People /\ Nobody \in People
  BY <1>2 DEF TaskRows, RequestRecords, People
<1> DEFINE S == {"status", "finisher", "canceller", "assignee", "assigner"}
<1>5. \E y : RequestBecomes(r, y) /\ y.pc = "log" /\ Keeps(x, y) /\ TaskLeft(x, y)
  <2>1. /\ L \in Seq(Kinds) /\ L \in Seq(OtherKinds)
        /\ \A i \in 1..Len(L) : (L[i] = "completed" => x.op.do = "complete")
                                /\ (L[i] = "canceled" => x.op.do = "cancel")
    <3>1. CASE x.op.do \in {"set", "assign"}
      <4>1. PICK op : op = x.op
        OBVIOUS
      <4>2. PICK l \in Seq({"audit", "reassigned"}) : l = L /\ l \in Seq(Kinds) /\ l \in Seq(OtherKinds)
        BY <3>1, Handles, TaskLog DEF L
      <4>3. \A i \in 1..Len(l) : l[i] \in {"audit", "reassigned"}
        BY <4>2
      <4> QED
        BY <4>2, <4>3
    <3>2. CASE x.op.do = "complete"
      <4>1. L = <<"audit", "completed">>
        BY <3>2, Handles DEF L, CompleteTask
      <4> QED
        BY <3>2, <4>1 DEF Kinds, OtherKinds
    <3>3. CASE x.op.do = "cancel"
      <4>1. L = <<"audit", "canceled">>
        BY <3>3, Handles DEF L, CancelTask
      <4> QED
        BY <3>3, <4>1 DEF Kinds, OtherKinds
    <3> QED
      BY <1>1, <3>1, <3>2, <3>3 DEF MayWriteTask
  <2>2. Keeps(x, z)
    BY <1>1, <1>8, <2>1, NotOwing DEF Keeps, MayWriteTask
  <2>3. TaskLeft(x, z)
    BY <1>8, <2>1 DEF TaskLeft, IsLeft
  <2> QED
    BY <1>8, <2>1, <2>2, <2>3
<1>6. CASE x.op.do # "assign"
  <2> DEFINE st == Asked(x)
             fin == IF st = "completed" THEN x.user ELSE Nobody
             can == IF st = "canceled" THEN x.user ELSE Nobody
             set == [status |-> st, finisher |-> fin, canceller |-> can]
  <2>1. st \in {"open", "completed", "canceled"} /\ TaskTransition(x.read.status, st)
    BY <1>1, <1>6 DEF MayWriteTask, Asked
  <2>2. Handler(x.user, x.op, x.read, x.read).set = set
    <3>1. CASE x.op.do = "set"
      <4>1. Handler(x.user, x.op, x.read, x.read) = PatchTask(x.user, x.op, x.read, x.read)
        BY <3>1, Handles
      <4> QED
        BY <3>1, <4>1 DEF PatchTask, ApplyStatus, Asked
    <3>2. CASE x.op.do = "complete"
      <4>1. Handler(x.user, x.op, x.read, x.read) = CompleteTask(x.user, x.read)
        BY <3>2, Handles
      <4> QED
        BY <3>2, <4>1 DEF CompleteTask, ApplyStatus, Asked
    <3>3. CASE x.op.do = "cancel"
      <4>1. Handler(x.user, x.op, x.read, x.read) = CancelTask(x.user, x.read)
        BY <3>3, Handles
      <4> QED
        BY <3>3, <4>1 DEF CancelTask, ApplyStatus, Asked
    <3> QED
      BY <1>1, <1>6, <3>1, <3>2, <3>3 DEF MayWriteTask
  <2>3. fin \in People /\ can \in People
    BY <1>4
  <2>4. /\ fin = IF st = "completed" THEN x.user ELSE Nobody
        /\ can = IF st = "canceled" THEN x.user ELSE Nobody
        /\ st = Asked(x)
    OBVIOUS
  <2> HIDE DEF fin, can, st
  <2>5. row' = [c \in S |-> Merged(x, set, c)]
    BY <1>1, <1>2, <1>3, <2>2, WrittenColumns
  <2>6. /\ Merged(x, set, "status") = IF st # x.read.status THEN st ELSE row.status
        /\ Merged(x, set, "finisher") = IF fin # x.read.finisher THEN fin ELSE row.finisher
        /\ Merged(x, set, "canceller") = IF can # x.read.canceller THEN can ELSE row.canceller
        /\ Merged(x, set, "assignee") = row.assignee /\ Merged(x, set, "assigner") = row.assigner
    BY DEF Merged
  <2> HIDE DEF set
  <2>7. /\ row'.status = IF st # x.read.status THEN st ELSE row.status
        /\ row'.finisher = IF fin # x.read.finisher THEN fin ELSE row.finisher
        /\ row'.canceller = IF can # x.read.canceller THEN can ELSE row.canceller
        /\ row'.assignee = row.assignee /\ row'.assigner = row.assigner
    BY <2>5, <2>6
  <2>8. row' \in TaskRows
    BY <1>4, <2>1, <2>3, <2>5, <2>7, TaskRowOf
  <2>9. TaskStatusWritten(x)
    BY <2>1, <2>4, <2>7 DEF TaskStatusWritten
  <2> QED
    BY <1>1, <1>5, <1>6, <2>8, <2>9
<1>7. CASE x.op.do = "assign"
  <2>1. Handler(x.user, x.op, x.read, x.read) = PatchTask(x.user, x.op, x.read, x.read)
    BY <1>7, Handles
  <2>2. x.op.to \in People
    BY <1>1, <1>7 DEF MayWriteTask, People
  <2>3. CASE x.op.to # x.read.assignee
    <3> DEFINE set == [assignee |-> x.op.to, assigner |-> x.user]
    <3>1. Handler(x.user, x.op, x.read, x.read).set = set
      BY <1>7, <2>1, <2>3 DEF PatchTask
    <3>2. row' = [c \in S |-> Merged(x, set, c)]
      BY <1>1, <1>2, <1>3, <3>1, WrittenColumns
    <3>3. /\ Merged(x, set, "status") = row.status /\ Merged(x, set, "finisher") = row.finisher
          /\ Merged(x, set, "canceller") = row.canceller
          /\ Merged(x, set, "assignee") = x.op.to
          /\ Merged(x, set, "assigner") = IF x.user # x.read.assigner THEN x.user ELSE row.assigner
      BY <2>3 DEF Merged
    <3> HIDE DEF set
    <3>4. /\ row'.status = row.status /\ row'.finisher = row.finisher /\ row'.canceller = row.canceller
          /\ row'.assignee = x.op.to
          /\ row'.assigner = IF x.user # x.read.assigner THEN x.user ELSE row.assigner
      BY <3>2, <3>3
    <3>5. row' \in TaskRows
      BY <1>4, <2>2, <3>2, <3>4, TaskRowOf
    <3>6. TaskAssigneeWritten(x)
      BY <2>3, <3>4 DEF TaskAssigneeWritten
    <3> QED
      BY <1>1, <1>5, <1>7, <3>5, <3>6
  <2>4. CASE x.op.to = x.read.assignee
    <3>1. Handler(x.user, x.op, x.read, x.read).set = Nothing
      BY <1>7, <2>1, <2>4 DEF PatchTask
    <3>2. row' = [c \in S |-> Merged(x, Nothing, c)]
      BY <1>1, <1>2, <1>3, <3>1, WrittenColumns
    <3>3. \A c \in S : Merged(x, Nothing, c) = row[c]
      BY DEF Merged, Nothing
    <3>4. /\ row'.status = row.status /\ row'.finisher = row.finisher /\ row'.canceller = row.canceller
          /\ row'.assignee = row.assignee /\ row'.assigner = row.assigner
      BY <3>2, <3>3
    <3>5. row' \in TaskRows
      BY <1>4, <3>2, <3>4, TaskRowOf
    <3>6. TaskAssigneeWritten(x)
      BY <2>4, <3>4 DEF TaskAssigneeWritten
    <3> QED
      BY <1>1, <1>5, <1>7, <3>5, <3>6
  <2> QED
    BY <2>3, <2>4
<1> QED
  BY <1>6, <1>7

-----------------------------------------------------------------------------
(* The types are kept. *)

LEMMA BeginAdmits ==
   ASSUME Typed, NEW r \in Requests, NEW u \in Users, NEW op \in Operations(table), Exists,
          table = "case" => r # Worker, Handler(u, op, row, row).ok,
          NEW y, y.user = u, y.op = op, y.read = row
   PROVE  /\ op \in [do : Deeds, to : Aims] /\ row \in CaseRows \cup TaskRows \cup NoteRows
          /\ table = "case" => MayWriteCase(r, y)
          /\ table = "task" => MayWriteTask(y)
          /\ table = "note" => MayWriteNote(y)
<1>1. RowTyped /\ row # Absent /\ Targets \subseteq Statuses /\ Owners \subseteq Users
  BY Names DEF Typed, Exists
<1>2. CASE table = "case"
  <2>1. row \in CaseRows
    BY <1>1, <1>2 DEF RowTyped
  <2>2. CASE \E s \in Targets : op = [do |-> "move", to |-> s]
    <3>1. PICK s \in Targets : op = [do |-> "move", to |-> s]
      BY <2>2
    <3>2. op.do = "move" /\ op.to = s
      BY <3>1
    <3>3. MayMove(u, row.status, s)
      BY <3>2, Handles DEF PatchStatus
    <3>4. op \in [do : Deeds, to : Aims]
      BY <1>1, <3>1 DEF Deeds, Aims
    <3> QED
      BY <1>1, <1>2, <2>1, <3>2, <3>3, <3>4 DEF MayWriteCase
  <2>3. CASE \E v \in Owners \cup {Nobody} : op = [do |-> "own", to |-> v]
    <3>1. PICK v \in Owners \cup {Nobody} : op = [do |-> "own", to |-> v]
      BY <2>3
    <3>2. op.do = "own" /\ op.to = v /\ v \in People
      BY <1>1, <3>1 DEF People
    <3>3. op \in [do : Deeds, to : Aims]
      BY <3>1, <3>2 DEF Deeds, Aims
    <3> QED
      BY <1>2, <2>1, <3>2, <3>3 DEF MayWriteCase
  <2> QED
    BY <1>2, <2>2, <2>3 DEF Operations
<1>3. CASE table = "task"
  <2>1. row \in TaskRows
    BY <1>1, <1>3 DEF RowTyped
  <2>2. CASE \E d \in {"complete", "cancel"} : op = [do |-> d, to |-> Nobody]
    <3>1. PICK d \in {"complete", "cancel"} : op = [do |-> d, to |-> Nobody]
      BY <2>2
    <3>2. op.do = d /\ op.to = Nobody
      BY <3>1
    <3>3. TaskTransition(row.status, IF d = "complete" THEN "completed" ELSE "canceled")
      BY <3>2, Handles DEF CompleteTask, CancelTask
    <3>4. op \in [do : Deeds, to : Aims]
      BY <3>1 DEF Deeds, Aims, People
    <3> QED
      BY <1>3, <2>1, <3>2, <3>3, <3>4 DEF MayWriteTask
  <2>3. CASE \E s \in {"open", "completed", "canceled"} : op = [do |-> "set", to |-> s]
    <3>1. PICK s \in {"open", "completed", "canceled"} : op = [do |-> "set", to |-> s]
      BY <2>3
    <3>2. op.do = "set" /\ op.to = s
      BY <3>1
    <3>3. TaskTransition(row.status, s)
      <4>1. Handler(u, op, row, row) = PatchTask(u, op, row, row)
        BY <3>2, Handles
      <4>2. PatchTask(u, op, row, row).ok = (op.do = "set" => TaskTransition(row.status, op.to))
        BY DEF PatchTask
      <4> QED
        BY <3>2, <4>1, <4>2
    <3>4. op \in [do : Deeds, to : Aims]
      BY <3>1 DEF Deeds, Aims
    <3> QED
      BY <1>3, <2>1, <3>2, <3>3, <3>4 DEF MayWriteTask
  <2>4. CASE \E v \in Owners : op = [do |-> "assign", to |-> v]
    <3>1. PICK v \in Owners : op = [do |-> "assign", to |-> v]
      BY <2>4
    <3>2. op.do = "assign" /\ op.to = v /\ v \in Users
      BY <1>1, <3>1
    <3>3. op \in [do : Deeds, to : Aims]
      BY <3>1, <3>2 DEF Deeds, Aims, People
    <3> QED
      BY <1>3, <2>1, <3>2, <3>3 DEF MayWriteTask
  <2> QED
    BY <1>3, <2>2, <2>3, <2>4 DEF Operations
<1>4. CASE table = "note"
  <2>1. row \in NoteRows
    BY <1>1, <1>4 DEF RowTyped
  <2>2. PICK d \in {"edit", "delete"} : op = [do |-> d, to |-> Nobody]
    BY <1>4 DEF Operations
  <2>3. op.do = d /\ op.to = Nobody
    BY <2>2
  <2>4. d = "edit" => ~row.deleted
    <3>1. CASE d = "edit"
      <4>1. Handler(u, op, row, row) = EditNote(u, row)
        BY <2>3, <3>1, Handles
      <4>2. EditNote(u, row).ok = (~row.deleted /\ MayEditNote(u, row))
        BY DEF EditNote
      <4>3. row.deleted \in BOOLEAN
        BY <2>1 DEF NoteRows
      <4> QED
        BY <4>1, <4>2, <4>3
    <3> QED
      BY <3>1
  <2>5. op \in [do : Deeds, to : Aims]
    BY <2>2 DEF Deeds, Aims, People
  <2> QED
    BY <1>4, <2>1, <2>3, <2>4, <2>5 DEF MayWriteNote
<1> QED
  BY <1>1, <1>2, <1>3, <1>4 DEF RowTyped, Tables

\* A request that ends, or that logs what it has written.
LEMMA RestAdmitted ==
   ASSUME NEW r, NEW y, y.pc \in {"over", "log"} PROVE Admitted(r, y)'
BY DEF Admitted

LEMMA BeginTyped ==
   ASSUME Typed, NEW r \in Requests, NEW u \in Users, NEW op \in Operations(table), Begin(r, u, op)
   PROVE  Typed'
<1>1. UNCHANGED <<table, row, evidence, overtaken>>
  BY DEF Begin
<1>2. Stays /\ RowTyped' /\ evidence' \in EvidenceRecords /\ overtaken' \in BOOLEAN
  BY <1>1 DEF Stays, Typed, RowTyped
<1>3. CASE End(r)
  BY <1>2, <1>3, EndEffect, RestAdmitted, RequestStep
<1>4. CASE Admit(r, u, op, "write", row) /\ Handler(u, op, row, row).ok
  <2>1. op \in [do : Deeds, to : Aims] /\ row \in CaseRows \cup TaskRows \cup NoteRows
    <3>1. PICK y : y = [user |-> u, op |-> op, read |-> row]
      OBVIOUS
    <3>2. y.user = u /\ y.op = op /\ y.read = row
      BY <3>1
    <3>3. Exists /\ (table = "case" => r # Worker)
      BY DEF Begin
    <3> QED
      BY <1>4, <3>2, <3>3, BeginAdmits
  <2>2. PICK y : /\ RequestBecomes(r, y) /\ y.pc = "write" /\ y.left = <<>>
                 /\ y.user = u /\ y.op = op /\ y.read = row
    BY <1>4, <2>1, AdmitEffect DEF Pcs, People
  <2>3. Exists /\ (table = "case" => r # Worker)
    BY DEF Begin
  <2>4. /\ table = "case" => MayWriteCase(r, y)
        /\ table = "task" => MayWriteTask(y)
        /\ table = "note" => MayWriteNote(y)
    BY <1>4, <2>2, <2>3, BeginAdmits
  <2>5. Admitted(r, y)
    BY <2>2, <2>4 DEF Admitted
  <2>6. Admitted(r, y)'
    BY <1>2, <2>5, AdmittedStill
  <2> QED
    BY <1>2, <2>2, <2>6, RequestStep
<1> QED
  BY <1>3, <1>4 DEF Begin

LEMMA CreatedTyped ==
   ASSUME Typed, NEW u \in Users, CreateTask(u) \/ CreateNote(u)
   PROVE  Typed'
<1>1. UNCHANGED <<table, evidence, overtaken>> /\ row = Absent
  BY DEF CreateTask, CreateNote, Created, Exists
<1>2. RowTyped'
  <2>1. CASE row' = row
    BY <1>1, <2>1 DEF Typed, RowTyped
  <2>2. CASE table = "task" /\ row' \in {NewTask(Nobody, Nobody)} \cup {NewTask(v, u) : v \in Owners}
    <3>1. \A v \in People : \A w \in People : NewTask(v, w) \in TaskRows
      BY DEF NewTask, TaskRows, People
    <3> QED
      BY <1>1, <2>2, <3>1, Names DEF Typed, RowTyped, People
  <2>3. CASE table = "note" /\ row' = NewNote(u)
    <3>1. NewNote(u) \in NoteRows
      BY DEF NewNote, NoteRows, People
    <3> QED
      BY <1>1, <2>3, <3>1 DEF Typed, RowTyped
  <2> QED
    BY <2>1, <2>2, <2>3 DEF CreateTask, CreateNote, Created
<1>3. Stays /\ evidence' \in EvidenceRecords /\ overtaken' \in BOOLEAN
  BY <1>1, RowKinds DEF Stays, Typed
<1>4. \E y : RequestBecomes(1, y) /\ y.pc \in {"over", "log"}
  <2>1. CASE End(1)
    BY <2>1, EndEffect
  <2>2. CASE request' = [request EXCEPT ![1] = [Idle EXCEPT !.pc = "log", !.left = <<"created", "audit">>]]
    <3>1. <<"created", "audit">> \in Seq(Kinds)
      BY DEF Kinds
    <3> QED
      BY <2>2, <3>1, LogEffect
  <2> QED
    BY <2>1, <2>2 DEF CreateTask, CreateNote, Created
<1>5. 1 \in Requests
  BY DEF Requests
<1> QED
  BY <1>2, <1>3, <1>4, <1>5, RestAdmitted, RequestStep

LEMMA BeginSyncTyped ==
   ASSUME Typed, BeginSync PROVE Typed'
<1>1. UNCHANGED <<table, row, overtaken>> /\ table = "case" /\ row \in CaseRows /\ Worker \in Requests
  BY DEF BeginSync, Typed, RowTyped, Worker, Requests
<1>2. /\ evidence' \in EvidenceRecords
      /\ evidence.validated => evidence'.validated
      /\ evidence.ready => evidence'.ready
  <2>1. PICK e \in EvidenceRecords : e = evidence
    BY DEF Typed
  <2>2. evidence' = [e EXCEPT !.ready = TRUE, !.requested = TRUE, !.exported = TRUE]
    BY <2>1 DEF BeginSync
  <2> QED
    BY <2>1, <2>2 DEF EvidenceRecords
<1>3. Stays /\ RowTyped' /\ overtaken' \in BOOLEAN
  BY <1>1, <1>2 DEF Stays, Typed, RowTyped
<1>4. CASE End(Worker)
  BY <1>1, <1>2, <1>3, <1>4, EndEffect, RestAdmitted, RequestStep
<1>5. CASE /\ Admit(Worker, Nobody, [do |-> "sync", to |-> Nobody], "write", row)
           /\ SyncAfterExport(row).ok
  <2> DEFINE sync == [do |-> "sync", to |-> Nobody]
  <2>0. sync \in [do : Deeds, to : Aims] /\ sync.do = "sync"
    BY DEF Deeds, Aims, People
  <2>1. PICK op \in [do : Deeds, to : Aims] : op = sync /\ op.do = "sync"
    BY <2>0
  <2>2. PICK y : /\ RequestBecomes(Worker, y) /\ y.pc = "write" /\ y.left = <<>>
                 /\ y.user = Nobody /\ y.op = op /\ y.read = row
    BY <1>1, <1>5, <2>1, AdmitEffect DEF Pcs, People
  <2>3. row.status = "ready_for_export"
    BY <1>5 DEF SyncAfterExport
  <2>4. Admitted(Worker, y)
    BY <1>1, <2>1, <2>2, <2>3 DEF Admitted, MayWriteCase
  <2>5. Admitted(Worker, y)'
    BY <1>3, <2>4, AdmittedStill
  <2> QED
    BY <1>1, <1>2, <1>3, <2>2, <2>5, RequestStep
<1> QED
  BY <1>4, <1>5 DEF BeginSync

LEMMA CommitTyped ==
   ASSUME Typed, NEW r \in Requests, Commit(r) PROVE Typed'
<1>1. UNCHANGED <<table, evidence>>
  BY DEF Commit
<1>2. overtaken' \in BOOLEAN
  BY DEF Commit, Typed, Overtook
<1>3. PICK y : RequestBecomes(r, y) /\ y.pc = "log"
  BY CaseCommit, TaskCommit, NoteCommit DEF Typed, RowTyped, Tables
<1>4. /\ table = "case" => row' \in CaseRows /\ row \in CaseRows
      /\ table = "task" => row' \in TaskRows /\ row \in TaskRows
      /\ table = "note" => row' \in NoteRows /\ row \in NoteRows
  BY CaseCommit, TaskCommit, NoteCommit DEF MayWriteTask, MayWriteNote
<1>5. /\ \A w \in CaseRows : w \notin TaskRows /\ w \notin NoteRows
      /\ \A w \in TaskRows : w \notin NoteRows
  <2>1. "by" \notin {"status", "finisher", "canceller", "assignee", "assigner"}
        /\ "by" \notin {"author", "editor", "deleter", "deleted"}
        /\ "status" \notin {"author", "editor", "deleter", "deleted"}
    OBVIOUS
  <2> QED
    BY <2>1, RowKinds
<1>6. Stays /\ RowTyped'
  BY <1>1, <1>4, <1>5 DEF Stays, Typed, RowTyped, Tables
<1> QED
  BY <1>1, <1>2, <1>3, <1>6, RestAdmitted, RequestStep DEF Typed


LEMMA RestTyped ==
   ASSUME Typed, NEW r \in Requests, End(r), UNCHANGED <<table, row>>,
          evidence' \in EvidenceRecords, overtaken' \in BOOLEAN,
          evidence.validated => evidence'.validated, evidence.ready => evidence'.ready
   PROVE  Typed'
<1>1. Stays /\ RowTyped'
  BY DEF Stays, Typed, RowTyped
<1> QED
  BY <1>1, EndEffect, RestAdmitted, RequestStep

LEMMA LogTyped ==
   ASSUME Typed, NEW r \in Requests, Log(r) PROVE Typed'
<1>1. UNCHANGED <<table, row, overtaken>> /\ End(r)
  BY DEF Log
<1>2. PICK e \in EvidenceRecords : e = evidence
  BY DEF Typed
<1>3. evidence' = e \/ evidence' = [e EXCEPT !.exported = TRUE]
  BY <1>2 DEF Log
<1>4. /\ evidence' \in EvidenceRecords
      /\ e.validated => evidence'.validated
      /\ e.ready => evidence'.ready
  BY <1>2, <1>3 DEF EvidenceRecords
<1> QED
  BY <1>1, <1>2, <1>4, RestTyped DEF Typed

\* A notice takes the first of the entries that are left.
LEMMA TellEffect ==
   ASSUME Typed, NEW r \in Requests, Tell(r)
   PROVE  \E y : /\ RequestBecomes(r, y) /\ y.pc = "log" /\ y.left = Tail(request[r].left)
                 /\ \A k : IsLeft(k, y) => IsLeft(k, request[r])
<1>1. PICK x \in RequestRecords : x = request[r]
  BY DEF Typed
<1>2. x.pc = "log" /\ x.left # <<>> /\ x.left \in Seq(Kinds)
  BY <1>1 DEF Tell, Owes, At, RequestRecords
<1>3. PICK op \in [do : Deeds, to : Aims] : op = Idle.op
  BY IdleFacts DEF RequestRecords
<1>4. PICK left \in Seq(Kinds) : left = Tail(x.left)
  <2>1. Tail(x.left) \in Seq(Kinds)
    BY <1>2
  <2> QED
    BY <2>1
<1> DEFINE y == [x EXCEPT !.op = op, !.left = left]
<1>5. y \in RequestRecords /\ y.pc = "log" /\ y.left = left
  BY <1>2 DEF RequestRecords
<1>6. request' = [request EXCEPT ![r].op = op, ![r].left = left]
  BY <1>1, <1>3, <1>4 DEF Tell
<1>7. request' = [request EXCEPT ![r] = y]
  BY <1>1, <1>6 DEF Typed
<1> HIDE DEF y
<1>8. ASSUME NEW k, IsLeft(k, y) PROVE IsLeft(k, x)
  <2>1. PICK i \in 1..Len(left) : left[i] = k
    BY <1>5, <1>8 DEF IsLeft
  <2>2. Len(left) = Len(x.left) - 1 /\ left[i] = x.left[i + 1] /\ i + 1 \in 1..Len(x.left)
    BY <1>2, <1>4
  <2> QED
    BY <2>1, <2>2 DEF IsLeft
<1> QED
  BY <1>1, <1>4, <1>5, <1>7, <1>8 DEF RequestBecomes

LEMMA TellTyped ==
   ASSUME Typed, NEW r \in Requests, Tell(r) PROVE Typed'
<1>1. UNCHANGED <<table, row, evidence, overtaken>>
  BY DEF Tell
<1>2. Stays /\ RowTyped' /\ evidence' \in EvidenceRecords /\ overtaken' \in BOOLEAN
  BY <1>1 DEF Stays, Typed, RowTyped
<1> QED
  BY <1>2, TellEffect, RestAdmitted, RequestStep

LEMMA LoseTyped ==
   ASSUME Typed, NEW r \in Requests, Lose(r) PROVE Typed'
BY RestTyped DEF Lose, Typed

LEMMA BeginExportTyped ==
   ASSUME Typed, NEW r \in Requests, NEW u \in Users, BeginExport(r, u) PROVE Typed'
<1>1. UNCHANGED <<table, row, evidence, overtaken>> /\ table = "case" /\ row \in CaseRows
  BY DEF BeginExport, Typed, RowTyped
<1>2. Stays /\ RowTyped' /\ evidence' \in EvidenceRecords /\ overtaken' \in BOOLEAN
  BY <1>1 DEF Stays, Typed, RowTyped
<1>3. CASE End(r)
  BY <1>2, <1>3, EndEffect, RestAdmitted, RequestStep
<1>4. CASE Admit(r, Nobody, [do |-> "export", to |-> Nobody], "artifacts", [status |-> row.status])
  <2>1. [status |-> row.status] \in ArtifactsNext
    <3>1. row.status \in Statuses
      BY <1>1 DEF CaseRows
    <3> QED
      BY <3>1 DEF ArtifactsNext
  <2>2. [do |-> "export", to |-> Nobody] \in [do : Deeds, to : Aims]
    BY DEF Deeds, Aims, People
  <2>3. PICK columns \in ArtifactsNext : columns = [status |-> row.status]
    BY <2>1
  <2>4. columns \in CaseRows \cup TaskRows \cup NoteRows \cup Readings
    BY <2>3 DEF Readings
  <2>5. PICK op \in [do : Deeds, to : Aims] : op = [do |-> "export", to |-> Nobody]
    BY <2>2
  <2>6. "artifacts" \in Pcs /\ Nobody \in People
    BY DEF Pcs, People
  <2>7. Admit(r, Nobody, op, "artifacts", columns)
    BY <1>4, <2>3, <2>5
  <2>8. PICK y : RequestBecomes(r, y) /\ y.pc = "artifacts" /\ y.read = columns
    BY <2>4, <2>5, <2>6, <2>7, AdmitEffect
  <2>9. Admitted(r, y)
    BY <2>3, <2>8 DEF Admitted
  <2>10. Admitted(r, y)'
    BY <1>2, <2>9, AdmittedStill
  <2> QED
    BY <1>2, <2>8, <2>10, RequestStep
<1> QED
  BY <1>3, <1>4 DEF BeginExport

\* What has been read so far, with what is read now.
Joined(read, columns) ==
   [c \in DOMAIN read \cup DOMAIN columns |-> IF c \in DOMAIN columns THEN columns[c] ELSE read[c]]

LEMMA KeepEffect ==
   ASSUME Typed, NEW r \in Requests, NEW pc \in Pcs, NEW columns, Keep(r, pc, columns),
          Joined(request[r].read, columns) \in Readings
   PROVE  \E y : /\ RequestBecomes(r, y) /\ y.pc = pc /\ y.left = request[r].left
                 /\ y.read = Joined(request[r].read, columns)
<1>1. PICK x \in RequestRecords : x = request[r]
  BY DEF Typed
<1>2. PICK read \in Readings : read = Joined(x.read, columns)
  BY <1>1
<1> DEFINE y == [x EXCEPT !.pc = pc, !.read = read]
<1>3. y \in RequestRecords /\ y.pc = pc /\ y.left = x.left /\ y.read = read
  BY DEF RequestRecords
<1>4. request' = [request EXCEPT ![r].pc = pc, ![r].read = read]
  BY <1>1, <1>2 DEF Keep, Joined
<1>5. request' = [request EXCEPT ![r] = y]
  BY <1>1, <1>4 DEF Typed
<1> HIDE DEF y
<1>6. /\ RequestBecomes(r, y) /\ y.pc = pc /\ y.left = request[r].left
      /\ y.read = Joined(request[r].read, columns)
  BY <1>1, <1>2, <1>3, <1>5 DEF RequestBecomes
<1> QED
  BY <1>6

LEMMA ReadArtifactsJoined ==
   ASSUME NEW read \in ArtifactsNext, NEW found \in [Artifacts -> ArtifactStatuses]
   PROVE  Joined(read, [artifacts |-> found]) \in EventsNext
<1>1. PICK s \in Statuses : read = [status |-> s]
  BY DEF ArtifactsNext
<1>2. Joined(read, [artifacts |-> found]) = [status |-> s, artifacts |-> found]
  BY <1>1 DEF Joined
<1> QED
  BY <1>2 DEF EventsNext

LEMMA ReadEventsJoined ==
   ASSUME NEW read \in EventsNext,
          NEW collected \in BOOLEAN, NEW validated \in BOOLEAN, NEW exported \in BOOLEAN
   PROVE  LET joined == Joined(read, [collected |-> collected, validated |-> validated,
                                      exported |-> exported])
          IN joined \in ExportsNext /\ joined.validated = validated
<1>1. PICK s \in Statuses, a \in [Artifacts -> ArtifactStatuses] :
        read = [status |-> s, artifacts |-> a]
  BY DEF EventsNext
<1>2. Joined(read, [collected |-> collected, validated |-> validated, exported |-> exported])
        = [status |-> s, artifacts |-> a, collected |-> collected, validated |-> validated,
           exported |-> exported]
  BY <1>1 DEF Joined
<1> QED
  BY <1>2 DEF ExportsNext

LEMMA ReadExportsJoined ==
   ASSUME NEW read \in ExportsNext, NEW ready \in BOOLEAN, NEW requested \in BOOLEAN
   PROVE  LET joined == Joined(read, [ready |-> ready, requested |-> requested])
          IN joined \in AllRead /\ joined.validated = read.validated /\ joined.ready = ready
<1>1. PICK s \in Statuses, a \in [Artifacts -> ArtifactStatuses], c \in BOOLEAN, v \in BOOLEAN,
           x \in BOOLEAN :
        read = [status |-> s, artifacts |-> a, collected |-> c, validated |-> v, exported |-> x]
  BY DEF ExportsNext
<1>2. Joined(read, [ready |-> ready, requested |-> requested])
        = [status |-> s, artifacts |-> a, collected |-> c, validated |-> v, exported |-> x,
           ready |-> ready, requested |-> requested]
  BY <1>1 DEF Joined
<1> QED
  BY <1>1, <1>2 DEF AllRead

LEMMA ReadTyped ==
   ASSUME Typed, NEW r \in Requests, ReadArtifacts(r) \/ ReadEvents(r) \/ ReadExports(r)
   PROVE  Typed' /\ \E y : RequestBecomes(r, y) /\ y.left = request[r].left
<1>1. UNCHANGED <<table, row, evidence, overtaken>>
  BY DEF ReadArtifacts, ReadEvents, ReadExports
<1>2. Stays /\ RowTyped' /\ evidence' \in EvidenceRecords /\ overtaken' \in BOOLEAN
  BY <1>1 DEF Stays, Typed, RowTyped
<1>3. PICK e \in EvidenceRecords : e = evidence
  BY DEF Typed
<1>4. /\ e.artifacts \in [Artifacts -> ArtifactStatuses] /\ e.collected \in BOOLEAN
      /\ e.validated \in BOOLEAN /\ e.exported \in BOOLEAN /\ e.ready \in BOOLEAN
      /\ e.requested \in BOOLEAN
  BY DEF EvidenceRecords
<1>5. PICK x : x = request[r] /\ Admitted(r, x)
  BY DEF Typed
<1>6. "events" \in Pcs /\ "exports" \in Pcs /\ "create" \in Pcs
  BY DEF Pcs
<1>7. ASSUME NEW y, RequestBecomes(r, y), Admitted(r, y), y.left = request[r].left
      PROVE  Typed' /\ \E z : RequestBecomes(r, z) /\ z.left = request[r].left
  BY <1>2, <1>7, AdmittedStill, RequestStep
<1>8. CASE ReadArtifacts(r)
  <2> DEFINE columns == [artifacts |-> e.artifacts]
  <2>1. x.read \in ArtifactsNext /\ Keep(r, "events", columns)
    BY <1>3, <1>5, <1>8 DEF ReadArtifacts, At, Admitted
  <2>2. Joined(x.read, columns) \in EventsNext
    BY <1>4, <2>1, ReadArtifactsJoined
  <2> HIDE DEF columns
  <2>3. Joined(x.read, columns) \in Readings
    BY <2>2 DEF Readings
  <2>4. PICK y : /\ RequestBecomes(r, y) /\ y.pc = "events" /\ y.left = request[r].left
                 /\ y.read = Joined(request[r].read, columns)
    BY <1>5, <1>6, <2>1, <2>3, KeepEffect
  <2>5. Admitted(r, y)
    BY <1>5, <2>2, <2>4 DEF Admitted
  <2> QED
    BY <1>7, <2>4, <2>5
<1>9. CASE ReadEvents(r)
  <2> DEFINE columns == [collected |-> e.collected, validated |-> e.validated, exported |-> e.exported]
  <2>1. x.read \in EventsNext /\ Keep(r, "exports", columns)
    BY <1>3, <1>5, <1>9 DEF ReadEvents, At, Admitted
  <2>2. Joined(x.read, columns) \in ExportsNext /\ Joined(x.read, columns).validated = e.validated
    BY <1>4, <2>1, ReadEventsJoined
  <2> HIDE DEF columns
  <2>3. Joined(x.read, columns) \in Readings
    BY <2>2 DEF Readings
  <2>4. PICK y : /\ RequestBecomes(r, y) /\ y.pc = "exports" /\ y.left = request[r].left
                 /\ y.read = Joined(request[r].read, columns)
    BY <1>5, <1>6, <2>1, <2>3, KeepEffect
  <2>5. Admitted(r, y)
    BY <1>3, <1>5, <2>2, <2>4 DEF Admitted
  <2> QED
    BY <1>7, <2>4, <2>5
<1>10. CASE ReadExports(r)
  <2> DEFINE columns == [ready |-> e.ready, requested |-> e.requested]
  <2>1. /\ x.read \in ExportsNext /\ Keep(r, "create", columns)
        /\ x.read.validated => evidence.validated
    BY <1>3, <1>5, <1>10 DEF ReadExports, At, Admitted
  <2>2. /\ Joined(x.read, columns) \in AllRead
        /\ Joined(x.read, columns).validated = x.read.validated
        /\ Joined(x.read, columns).ready = e.ready
    BY <1>4, <2>1, ReadExportsJoined
  <2> HIDE DEF columns
  <2>3. Joined(x.read, columns) \in Readings
    BY <2>2 DEF Readings
  <2>4. PICK y : /\ RequestBecomes(r, y) /\ y.pc = "create" /\ y.left = request[r].left
                 /\ y.read = Joined(request[r].read, columns)
    BY <1>5, <1>6, <2>1, <2>3, KeepEffect
  <2>5. Admitted(r, y)
    BY <1>3, <1>5, <2>1, <2>2, <2>4 DEF Admitted
  <2> QED
    BY <1>7, <2>4, <2>5
<1> QED
  BY <1>8, <1>9, <1>10

LEMMA CreateExportEffect ==
   ASSUME Typed, NEW r \in Requests, CreateExport(r)
   PROVE  /\ Typed'
          /\ End(r) \/ \E y : RequestBecomes(r, y) /\ y.left = ExportLeft
<1>1. UNCHANGED <<table, row, overtaken>>
  BY DEF CreateExport
<1>2. PICK e \in EvidenceRecords : e = evidence
  BY DEF Typed
<1>3. evidence' = e \/ evidence' = [e EXCEPT !.requested = TRUE]
  BY <1>2 DEF CreateExport
<1>4. evidence' \in EvidenceRecords /\ evidence'.validated = e.validated /\ evidence'.ready = e.ready
  BY <1>2, <1>3 DEF EvidenceRecords
<1>5. overtaken' \in BOOLEAN
  BY <1>1 DEF Typed
<1>6. CASE End(r)
  BY <1>1, <1>2, <1>4, <1>5, <1>6, RestTyped
<1>7. CASE request' = [request EXCEPT ![r].pc = "log", ![r].left = ExportLeft]
  <2>1. PICK x \in RequestRecords : x = request[r]
    BY DEF Typed
  <2>2. PICK left \in Seq(Kinds) : left = ExportLeft
    <3>1. ExportLeft \in Seq(Kinds)
      BY DEF ExportLeft, Kinds
    <3> QED
      BY <3>1
  <2> DEFINE y == [x EXCEPT !.pc = "log", !.left = left]
  <2>3. y \in RequestRecords /\ y.pc = "log" /\ y.left = left
    BY DEF RequestRecords, Pcs
  <2>4. request' = [request EXCEPT ![r].pc = "log", ![r].left = left]
    BY <1>7, <2>2
  <2>5. request' = [request EXCEPT ![r] = y]
    BY <2>1, <2>4 DEF Typed
  <2> HIDE DEF y
  <2>6. RequestBecomes(r, y) /\ y.pc = "log" /\ y.left = ExportLeft
    BY <2>2, <2>3, <2>5 DEF RequestBecomes
  <2>7. Stays /\ RowTyped'
    BY <1>1, <1>2, <1>4 DEF Stays, Typed, RowTyped
  <2> QED
    BY <1>4, <1>5, <2>6, <2>7, RestAdmitted, RequestStep
<1> QED
  BY <1>6, <1>7 DEF CreateExport, ExportLeft

LEMMA EvidenceTyped ==
   ASSUME Typed, EvidenceArrives PROVE Typed'
<1>1. UNCHANGED <<table, row, request, overtaken>>
  BY DEF EvidenceArrives
<1>2. PICK e \in EvidenceRecords : e = evidence
  BY DEF Typed
<1>3. /\ evidence' \in EvidenceRecords
      /\ e.validated => evidence'.validated
      /\ e.ready => evidence'.ready
  <2>1. CASE evidence' = [e EXCEPT !.validated = TRUE]
    BY <2>1 DEF EvidenceRecords
  <2>2. ASSUME NEW a \in Artifacts, NEW s \in ArtifactStatuses,
               evidence' = [e EXCEPT !.artifacts[a] = s]
        PROVE  <1>3!:
    BY <2>2 DEF EvidenceRecords
  <2> QED
    BY <1>2, <2>1, <2>2 DEF EvidenceArrives
<1>4. Stays /\ RowTyped' /\ overtaken' \in BOOLEAN
  BY <1>1, <1>2, <1>3 DEF Stays, Typed, RowTyped
<1>5. ASSUME NEW s \in Requests PROVE Admitted(s, request[s])'
  <2>1. PICK x : x = request[s] /\ Admitted(s, x)
    BY DEF Typed
  <2>2. Admitted(s, x)' /\ request'[s] = x
    BY <1>1, <1>4, <2>1, AdmittedStill
  <2> QED
    BY <2>2 DEF Admitted, MayWriteCase, MayWriteTask, MayWriteNote
<1> QED
  BY <1>1, <1>3, <1>4, <1>5 DEF Typed

LEMMA TypedInit == Init => Typed
<1> SUFFICES ASSUME Init PROVE Typed
  OBVIOUS
<1>1. RowTyped
  <2>1. ASSUME NEW s \in Met PROVE NewCase(s) \in CaseRows
    BY Names DEF NewCase, CaseRows, People
  <2> QED
    BY <2>1 DEF Init, RowTyped, Tables
<1>2. request = [r \in Requests |-> Idle]
  BY DEF Init
<1>3. request \in [Requests -> RequestRecords]
  BY <1>2, IdleFacts
<1>4. \A r \in Requests : Admitted(r, request[r])
  BY <1>2, IdleFacts DEF Admitted
<1>5. evidence \in EvidenceRecords
  BY DEF Init, NoEvidence, EvidenceRecords, ArtifactStatuses
<1> QED
  BY <1>1, <1>3, <1>4, <1>5 DEF Init, Typed

\* The steps, apart from those of a commit and of the log.
Quietly ==
   \/ \E r \in Requests :
        \/ Lose(r)
        \/ ReadArtifacts(r) \/ ReadEvents(r) \/ ReadExports(r)
        \/ CreateExport(r)
        \/ \E u \in Users : BeginExport(r, u)
        \/ \E u \in Users : \E op \in Operations(table) : Begin(r, u, op)
   \/ BeginSync
   \/ EvidenceArrives

LEMMA Steps ==
   ASSUME Next
   PROVE  \/ \E r \in Requests : Commit(r)
          \/ \E r \in Requests : Tell(r) \/ Log(r)
          \/ \E u \in Users : CreateTask(u) \/ CreateNote(u)
          \/ Quietly
BY DEF Next, Continue, Quietly

LEMMA TypedStep ==
   ASSUME Typed, [Next]_vars PROVE Typed'
<1>1. CASE UNCHANGED vars
  BY <1>1 DEF vars, Typed, RowTyped, Admitted, MayWriteCase, MayWriteTask, MayWriteNote
<1>2. CASE Quietly
  BY <1>2, LoseTyped, ReadTyped, CreateExportEffect, BeginExportTyped, BeginTyped, BeginSyncTyped,
     EvidenceTyped DEF Quietly
<1>3. CASE Next
  BY <1>2, <1>3, Steps, CommitTyped, TellTyped, LogTyped, CreatedTyped
<1> QED
  BY <1>1, <1>3

-----------------------------------------------------------------------------
(* A row tells one story. *)

LEMMA StoryInit == Init => StoryInv
<1> SUFFICES ASSUME Init PROVE StoryInv
  OBVIOUS
<1>1. ASSUME NEW k, NEW r \in Requests PROVE ~IsLeft(k, request[r])
  BY IdleFacts DEF Init, IsLeft
<1>2. \A s \in Met : NewCase(s).owner = Nobody /\ NewCase(s).by = Nobody
  BY DEF NewCase
<1> QED
  BY <1>1, <1>2 DEF Init, StoryInv, EndIsTold, Exists, Paired

\* Nothing of a task's end is left to log.
Silent(y) == ~IsLeft("completed", y) /\ ~IsLeft("canceled", y)

LEMMA SilentEntries ==
   ASSUME NEW y, y.left = <<>> \/ y.left = <<"created", "audit">> \/ y.left = ExportLeft
   PROVE  Silent(y)
BY DEF Silent, IsLeft, ExportLeft

\* A step that leaves the row and the log alone and has no end to tell.
LEMMA StoryStays ==
   ASSUME Typed, StoryInv, NEW r \in Requests, NEW y, RequestBecomes(r, y),
          Silent(y) \/ \A k : IsLeft(k, y) => IsLeft(k, request[r]),
          UNCHANGED <<table, row, log, overtaken>>
   PROVE  StoryInv'
<1>1. request'[r] = y /\ \A s \in Requests : s # r => request'[s] = request[s]
  BY Replaced
<1>2. ASSUME NEW k \in {"completed", "canceled"}, EndIsTold(k) PROVE EndIsTold(k)'
  <2>1. ASSUME NEW s \in Requests, IsLeft(k, request'[s]) PROVE IsLeft(k, request[s])
    BY <1>1, <2>1 DEF Silent, IsLeft
  <2> QED
    BY <1>2, <2>1 DEF EndIsTold, Exists, IsLeft
<1> QED
  BY <1>2 DEF StoryInv, Exists, Paired

LEMMA StoryQuietly ==
   ASSUME Typed, StoryInv, Quietly PROVE StoryInv'
<1>1. CASE UNCHANGED request /\ EvidenceArrives
  BY <1>1 DEF EvidenceArrives, trail, StoryInv, EndIsTold, IsLeft, Exists, Paired
<1>2. ASSUME NEW r \in Requests, UNCHANGED <<table, row, log, overtaken>>,
             \E y : RequestBecomes(r, y) /\ (Silent(y) \/ y.left = request[r].left)
      PROVE  StoryInv'
  BY <1>2, StoryStays DEF IsLeft
<1>3. ASSUME NEW r \in Requests, End(r), UNCHANGED <<table, row, log, overtaken>> PROVE StoryInv'
  BY <1>2, <1>3, EndEffect, SilentEntries
<1>4. ASSUME NEW r \in Requests, Lose(r) PROVE StoryInv'
  BY <1>3, <1>4 DEF Lose
<1>5. ASSUME NEW r \in Requests, ReadArtifacts(r) \/ ReadEvents(r) \/ ReadExports(r) PROVE StoryInv'
  BY <1>2, <1>5, ReadTyped DEF trail, ReadArtifacts, ReadEvents, ReadExports
<1>6. ASSUME NEW r \in Requests, CreateExport(r) PROVE StoryInv'
  <2>1. End(r) \/ \E y : RequestBecomes(r, y) /\ y.left = ExportLeft
    BY <1>6, CreateExportEffect
  <2>2. UNCHANGED <<table, row, log, overtaken>>
    BY <1>6 DEF CreateExport, trail
  <2> QED
    BY <1>2, <1>3, <2>1, <2>2, SilentEntries
\* An admission leaves nothing to log.
<1>7. ASSUME NEW r \in Requests, NEW u, NEW op, NEW pc, NEW columns, Admit(r, u, op, pc, columns),
             request' \in [Requests -> RequestRecords], UNCHANGED <<table, row, log, overtaken>>
      PROVE  StoryInv'
  <2> DEFINE y == [Idle EXCEPT !.pc = pc, !.user = u, !.op = op, !.read = columns]
  <2>1. request' = [request EXCEPT ![r] = y]
    BY <1>7 DEF Admit
  <2>2. y.left = <<>>
    BY DEF Idle
  <2> HIDE DEF y
  <2>3. y = request'[r]
    BY <1>7, <2>1 DEF Typed
  <2>4. y \in RequestRecords
    BY <1>7, <2>3
  <2> QED
    BY <1>2, <1>7, <2>1, <2>2, <2>4, SilentEntries DEF RequestBecomes
<1>8. ASSUME NEW r \in Requests, NEW u \in Users, BeginExport(r, u) PROVE StoryInv'
  BY <1>3, <1>7, <1>8, BeginExportTyped DEF BeginExport, Typed, trail
<1>9. ASSUME NEW r \in Requests, NEW u \in Users, NEW op \in Operations(table), Begin(r, u, op)
      PROVE  StoryInv'
  BY <1>3, <1>7, <1>9, BeginTyped DEF Begin, Typed, trail
<1>10. CASE BeginSync
  <2>1. Worker \in Requests /\ Typed'
    BY <1>10, BeginSyncTyped DEF Worker, Requests
  <2> QED
    BY <1>3, <1>7, <1>10, <2>1 DEF BeginSync, Typed, trail
<1> QED
  BY <1>1, <1>4, <1>5, <1>6, <1>8, <1>9, <1>10 DEF Quietly, EvidenceArrives

LEMMA StoryTell ==
   ASSUME Typed, StoryInv, NEW r \in Requests, Tell(r) PROVE StoryInv'
<1>1. UNCHANGED <<table, row, log, overtaken>>
  BY DEF Tell
<1> QED
  BY <1>1, TellEffect, StoryStays

LEMMA StoryLog ==
   ASSUME Typed, StoryInv, NEW r \in Requests, Log(r) PROVE StoryInv'
<1>1. UNCHANGED <<table, row, overtaken>> /\ End(r)
  BY DEF Log
<1>2. PICK k \in 0..Len(request[r].left) : log' = log \cup {request[r].left[i] : i \in 1..k}
  BY DEF Log
<1>3. PICK y : RequestBecomes(r, y) /\ y.left = <<>>
  BY <1>1, EndEffect
<1>4. request'[r] = y /\ \A s \in Requests : s # r => request'[s] = request[s]
  BY <1>3, Replaced
<1>5. ASSUME NEW e, e \in log' \/ \E s \in Requests : IsLeft(e, request'[s])
      PROVE  e \in log \/ \E s \in Requests : IsLeft(e, request[s])
  <2>1. CASE e \in log'
    <3>1. Len(request[r].left) \in Nat
      BY DEF Typed, RequestRecords
    <3> QED
      BY <1>2, <2>1, <3>1 DEF IsLeft
  <2>2. ASSUME NEW s \in Requests, IsLeft(e, request'[s]) PROVE IsLeft(e, request[s])
    BY <1>3, <1>4, <2>2 DEF IsLeft
  <2> QED
    BY <1>5, <2>1, <2>2
<1>6. ASSUME NEW e, EndIsTold(e) PROVE EndIsTold(e)'
  BY <1>1, <1>5, <1>6 DEF EndIsTold, Exists, IsLeft
<1> QED
  BY <1>1, <1>6 DEF StoryInv, Exists, Paired

LEMMA StoryCreated ==
   ASSUME Typed, StoryInv, NEW u \in Users, CreateTask(u) \/ CreateNote(u) PROVE StoryInv'
<1>1. /\ UNCHANGED <<table, log, overtaken>> /\ row = Absent /\ ~Exists
      /\ table \in {"task", "note"} /\ 1 \in Requests
  BY DEF CreateTask, CreateNote, Created, Exists, Requests, trail
<1>2. PICK y : RequestBecomes(1, y) /\ Silent(y)
  <2>1. CASE End(1)
    BY <2>1, EndEffect, SilentEntries
  <2>2. CASE request' = [request EXCEPT ![1] = [Idle EXCEPT !.pc = "log", !.left = <<"created", "audit">>]]
    <3>1. <<"created", "audit">> \in Seq(Kinds)
      BY DEF Kinds
    <3> QED
      BY <2>2, <3>1, LogEffect, SilentEntries
  <2> QED
    BY <2>1, <2>2 DEF CreateTask, CreateNote, Created
<1>3. CASE row' = row
  BY <1>1, <1>2, <1>3, StoryStays
<1>4. request'[1] = y /\ \A s \in Requests : s # 1 => request'[s] = request[s]
  BY <1>1, <1>2, Replaced
<1>5. ASSUME NEW k \in {"completed", "canceled"}, EndIsTold(k) PROVE EndIsTold(k)'
  <2>1. k \notin log /\ \A s \in Requests : ~IsLeft(k, request[s])
    BY <1>1, <1>5 DEF EndIsTold
  <2>2. \A s \in Requests : ~IsLeft(k, request'[s])
    BY <1>2, <1>4, <2>1 DEF Silent, IsLeft
  <2> QED
    BY <1>1, <2>1, <2>2 DEF EndIsTold, IsLeft
<1>6. CASE table = "task" /\ row' \in {NewTask(Nobody, Nobody)} \cup {NewTask(v, u) : v \in Owners}
  <2>1. /\ row'.status = "open" /\ row'.finisher = Nobody /\ row'.canceller = Nobody
        /\ Paired(row'.assignee, row'.assigner)
    BY <1>6, Names DEF NewTask, Paired
  <2> QED
    BY <1>1, <1>5, <1>6, <2>1 DEF StoryInv, Paired
<1>7. CASE table = "note" /\ row' = NewNote(u)
  BY <1>1, <1>7 DEF StoryInv, NewNote
<1> QED
  BY <1>3, <1>6, <1>7 DEF CreateTask, CreateNote, Created

LEMMA StoryCommit ==
   ASSUME Typed, StoryInv, NEW r \in Requests, Commit(r) PROVE StoryInv'
<1> SUFFICES ASSUME ~overtaken' PROVE StoryInv'
  BY DEF StoryInv
<1>1. ~overtaken /\ row = request[r].read /\ UNCHANGED <<table, log>>
  BY DEF Commit, Overtook, Typed
<1>2. PICK x \in RequestRecords : x = request[r]
  BY DEF Typed
<1>3. Nobody \notin Users
  BY Names
<1>4. CASE table = "case"
  <2>1. MayWriteCase(r, x)
    BY <1>2, <1>4, CaseCommit
  <2>2. Paired(row.owner, row.by) /\ row = x.read
    BY <1>1, <1>2, <1>4 DEF StoryInv
  <2>3. Paired(row'.owner, row'.by)
    <3>1. CASE x.op.do \in {"move", "sync"}
      BY <1>2, <1>4, <2>2, <3>1, CaseCommit DEF Paired
    <3>2. CASE x.op.do = "own"
      <4> DEFINE by == IF x.op.to = Nobody THEN Nobody ELSE x.user
      <4>1. /\ row'.owner = IF x.op.to # x.read.owner THEN x.op.to ELSE row.owner
            /\ row'.by = IF by # x.read.by THEN by ELSE row.by
        BY <1>2, <1>4, <3>2, CaseCommit
      <4>2. row'.owner = x.op.to /\ row'.by = by
        BY <2>2, <4>1
      <4>3. x.user \in Users
        BY <2>1, <3>2 DEF MayWriteCase
      <4> QED
        BY <1>3, <4>2, <4>3 DEF Paired
    <3> QED
      BY <2>1, <3>1, <3>2 DEF MayWriteCase
  <2> QED
    BY <1>1, <1>4, <2>3 DEF StoryInv, Paired
<1>5. CASE table = "task"
  <2>1. MayWriteTask(x) /\ x.user # Nobody /\ row = x.read
    BY <1>1, <1>2, <1>3, <1>5, TaskCommit DEF MayWriteTask
  <2>2. /\ row.status = "completed" <=> row.finisher # Nobody
        /\ row.status = "canceled" <=> row.canceller # Nobody
        /\ Paired(row.assignee, row.assigner)
        /\ EndIsTold("completed") /\ EndIsTold("canceled")
        /\ Exists
    <3>1. Exists
      BY <2>1, RowKinds DEF MayWriteTask, Exists
    <3> QED
      BY <1>1, <1>5, <3>1 DEF StoryInv
  <2>3. PICK y : RequestBecomes(r, y) /\ TaskLeft(x, y)
    BY <1>2, <1>5, TaskCommit
  <2>4. request'[r] = y /\ \A s \in Requests : s # r => request'[s] = request[s]
    BY <2>3, Replaced
  <2>5. CASE x.op.do # "assign"
    <3>1. TaskStatusWritten(x)
      BY <1>2, <1>5, <2>5, TaskCommit
    <3>2. /\ row'.status = Asked(x) /\ TaskTransition(row.status, Asked(x))
          /\ row'.finisher = IF Asked(x) = "completed" THEN x.user ELSE Nobody
          /\ row'.canceller = IF Asked(x) = "canceled" THEN x.user ELSE Nobody
          /\ row'.assignee = row.assignee /\ row'.assigner = row.assigner
      BY <2>1, <3>1 DEF TaskStatusWritten
    <3>3. ASSUME NEW k \in {"completed", "canceled"}, EndIsTold(k) PROVE EndIsTold(k)'
      <4>1. row.status = k => row'.status = k
        BY <3>2 DEF TaskTransition
      <4>2. IsLeft(k, y) => row'.status = k
        BY <2>3, <3>2 DEF TaskLeft, Asked
      <4>3. Exists'
        BY <1>2, <1>5, TaskCommit, RowKinds DEF Exists
      <4>4. k \in log \/ (\E s \in Requests : IsLeft(k, request[s])) => row.status = k
        BY <3>3 DEF EndIsTold
      <4>5. ASSUME NEW s \in Requests, IsLeft(k, request'[s]) PROVE IsLeft(k, y) \/ IsLeft(k, request[s])
        BY <2>4, <4>5 DEF IsLeft
      <4> QED
        BY <1>1, <4>1, <4>2, <4>3, <4>4, <4>5 DEF EndIsTold, IsLeft
    <3> QED
      BY <1>1, <1>5, <2>1, <2>2, <3>2, <3>3 DEF StoryInv, Paired
  <2>6. CASE x.op.do = "assign"
    <3>1. TaskAssigneeWritten(x) /\ x.op.to \in Users
      BY <1>2, <1>5, <2>1, <2>6, TaskCommit DEF MayWriteTask
    <3>2. /\ row'.status = row.status /\ row'.finisher = row.finisher /\ row'.canceller = row.canceller
          /\ Paired(row'.assignee, row'.assigner)
      BY <1>3, <2>1, <2>2, <3>1 DEF TaskAssigneeWritten, Paired
    <3>3. ASSUME NEW k \in {"completed", "canceled"}, EndIsTold(k) PROVE EndIsTold(k)'
      <4>1. ~IsLeft(k, y)
        BY <2>3, <2>6 DEF TaskLeft
      <4>2. Exists'
        BY <1>2, <1>5, TaskCommit, RowKinds DEF Exists
      <4>3. ASSUME NEW s \in Requests, IsLeft(k, request'[s]) PROVE IsLeft(k, request[s])
        BY <2>4, <4>1, <4>3 DEF IsLeft
      <4> QED
        BY <1>1, <3>2, <3>3, <4>2, <4>3 DEF EndIsTold, IsLeft
    <3> QED
      BY <1>1, <1>5, <2>2, <3>2, <3>3 DEF StoryInv, Paired
  <2> QED
    BY <2>5, <2>6
<1>6. CASE table = "note"
  <2>1. MayWriteNote(x) /\ x.user # Nobody /\ row = x.read /\ row' \in NoteRows
    BY <1>1, <1>2, <1>3, <1>6, NoteCommit DEF MayWriteNote
  <2>2. Exists /\ (row.deleted <=> row.deleter # Nobody)
    <3>1. Exists
      BY <2>1, RowKinds DEF MayWriteNote, Exists
    <3> QED
      BY <1>1, <1>6, <3>1 DEF StoryInv
  <2>3. row'.deleted <=> row'.deleter # Nobody
    <3>1. CASE x.op.do = "edit"
      BY <1>2, <1>6, <2>2, <3>1, NoteCommit
    <3>2. CASE x.op.do = "delete" /\ x.read.deleted
      BY <1>2, <1>6, <2>2, <3>2, NoteCommit
    <3>3. CASE x.op.do = "delete" /\ ~x.read.deleted
      BY <1>2, <1>6, <2>1, <2>2, <3>3, NoteCommit
    <3> QED
      BY <2>1, <3>1, <3>2, <3>3 DEF MayWriteNote
  <2> QED
    BY <1>1, <1>6, <2>3 DEF StoryInv
<1> QED
  BY <1>4, <1>5, <1>6 DEF Typed, RowTyped, Tables

LEMMA StoryStep ==
   ASSUME Typed, StoryInv, [Next]_vars PROVE StoryInv'
<1>1. CASE UNCHANGED vars
  BY <1>1 DEF vars, trail, StoryInv, EndIsTold, IsLeft, Exists, Paired
<1>2. CASE Next
  BY <1>2, Steps, StoryQuietly, StoryTell, StoryLog, StoryCreated, StoryCommit
<1> QED
  BY <1>1, <1>2

-----------------------------------------------------------------------------
(* The trail tells the status. *)

LEMMA OwesAfter ==
   ASSUME Typed, NEW r \in Requests, NEW y, RequestBecomes(r, y)
   PROVE  /\ Owes(r)' <=> Owing(y)
          /\ Op(r)' = y.op /\ request'[r] = y
          /\ \A q \in Requests : q # r =>
                /\ Owes(q)' <=> Owes(q)
                /\ Op(q)' = Op(q) /\ request'[q] = request[q]
BY Replaced DEF Owes, Owing, At, Op

\* A step that moves no case and tells no notice: a request that had one to
\* write still has it, or is lost.
LEMMA TrailStays ==
   ASSUME Typed, TrailInv, NEW r \in Requests, NEW y, RequestBecomes(r, y), ~Owing(y),
          ~Owes(r) \/ r \in untold', untold \subseteq untold',
          UNCHANGED <<lastMove, notice, table>>, table = "case" => row'.status = row.status
   PROVE  TrailInv'
<1>1. \A q \in Requests : /\ Owes(q)' => q # r /\ Owes(q)
                          /\ q # r => (Owes(q)' <=> Owes(q)) /\ Op(q)' = Op(q) /\ request'[q] = request[q]
  BY OwesAfter
<1>2. PICK b : b = lastMove.by
  OBVIOUS
<1>3. TrailTellsStatus'
  <2>1. CASE lastMove = NoMove
    BY <2>1 DEF TrailTellsStatus
  <2>2. CASE lastMove # NoMove
    <3>1. b \in Requests /\ row'.status = row.status
      BY <1>2, <2>2 DEF TrailInv
    <3>2. Owes(b) => Owes(b)' \/ b \in untold'
      BY <1>1, <3>1
    <3>3. \/ notice = [by |-> b, to |-> lastMove.to]
          \/ Owes(b) \/ b \in untold \/ notice.by \in lastMove.behind
      BY <1>2, <2>2 DEF TrailInv, TrailTellsStatus
    <3>4. Owes(lastMove.by)' <=> Owes(b)'
      BY <1>2 DEF Owes, At
    <3>5. row.status = lastMove.to \/ (lastMove.overtook /\ lastMove.from = lastMove.to)
      BY <2>2 DEF TrailInv, TrailTellsStatus
    <3> QED
      BY <1>2, <3>1, <3>2, <3>3, <3>4, <3>5 DEF TrailTellsStatus
  <2> QED
    BY <2>1, <2>2
<1>4. ASSUME NEW q \in Requests, Owes(q)'
      PROVE  /\ (q = lastMove.by /\ Op(q)'.to = lastMove.to) \/ q \in lastMove.behind
             /\ Tail(request'[q].left) \in Seq(OtherKinds)
  <2>1. Owes(q) /\ Op(q)' = Op(q) /\ request'[q] = request[q]
    BY <1>1, <1>4
  <2> QED
    BY <2>1 DEF TrailInv, Op
<1> QED
  BY <1>3, <1>4 DEF TrailInv, Op

LEMMA TrailUnchanged ==
   ASSUME TrailInv, UNCHANGED <<lastMove, notice, untold, table, row, request>> PROVE TrailInv'
BY DEF TrailInv, TrailTellsStatus, Owes, At, Op

LEMMA TrailTell ==
   ASSUME Typed, TrailInv, NEW r \in Requests, Tell(r) PROVE TrailInv'
<1>1. PICK y : RequestBecomes(r, y) /\ y.left = Tail(request[r].left)
  BY TellEffect
<1>2. /\ UNCHANGED <<lastMove, table, row, untold>> /\ Owes(r)
      /\ notice' = [by |-> r, to |-> Op(r).to]
  BY DEF Tell
<1>3. ~Owing(y)
  BY <1>1, <1>2, NotOwing DEF TrailInv
<1>4. \A q \in Requests : Owes(q)' =>
         q # r /\ Owes(q) /\ Op(q)' = Op(q) /\ request'[q] = request[q]
  BY <1>1, <1>3, OwesAfter
<1>5. TrailTellsStatus'
  <2>1. notice' = [by |-> lastMove.by, to |-> lastMove.to] \/ notice'.by \in lastMove.behind
    BY <1>2 DEF TrailInv
  <2> QED
    BY <1>2, <2>1 DEF TrailInv, TrailTellsStatus
<1>6. ASSUME NEW q \in Requests, Owes(q)'
      PROVE  /\ (q = lastMove.by /\ Op(q)'.to = lastMove.to) \/ q \in lastMove.behind
             /\ Tail(request'[q].left) \in Seq(OtherKinds)
  <2>1. Owes(q) /\ Op(q)' = Op(q) /\ request'[q] = request[q]
    BY <1>4, <1>6
  <2> QED
    BY <2>1 DEF TrailInv, Op
<1> QED
  BY <1>2, <1>5, <1>6 DEF TrailInv, Op

LEMMA TrailCommit ==
   ASSUME Typed, TrailInv, NEW r \in Requests, Commit(r) PROVE TrailInv'
<1>1. PICK x \in RequestRecords : x = request[r] /\ x.pc = "write"
  BY DEF Typed, Commit, At
<1>2. /\ lastMove' = IF x.op.do \in {"move", "sync"}
                     THEN [by |-> r, from |-> x.read.status, to |-> Columns(r).status,
                           overtook |-> row # x.read, behind |-> {q \in Requests : Owes(q)}]
                     ELSE lastMove
      /\ notice' = IF x.op.do = "sync" THEN [by |-> r, to |-> Columns(r).status] ELSE notice
      /\ UNCHANGED <<table, untold>> /\ ~Owes(r)
  BY <1>1 DEF Commit, Op, Overtook, Owes, At
<1>3. PICK y : RequestBecomes(r, y) /\ y.pc = "log" /\ Keeps(x, y)
  BY <1>1, CaseCommit, TaskCommit, NoteCommit DEF Typed, RowTyped, Tables
<1>4. /\ Owes(r)' <=> Owing(y)
      /\ Op(r)' = y.op /\ request'[r] = y
      /\ \A q \in Requests : q # r =>
            (Owes(q)' <=> Owes(q)) /\ Op(q)' = Op(q) /\ request'[q] = request[q]
  BY <1>3, OwesAfter
<1>5. CASE table = "case" /\ x.op.do \in {"move", "sync"}
  <2>1. /\ row'.status = lastMove'.to \/ (lastMove'.overtook /\ lastMove'.from = lastMove'.to)
        /\ notice' = [by |-> lastMove'.by, to |-> lastMove'.to] \/ Owes(lastMove.by)'
        /\ lastMove'.by = r
        /\ x.op.do = "move" => lastMove'.to = x.op.to
    <3>1. CASE x.op.do = "move"
      <4>1. /\ lastMove'.by = r /\ lastMove'.from = x.read.status /\ lastMove'.to = x.op.to
            /\ lastMove'.overtook = (row # x.read)
            /\ row'.status = IF x.op.to # x.read.status THEN x.op.to ELSE row.status
        BY <1>1, <1>2, <1>5, <3>1, CaseCommit
      <4>2. Owes(r)'
        BY <1>3, <1>4, <3>1 DEF Keeps
      <4>3. Owes(lastMove.by)'
        BY <4>1, <4>2 DEF Owes, At
      <4> QED
        BY <3>1, <4>1, <4>3
    <3>2. CASE x.op.do = "sync"
      <4>1. /\ lastMove'.by = r /\ lastMove'.to = "exported" /\ row'.status = "exported"
            /\ notice' = [by |-> r, to |-> "exported"]
        BY <1>1, <1>2, <1>5, <3>2, CaseCommit
      <4> QED
        BY <3>2, <4>1
    <3> QED
      BY <1>5, <3>1, <3>2
  <2>2. ASSUME NEW q \in Requests, Owes(q)'
        PROVE  /\ (q = lastMove'.by /\ Op(q)'.to = lastMove'.to) \/ q \in lastMove'.behind
               /\ Tail(request'[q].left) \in Seq(OtherKinds)
    <3>1. CASE q = r
      <4>1. x.op.do = "move" /\ y.op = x.op /\ Tail(y.left) \in Seq(OtherKinds)
        BY <1>3, <1>4, <2>2, <3>1 DEF Keeps
      <4> QED
        BY <1>4, <2>1, <3>1, <4>1
    <3>2. CASE q # r
      <4>1. Owes(q) /\ request'[q] = request[q]
        BY <1>4, <2>2, <3>2
      <4>2. q \in lastMove'.behind
        BY <1>2, <1>5, <4>1
      <4> QED
        BY <4>1, <4>2 DEF TrailInv
    <3> QED
      BY <3>1, <3>2
  <2> QED
    BY <1>2, <1>5, <2>1, <2>2 DEF TrailInv, TrailTellsStatus, Op
<1>6. CASE table = "case" /\ x.op.do = "own"
  <2>1. row'.status = row.status /\ lastMove' = lastMove /\ notice' = notice /\ ~Owing(y)
    BY <1>1, <1>2, <1>3, <1>6, CaseCommit DEF Keeps
  <2> QED
    BY <1>2, <1>3, <2>1, TrailStays
<1>7. CASE table # "case"
  <2>1. MayWriteTask(x) \/ MayWriteNote(x)
    BY <1>1, <1>7, TaskCommit, NoteCommit DEF Typed, RowTyped, Tables
  <2>2. x.op.do \notin {"move", "sync"}
    BY <2>1 DEF MayWriteTask, MayWriteNote
  <2>3. lastMove' = lastMove /\ notice' = notice /\ ~Owing(y)
    BY <1>2, <1>3, <2>2 DEF Keeps
  <2> QED
    BY <1>2, <1>3, <1>7, <2>3, TrailStays
<1> QED
  <2>1. table = "case" => MayWriteCase(r, x)
    BY <1>1, CaseCommit
  <2> QED
    BY <1>5, <1>6, <1>7, <2>1 DEF MayWriteCase

\* What the other steps leave a request with.
LEMMA QuietlyEffect ==
   ASSUME Typed, NEW r \in Requests,
          \/ ReadArtifacts(r) \/ ReadEvents(r) \/ ReadExports(r) \/ CreateExport(r)
          \/ \E u \in Users : BeginExport(r, u)
          \/ \E u \in Users : \E op \in Operations(table) : Begin(r, u, op)
          \/ BeginSync /\ r = Worker
   PROVE  /\ ~Owes(r)
          /\ \E y : RequestBecomes(r, y) /\ ~Owing(y)
<1>1. ~Owes(r)
  BY DEF ReadArtifacts, ReadEvents, ReadExports, CreateExport, BeginExport, Begin, BeginSync, Owes,
     At
<1>2. Typed'
  BY ReadTyped, CreateExportEffect, BeginExportTyped, BeginTyped, BeginSyncTyped
<1>3. PICK y : y = request'[r]
  OBVIOUS
<1>4. y \in RequestRecords
  BY <1>2, <1>3 DEF Typed
<1>5. CASE End(r)
  BY <1>1, <1>5, EndEffect, QuietEntries
<1>6. CASE \E y2 : RequestBecomes(r, y2) /\ y2.left = ExportLeft
  BY <1>1, <1>6, QuietEntries
<1>7. ASSUME NEW pc \in {"write", "artifacts", "events", "exports", "create"}, NEW x,
             request' = [request EXCEPT ![r] = x], x.pc = pc
      PROVE  \E y2 : RequestBecomes(r, y2) /\ ~Owing(y2)
  <2>1. y = x
    BY <1>3, <1>7 DEF Typed
  <2> QED
    BY <1>4, <1>7, <2>1 DEF RequestBecomes, Owing
<1>8. ASSUME NEW pc \in {"write", "artifacts", "events", "exports", "create"}, NEW u, NEW op,
             NEW columns, Admit(r, u, op, pc, columns)
      PROVE  \E y2 : RequestBecomes(r, y2) /\ ~Owing(y2)
  <2> DEFINE x == [Idle EXCEPT !.pc = pc, !.user = u, !.op = op, !.read = columns]
  <2>1. x.pc = pc
    BY DEF Idle
  <2>2. request' = [request EXCEPT ![r] = x]
    BY <1>8 DEF Admit
  <2> HIDE DEF x
  <2> QED
    BY <1>7, <2>1, <2>2
<1>9. ASSUME NEW pc \in {"events", "exports", "create"}, NEW columns, Keep(r, pc, columns)
      PROVE  \E y2 : RequestBecomes(r, y2) /\ ~Owing(y2)
  <2>1. PICK old \in RequestRecords : old = request[r]
    BY DEF Typed
  <2>2. PICK read : request' = [request EXCEPT ![r].pc = pc, ![r].read = read]
    BY <1>9 DEF Keep
  <2> DEFINE x == [old EXCEPT !.pc = pc, !.read = read]
  <2>3. x.pc = pc
    BY DEF RequestRecords
  <2>4. request' = [request EXCEPT ![r] = x]
    BY <2>1, <2>2 DEF Typed
  <2> HIDE DEF x
  <2> QED
    BY <1>7, <2>3, <2>4
<1>10. CASE CreateExport(r)
  BY <1>5, <1>6, <1>1, <1>10, CreateExportEffect
<1>11. CASE ReadArtifacts(r) \/ ReadEvents(r) \/ ReadExports(r)
  BY <1>1, <1>9, <1>11 DEF ReadArtifacts, ReadEvents, ReadExports
<1>12. CASE (\E u \in Users : BeginExport(r, u)) \/ (BeginSync /\ r = Worker)
  BY <1>1, <1>5, <1>8, <1>12 DEF BeginExport, BeginSync
<1>13. CASE \E u \in Users : \E op \in Operations(table) : Begin(r, u, op)
  BY <1>1, <1>5, <1>8, <1>13 DEF Begin
<1> QED
  BY <1>10, <1>11, <1>12, <1>13

LEMMA TrailQuietly ==
   ASSUME Typed, TrailInv, Quietly PROVE TrailInv'
<1>1. ASSUME NEW r \in Requests, Lose(r) PROVE TrailInv'
  <2>1. PICK y : RequestBecomes(r, y) /\ ~Owing(y)
    BY <1>1, EndEffect, QuietEntries DEF Lose
  <2>2. /\ UNCHANGED <<lastMove, notice, table, row>> /\ untold \subseteq untold'
        /\ ~Owes(r) \/ r \in untold'
    BY <1>1 DEF Lose
  <2> QED
    BY <2>1, <2>2, TrailStays
<1>2. ASSUME NEW r \in Requests,
             \/ ReadArtifacts(r) \/ ReadEvents(r) \/ ReadExports(r) \/ CreateExport(r)
             \/ \E u \in Users : BeginExport(r, u)
             \/ \E u \in Users : \E op \in Operations(table) : Begin(r, u, op)
             \/ BeginSync /\ r = Worker
      PROVE  TrailInv'
  <2>1. ~Owes(r) /\ \E y : RequestBecomes(r, y) /\ ~Owing(y)
    BY <1>2, QuietlyEffect
  <2>2. UNCHANGED <<lastMove, notice, table, row, untold>>
    BY <1>2 DEF trail, ReadArtifacts, ReadEvents, ReadExports, CreateExport, BeginExport, Begin,
       BeginSync
  <2> QED
    BY <2>1, <2>2, TrailStays
<1>3. CASE EvidenceArrives
  BY <1>3, TrailUnchanged DEF EvidenceArrives, trail
<1>4. Worker \in Requests
  BY DEF Worker, Requests
<1> QED
  BY <1>1, <1>2, <1>3, <1>4 DEF Quietly

LEMMA TrailStep ==
   ASSUME Typed, TrailInv, [Next]_vars PROVE TrailInv'
<1>1. CASE UNCHANGED vars
  BY <1>1, TrailUnchanged DEF vars, trail
<1>2. ASSUME NEW r \in Requests, Log(r) PROVE TrailInv'
  <2>1. PICK y : RequestBecomes(r, y) /\ ~Owing(y)
    BY <1>2, EndEffect, QuietEntries DEF Log
  <2>2. UNCHANGED <<lastMove, notice, table, row, untold>> /\ ~Owes(r)
    BY <1>2 DEF Log
  <2> QED
    BY <2>1, <2>2, TrailStays
<1>3. ASSUME NEW u \in Users, CreateTask(u) \/ CreateNote(u) PROVE TrailInv'
  <2>1. /\ UNCHANGED <<lastMove, notice, table, untold>> /\ table # "case" /\ ~Owes(1)
        /\ 1 \in Requests
    BY <1>3 DEF CreateTask, CreateNote, Created, trail, Owes, At, Requests
  <2>2. CASE End(1)
    BY <2>1, <2>2, EndEffect, QuietEntries, TrailStays
  <2>3. CASE request' = [request EXCEPT ![1] = [Idle EXCEPT !.pc = "log", !.left = <<"created", "audit">>]]
    <3>1. <<"created", "audit">> \in Seq(Kinds)
      BY DEF Kinds
    <3> QED
      BY <2>1, <2>3, <3>1, LogEffect, QuietEntries, TrailStays
  <2> QED
    BY <1>3, <2>2, <2>3 DEF CreateTask, CreateNote, Created
<1>4. CASE Next
  BY <1>2, <1>3, <1>4, Steps, TrailQuietly, TrailTell, TrailCommit
<1> QED
  BY <1>1, <1>4

-----------------------------------------------------------------------------
(* End states hold. *)

\* A step that changes a row is the commit of a request.
LEMMA RowChanges ==
   ASSUME Typed, [Next]_vars, Exists, row' # row PROVE \E r \in Requests : Commit(r)
<1>1. Next
  BY DEF vars
<1>2. ASSUME NEW r \in Requests, Tell(r) \/ Log(r) PROVE FALSE
  BY <1>2 DEF Tell, Log
<1>3. ASSUME NEW u \in Users, CreateTask(u) \/ CreateNote(u) PROVE FALSE
  BY <1>3 DEF CreateTask, CreateNote, Created
<1>4. ASSUME Quietly PROVE FALSE
  BY <1>4 DEF Quietly, Lose, ReadArtifacts, ReadEvents, ReadExports, CreateExport, BeginExport,
     Begin, BeginSync, EvidenceArrives
<1> QED
  BY <1>1, <1>2, <1>3, <1>4, Steps

LEMMA CloseAndReopen ==
   ASSUME NEW u, NEW from \in Statuses, NEW to \in Statuses, MayMove(u, from, to)
   PROVE  /\ from = "closed" /\ to # "closed" =>
                to = "in_review" /\ Can(u, "incident:reopen")
          /\ to = "closed" => Can(u, "incident:close")
<1>1. CASE to = "closed"
  <2>1. RequiredCapability(from, to) = "incident:close"
    BY <1>1 DEF RequiredCapability
  <2> QED
    BY <1>1, <2>1 DEF MayMove
<1>2. CASE from = "closed" /\ to # "closed"
  <2>1. AllowedTransitions[from] = {} /\ PrivilegedTransitions[from] = {"in_review"}
    BY <1>2 DEF AllowedTransitions, PrivilegedTransitions
  <2>2. to = "in_review"
    BY <1>2, <2>1 DEF MayMove, ValidTransition
  <2>3. RequiredCapability(from, to) = "incident:reopen"
    BY <1>2, <2>2 DEF RequiredCapability
  <2> QED
    BY <2>2, <2>3, <1>2 DEF MayMove
<1> QED
  BY <1>1, <1>2

\* What EndStatesHold says of the request that commits.
EndsHeld(r) ==
   /\ (table = "case" /\ row.status = "closed" /\ row'.status # "closed") =>
         \/ Overtook(r)
         \/ row'.status = "in_review" /\ Can(request[r].user, "incident:reopen")
   /\ (table = "case" /\ row.status # "closed" /\ row'.status = "closed") =>
         r # Worker /\ Can(request[r].user, "incident:close")
   /\ (table = "task" /\ row.status # "open" /\ row'.status # row.status) => Overtook(r)
   /\ (table = "note" /\ row.deleted /\ row'.editor # row.editor) => Overtook(r)

LEMMA CommitHolds ==
   ASSUME Typed, NEW r \in Requests, Commit(r)
   PROVE  EndsHeld(r) /\ At(r, "write") /\ request'[r].pc = "log"
<1>1. PICK x \in RequestRecords : x = request[r]
  BY DEF Typed
<1>2. request'[r].pc = "log"
  <2>1. PICK y : RequestBecomes(r, y) /\ y.pc = "log"
    BY CaseCommit, TaskCommit, NoteCommit DEF Typed, RowTyped, Tables
  <2> QED
    BY <2>1, Replaced
<1>3. CASE table = "case"
  <2>1. MayWriteCase(r, x) /\ row \in CaseRows
    BY <1>1, <1>3, CaseCommit
  <2>2. CASE x.op.do = "move"
    <3>1. /\ r # Worker /\ x.op.to \in Statuses /\ x.read.status \in Statuses
          /\ MayMove(x.user, x.read.status, x.op.to)
      BY <2>1, <2>2 DEF MayWriteCase, CaseRows
    <3>2. row'.status = IF x.op.to # x.read.status THEN x.op.to ELSE row.status
      BY <1>1, <1>3, <2>2, CaseCommit
    <3>3. /\ x.read.status = "closed" /\ x.op.to # "closed" =>
                x.op.to = "in_review" /\ Can(x.user, "incident:reopen")
          /\ x.op.to = "closed" => Can(x.user, "incident:close")
      BY <3>1, CloseAndReopen
    <3>4. ~Overtook(r) => row = x.read
      BY <1>1 DEF Overtook
    <3> QED
      BY <1>1, <1>2, <1>3, <3>1, <3>2, <3>3, <3>4 DEF EndsHeld, Commit
  <2>3. CASE x.op.do = "sync"
    <3>1. row'.status = "exported" /\ x.read.status = "ready_for_export"
      BY <1>1, <1>3, <2>1, <2>3, CaseCommit DEF MayWriteCase
    <3> QED
      BY <1>1, <1>2, <1>3, <3>1 DEF EndsHeld, Commit, Overtook
  <2>4. CASE x.op.do = "own"
    <3>1. row'.status = row.status
      BY <1>1, <1>3, <2>4, CaseCommit
    <3> QED
      BY <1>2, <1>3, <3>1 DEF EndsHeld, Commit
  <2> QED
    BY <2>1, <2>2, <2>3, <2>4 DEF MayWriteCase
<1>4. CASE table = "task"
  <2>1. ~Overtook(r) => row = x.read
    BY <1>1 DEF Overtook
  <2>2. CASE x.op.do # "assign"
    <3>1. /\ TaskTransition(x.read.status, Asked(x))
          /\ row'.status = IF Asked(x) # x.read.status THEN Asked(x) ELSE row.status
      BY <1>1, <1>4, <2>2, TaskCommit DEF TaskStatusWritten
    <3> QED
      BY <1>2, <1>4, <2>1, <3>1 DEF EndsHeld, Commit, TaskTransition
  <2>3. CASE x.op.do = "assign"
    <3>1. row'.status = row.status
      BY <1>1, <1>4, <2>3, TaskCommit DEF TaskAssigneeWritten
    <3> QED
      BY <1>2, <1>4, <3>1 DEF EndsHeld, Commit
  <2> QED
    BY <2>2, <2>3
<1>5. CASE table = "note"
  <2>1. MayWriteNote(x)
    BY <1>1, <1>5, NoteCommit
  <2>2. CASE x.op.do = "edit"
    BY <1>1, <1>2, <1>5, <2>2, NoteCommit DEF EndsHeld, Commit, Overtook
  <2>3. CASE x.op.do = "delete"
    <3>1. row'.editor = row.editor
      BY <1>1, <1>5, <2>3, NoteCommit
    <3> QED
      BY <1>2, <1>5, <3>1 DEF EndsHeld, Commit
  <2> QED
    BY <2>1, <2>2, <2>3 DEF MayWriteNote
<1> QED
  BY <1>3, <1>4, <1>5 DEF Typed, RowTyped, Tables

-----------------------------------------------------------------------------
(* Clean exports are earned. *)

\* A share is no more than a hundred.
LEMMA ShareBound ==
   ASSUME NEW c \in Nat, NEW d \in Nat, c <= d PROVE Share(c, d) \in 0..100
<1>1. CASE d = 0
  BY <1>1 DEF Share
<1>2. CASE d # 0
  <2> DEFINE n == 200 * c + d
             m == 2 * d
  <2>1. n \in Nat /\ m \in Nat /\ m > 0 /\ n < 101 * m
    BY <1>2
  <2>2. Share(c, d) = n \div m
    BY <1>2 DEF Share, Rounded
  <2> HIDE DEF n, m
  <2>3. n \div m \in Int /\ n \div m >= 0 /\ n \div m < 101
    BY <2>1
  <2> QED
    BY <2>2, <2>3
<1> QED
  BY <1>1, <1>2

LEMMA WithoutExport ==
   ASSUME NEW e, e.artifacts \in [Artifacts -> ArtifactStatuses], ~e.ready
   PROVE  Percent(e) < 90
<1> DEFINE captured == InStatus(e, "captured")
           rows == Rows(e)
           checks == TimelineChecks(e)
<1>1. IsFiniteSet(Artifacts)
  BY Names
<1>2. DOMAIN e.artifacts = Artifacts
  OBVIOUS
<1>3. rows \subseteq Artifacts /\ captured \subseteq rows
  BY <1>2 DEF Rows, InStatus
<1>4. IsFiniteSet(rows) /\ IsFiniteSet(captured)
  BY <1>1, <1>3, FS_Subset
<1>5. Cardinality(rows) \in Nat /\ Cardinality(captured) \in Nat
      /\ Cardinality(captured) <= Cardinality(rows)
  BY <1>3, <1>4, FS_Subset, FS_CardinalityType
<1>6. Cardinality(checks) \in Nat /\ Cardinality(checks) <= 3
  <2> DEFINE kinds == {"collected", "validated", "exported"}
  <2>1. IsFiniteSet({}) /\ Cardinality({}) = 0
    BY FS_EmptySet
  <2>2. IsFiniteSet({"collected"}) /\ Cardinality({"collected"}) = 1
    BY FS_Singleton
  <2>3. /\ IsFiniteSet({"collected"} \cup {"validated"})
        /\ Cardinality({"collected"} \cup {"validated"}) = 2
    BY <2>2, FS_AddElement
  <2>4. /\ IsFiniteSet(({"collected"} \cup {"validated"}) \cup {"exported"})
        /\ Cardinality(({"collected"} \cup {"validated"}) \cup {"exported"}) = 3
    BY <2>3, FS_AddElement
  <2>5. kinds = ({"collected"} \cup {"validated"}) \cup {"exported"}
    OBVIOUS
  <2>6. IsFiniteSet(kinds) /\ Cardinality(kinds) = 3
    BY <2>4, <2>5
  <2>7. checks \subseteq kinds
    BY DEF TimelineChecks
  <2> HIDE DEF kinds, checks
  <2>8. IsFiniteSet(checks) /\ Cardinality(checks) <= Cardinality(kinds)
    BY <2>6, <2>7, FS_Subset
  <2> QED
    BY <2>6, <2>8, FS_CardinalityType
<1> DEFINE A == Share(Cardinality(captured), Cardinality(rows))
           T == Share(Cardinality(checks), 3)
<1>7. A \in 0..100 /\ T \in 0..100
  BY <1>5, <1>6, ShareBound
<1>8. Percent(e) = Rounded(12 * A + 5 * T + 3 * 0, 20)
  BY DEF Percent
<1> HIDE DEF A, T
<1>9. Rounded(12 * A + 5 * T + 3 * 0, 20) = (2 * (12 * A + 5 * T) + 20) \div 40
  BY <1>7 DEF Rounded
<1> QED
  BY <1>7, <1>8, <1>9

LEMMA NothingBlocks ==
   ASSUME NEW e, Blocking(e) = {} PROVE e.validated
<1> SUFFICES ASSUME ~e.validated PROVE FALSE
  OBVIOUS
<1> DEFINE b == [code |-> "timeline_validation_missing", severity |-> "important", blocks |-> TRUE]
<1>1. b \in Blockers(e)
  BY DEF Blockers
<1>2. b.blocks
  OBVIOUS
<1> QED
  BY <1>1, <1>2 DEF Blocking

LEMMA ReadyIsEarned ==
   ASSUME NEW status, NEW e, e.artifacts \in [Artifacts -> ArtifactStatuses],
          Readiness(status, e) \notin {"not_ready", "conditionally_ready"}
   PROVE  status \in {"closed", "exported"} \/ (e.ready /\ e.validated)
<1> SUFFICES ASSUME status \notin {"closed", "exported"} PROVE e.ready /\ e.validated
  OBVIOUS
<1>1. Critical(e) = {} /\ Blocking(e) = {} /\ ~(Percent(e) < 90)
  BY DEF Readiness
<1> QED
  BY <1>1, NothingBlocks, WithoutExport

LEMMA EarnedStep ==
   ASSUME Typed, CleanExportIsEarned, [Next]_vars PROVE CleanExportIsEarned'
<1>1. ASSUME UNCHANGED exports, evidence.ready => evidence'.ready,
             evidence.validated => evidence'.validated
      PROVE  CleanExportIsEarned'
  BY <1>1 DEF CleanExportIsEarned
<1>2. CASE UNCHANGED <<exports, evidence>>
  BY <1>1, <1>2
<1>3. PICK e \in EvidenceRecords : e = evidence
  BY DEF Typed
<1>4. ASSUME NEW r \in Requests, Log(r) PROVE CleanExportIsEarned'
  <2>1. evidence' = e \/ evidence' = [e EXCEPT !.exported = TRUE]
    BY <1>3, <1>4 DEF Log
  <2>2. evidence'.ready = e.ready /\ evidence'.validated = e.validated
    BY <2>1 DEF EvidenceRecords
  <2>3. UNCHANGED exports
    BY <1>4 DEF Log
  <2> QED
    BY <1>1, <1>3, <2>2, <2>3
<1>5. CASE BeginSync
  <2>1. evidence' = [e EXCEPT !.ready = TRUE, !.requested = TRUE, !.exported = TRUE]
    BY <1>3, <1>5 DEF BeginSync
  <2>2. evidence'.ready /\ evidence'.validated = e.validated
    BY <2>1 DEF EvidenceRecords
  <2>3. UNCHANGED exports
    BY <1>5 DEF BeginSync
  <2> QED
    BY <1>1, <1>3, <2>2, <2>3
<1>6. CASE EvidenceArrives
  <2>1. \/ evidence' = [e EXCEPT !.validated = TRUE]
        \/ \E a \in Artifacts : \E s \in ArtifactStatuses : evidence' = [e EXCEPT !.artifacts[a] = s]
    BY <1>3, <1>6 DEF EvidenceArrives
  <2>2. evidence'.ready = e.ready /\ (e.validated => evidence'.validated)
    BY <2>1 DEF EvidenceRecords
  <2>3. UNCHANGED exports
    BY <1>6 DEF EvidenceArrives
  <2> QED
    BY <1>1, <1>3, <2>2, <2>3
<1>7. ASSUME NEW r \in Requests, CreateExport(r) PROVE CleanExportIsEarned'
  <2>1. PICK x \in RequestRecords : x = request[r] /\ Admitted(r, x) /\ x.pc = "create"
    BY <1>7 DEF CreateExport, At, Typed
  <2>2. /\ x.read \in AllRead
        /\ x.read.validated => evidence.validated
        /\ x.read.ready => evidence.ready
    BY <2>1 DEF Admitted
  <2> DEFINE state == Readiness(x.read.status, x.read)
  <2>3. CASE state = "not_ready"
    BY <1>2, <1>7, <2>1, <2>3 DEF CreateExport
  <2>4. CASE state # "not_ready"
    <3>1. /\ exports' = exports \cup {[by |-> r, status |-> x.read.status,
                                       warned |-> state = "conditionally_ready"]}
          /\ evidence' = [e EXCEPT !.requested = TRUE]
      BY <1>3, <1>7, <2>1, <2>4 DEF CreateExport
    <3>2. evidence'.ready = e.ready /\ evidence'.validated = e.validated
      BY <3>1 DEF EvidenceRecords
    <3>3. x.read.artifacts \in [Artifacts -> ArtifactStatuses]
      BY <2>2 DEF AllRead
    <3>4. \/ state = "conditionally_ready" \/ x.read.status \in {"closed", "exported"}
          \/ x.read.ready /\ x.read.validated
      BY <2>4, <3>3, ReadyIsEarned
    <3> HIDE DEF state
    <3>5. ASSUME NEW w \in exports'
          PROVE  w.warned \/ w.status \in {"closed", "exported"}
                   \/ (evidence'.ready /\ evidence'.validated)
      <4>1. CASE w \in exports
        BY <1>3, <3>2, <4>1 DEF CleanExportIsEarned
      <4>2. CASE w = [by |-> r, status |-> x.read.status, warned |-> state = "conditionally_ready"]
        <5>1. w.status = x.read.status /\ w.warned = (state = "conditionally_ready")
          BY <4>2
        <5> QED
          BY <1>3, <2>2, <3>2, <3>4, <5>1
      <4> QED
        BY <3>1, <3>5, <4>1, <4>2
    <3> QED
      BY <3>5 DEF CleanExportIsEarned
  <2> QED
    BY <2>3, <2>4
<1>8. CASE Quietly
  BY <1>2, <1>5, <1>6, <1>7, <1>8 DEF Quietly, Lose, ReadArtifacts, ReadEvents, ReadExports,
     BeginExport, Begin
<1>9. CASE Next
  BY <1>2, <1>4, <1>8, <1>9, Steps DEF Commit, Tell, CreateTask, CreateNote, Created
<1> QED
  BY <1>2, <1>9 DEF vars

-----------------------------------------------------------------------------
(* The theorems. *)

Inv == Typed /\ StoryInv /\ TrailInv /\ CleanExportIsEarned

LEMMA InvInit == Init => Inv
<1>1. Init => TrailInv /\ CleanExportIsEarned
  <2>1. ASSUME Init PROVE \A r \in Requests : ~Owing(request[r])
    BY <2>1, IdleFacts DEF Init, Owing
  <2> QED
    BY <2>1 DEF Init, TrailInv, TrailTellsStatus, CleanExportIsEarned, Owes, Owing, At
<1> QED
  BY <1>1, TypedInit, StoryInit DEF Inv

LEMMA InvStep == Inv /\ [Next]_vars => Inv'
BY TypedStep, StoryStep, TrailStep, EarnedStep DEF Inv

LEMMA Holds == Spec => []Inv
BY InvInit, InvStep, PTL DEF Spec

LEMMA TypesMean == Typed => TypeOK
<1> SUFFICES ASSUME Typed PROVE TypeOK
  OBVIOUS
<1>1. Exists => DOMAIN row = DOMAIN (CASE table = "case" -> NewCase("new")
                                       [] table = "task" -> NewTask(Nobody, Nobody)
                                       [] OTHER -> NewNote(Nobody))
  BY RowKinds DEF Typed, RowTyped, Tables, Exists, NewCase, NewTask, NewNote
<1>2. ASSUME NEW r \in Requests
      PROVE  /\ request[r].pc \in {"idle", "write", "artifacts", "events", "exports", "create",
                                   "log", "over"}
             /\ request[r].user \in Users \cup {Nobody}
  <2>1. request[r] \in RequestRecords
    BY DEF Typed
  <2> QED
    BY <2>1 DEF RequestRecords, Pcs, People
<1>3. table \in Tables /\ overtaken \in BOOLEAN
  BY DEF Typed, RowTyped
<1> QED
  BY <1>1, <1>2, <1>3, EvidenceFacts DEF TypeOK

LEMMA StoryMeans == Typed /\ StoryInv => RowTellsOneStory
<1> SUFFICES ASSUME Typed, StoryInv PROVE RowTellsOneStory
  OBVIOUS
<1>1. TypeOK
  BY TypesMean
<1>2. ~({"completed", "canceled"} \subseteq log) \/ overtaken \/ table # "task"
  BY DEF StoryInv, EndIsTold
<1>3. ASSUME Exists, ~overtaken
      PROVE  CASE table = "case" -> (row.owner = Nobody) = (row.by = Nobody)
               [] table = "task" ->
                     /\ (row.status = "completed") = (row.finisher # Nobody)
                     /\ (row.status = "canceled") = (row.canceller # Nobody)
                     /\ (row.assignee = Nobody) = (row.assigner = Nobody)
                     /\ ~({"completed", "canceled"} \subseteq log)
               [] OTHER -> row.deleted = (row.deleter # Nobody)
  <2>1. CASE table = "case"
    BY <1>3, <2>1 DEF StoryInv, Paired
  <2>2. CASE table = "task"
    <3>1. /\ row.status = "completed" <=> row.finisher # Nobody
          /\ row.status = "canceled" <=> row.canceller # Nobody
          /\ row.assignee = Nobody <=> row.assigner = Nobody
      BY <1>3, <2>2 DEF StoryInv, Paired
    <3> QED
      BY <1>2, <1>3, <2>2, <3>1
  <2>3. CASE table = "note"
    <3>1. row \in NoteRows
      BY <1>3, <2>3 DEF Typed, RowTyped, Exists
    <3>2. row.deleted \in BOOLEAN /\ (row.deleted <=> row.deleter # Nobody)
      BY <1>3, <2>3, <3>1 DEF StoryInv, NoteRows
    <3> QED
      BY <2>3, <3>2
  <2> QED
    BY <2>1, <2>2, <2>3 DEF Typed, RowTyped, Tables
<1> QED
  BY <1>1, <1>3 DEF RowTellsOneStory

\* Unless a request committed over a row it had not read, the columns of a row
\* agree and a task's events tell of one end of it.
THEOREM RowsTellOneStory == Spec => []RowTellsOneStory
<1>1. Inv => RowTellsOneStory
  BY StoryMeans DEF Inv
<1> QED
  BY <1>1, Holds, PTL

\* The event committed with a case's last move tells the status it has, apart
\* from an overtaken request for the status it had read; and the last notice is
\* that move's, unless it is still to come, was lost, or an earlier mover's
\* notice was appended after it.
THEOREM TrailsTellTheStatus == Spec => []TrailTellsStatus
<1>1. Inv => TrailTellsStatus
  BY DEF Inv, TrailInv
<1> QED
  BY <1>1, Holds, PTL

\* An export without a warning is of a case that is closed or exported, or that
\* has a ready export and a validated timeline.
THEOREM CleanExportsAreEarned == Spec => []CleanExportIsEarned
<1>1. Inv => CleanExportIsEarned
  BY DEF Inv
<1> QED
  BY <1>1, Holds, PTL

LEMMA EndsStep ==
   ASSUME Typed, [Next]_vars, Exists, row' # row
   PROVE  \E r \in Requests : (At(r, "write") /\ request'[r].pc = "log") /\ EndsHeld(r)
<1>1. PICK r \in Requests : Commit(r)
  BY RowChanges
<1> QED
  BY <1>1, CommitHolds

\* Closed cases, finished tasks and deleted notes stay what they are, and cases
\* are closed and reopened by those who may, whatever is read and written when.
THEOREM EndStatesAreKept == Spec => EndStatesHold
<1>1. Inv /\ [Next]_vars =>
        [LET commits(r) == At(r, "write") /\ request'[r].pc = "log"
         IN (Exists /\ row' # row) => \E r \in Requests :
              /\ commits(r)
              /\ (table = "case" /\ row.status = "closed" /\ row'.status # "closed") =>
                      \/ Overtook(r)
                      \/ row'.status = "in_review" /\ Can(request[r].user, "incident:reopen")
              /\ (table = "case" /\ row.status # "closed" /\ row'.status = "closed") =>
                      r # Worker /\ Can(request[r].user, "incident:close")
              /\ (table = "task" /\ row.status # "open" /\ row'.status # row.status) => Overtook(r)
              /\ (table = "note" /\ row.deleted /\ row'.editor # row.editor) => Overtook(r)
        ]_vars
  BY EndsStep DEF Inv, EndsHeld
<1> QED
  BY <1>1, Holds, PTL DEF Spec, EndStatesHold


-----------------------------------------------------------------------------
(* The upload queue.  An item's version in memory, in a write under way    *)
(* and in the storage may differ, but each version has the items of the    *)
(* ones before it, and whatever one of them calls uploaded is captured.    *)

Keys == {Type[i] : i \in Items}
ItemRecs == [status : ItemStatuses, attempts : Nat, due : BOOLEAN]
Queues == UNION {[D -> ItemRecs] : D \in SUBSET Items}
Pass == {"rest", "prepare", "request", "issued", "put", "complete", "succeed", "retry", "fail"} \cup Waits
WorkerRecs == [pc : Pass, left : Seq(Items), tries : Nat, artifact : Nat, own : Nat]
RowRecs == [item : Items, key : Keys, status : {"pending", "captured"}]

UploadTyped ==
   /\ queue \in Queues /\ storage \in Queues /\ writes \in Seq(Queues)
   /\ hydrated \in BOOLEAN /\ blank \in BOOLEAN
   /\ worker \in WorkerRecs
   /\ artifacts \in Seq(RowRecs)
   /\ objects \in [Keys -> SUBSET Items]
   /\ worker.pc # "rest" =>
         hydrated /\ worker.left # <<>> /\ \A k \in 1..Len(worker.left) : worker.left[k] \in DOMAIN queue
   /\ ~hydrated => writes = <<>>
   /\ worker.own <= Len(writes) /\ (worker.own > 0 <=> worker.pc \in Waits)
   /\ worker.artifact <= Len(artifacts)

\* The versions of the queue, the stored one first.
Version(k) == IF k = 0 THEN storage ELSE writes[k]
NextVersion(k) == IF k = 0 THEN storage' ELSE writes'[k]

\* Until the storage could not be read, no version forgets what an earlier one
\* has: what was answered as kept is stored, and what has a row is.
KeptInv ==
   ~blank =>
      /\ kept \subseteq DOMAIN storage
      /\ \A k \in 0..Len(writes) : \A j \in 0..k : DOMAIN Version(j) \subseteq DOMAIN Version(k)
      /\ hydrated => \A k \in 0..Len(writes) : DOMAIN Version(k) \subseteq DOMAIN queue
      /\ \A a \in DOMAIN artifacts : artifacts[a].item \in DOMAIN storage

\* The version the attempt waits for has the item, and the storage has it when a
\* row is asked for.
StoredInv ==
   ~blank =>
      /\ worker.pc = "preparing" => Item \in DOMAIN writes[worker.own]
      /\ worker.pc = "request" => Item \in DOMAIN storage

HasCaptured(i) == \E a \in DOMAIN artifacts : artifacts[a].item = i /\ artifacts[a].status = "captured"
TrueQueue(q) == \A i \in DOMAIN q : q[i].status = "uploaded" => HasCaptured(i)

\* The object under a key, if there is one, is of an item of that type.
OneObject(t) == objects[t] = {} \/ \E j \in Items : Type[j] = t /\ objects[t] = {j}

QueuesTrue == /\ TrueQueue(queue) /\ TrueQueue(storage)
              /\ \A k \in 1..Len(writes) : TrueQueue(writes[k])

ObjectsHeld ==
   /\ \A a \in DOMAIN artifacts :
         /\ artifacts[a].key = Type[artifacts[a].item]
         /\ artifacts[a].status = "captured" => objects[artifacts[a].key] # {}
   /\ \A t \in Keys : OneObject(t)

\* How far the worker has got with its row.
WorkerKnows ==
   /\ worker.pc \in {"issued", "prepared", "put", "complete", "succeed"} =>
         worker.artifact > 0 /\ artifacts[worker.artifact].item = Item
   /\ worker.pc = "succeed" => artifacts[worker.artifact].status = "captured"
   /\ worker.pc \in {"complete", "succeed"} => objects[Type[Item]] # {}

RowsInv == QueuesTrue /\ ObjectsHeld /\ WorkerKnows

UploadInv == UploadTyped /\ KeptInv /\ StoredInv /\ RowsInv

LEMMA UploadNames == IsFiniteSet(Items) /\ DOMAIN Type = Items /\ MaxTries \in Nat
BY UploadAssumption

LEMMA QueueFacts ==
   ASSUME NEW q \in Queues
   PROVE  /\ DOMAIN q \subseteq Items /\ q \in [DOMAIN q -> ItemRecs]
          /\ \A i \in DOMAIN q : q[i] \in ItemRecs
BY DEF Queues

LEMMA QueueOf ==
   ASSUME NEW D, D \subseteq Items, NEW q \in [D -> ItemRecs] PROVE q \in Queues
BY DEF Queues

LEMMA RestFacts ==
   /\ Rest \in WorkerRecs /\ Rest.pc = "rest" /\ Rest.left = <<>>
   /\ Rest.artifact = 0 /\ Rest.own = 0
<1>1. <<>> \in Seq(Items)
  OBVIOUS
<1> QED
  BY <1>1 DEF Rest, WorkerRecs, Pass

\* The item at work.
LEMMA ItemFacts ==
   ASSUME UploadTyped, worker.pc # "rest"
   PROVE  /\ Item \in DOMAIN queue /\ Item \in Items /\ Type[Item] \in Keys /\ hydrated
          /\ Len(worker.left) \in Nat /\ Len(worker.left) >= 1
          /\ worker.left \in Seq(Items) /\ Item = worker.left[1]
<1>1. worker.left \in Seq(Items) /\ worker.left # <<>>
  BY DEF UploadTyped, WorkerRecs
<1>2. Len(worker.left) \in Nat /\ Len(worker.left) >= 1 /\ Item = worker.left[1]
  BY <1>1 DEF Item
<1>3. Item \in DOMAIN queue
  BY <1>2 DEF UploadTyped
<1>4. Item \in Items
  BY <1>3, QueueFacts DEF UploadTyped
<1> QED
  BY <1>1, <1>2, <1>3, <1>4 DEF UploadTyped, Keys

-----------------------------------------------------------------------------
(* What the steps of the store do. *)

\* A new version of the queue, with the items it had.
NewVersion(q) ==
   /\ queue' = q /\ writes' = Append(writes, q) /\ q \in Queues /\ DOMAIN queue \subseteq DOMAIN q

LEMMA VersionTyped ==
   ASSUME UploadTyped, NEW q, NewVersion(q)
   PROVE  /\ queue' \in Queues /\ writes' \in Seq(Queues) /\ Len(writes') = Len(writes) + 1
          /\ \A k \in 1..Len(writes) : writes'[k] = writes[k]
          /\ writes'[Len(writes) + 1] = q
BY DEF UploadTyped, NewVersion

LEMMA KeptNext ==
   ASSUME kept' \subseteq DOMAIN storage',
          \A k \in 0..Len(writes') : \A j \in 0..k : DOMAIN NextVersion(j) \subseteq DOMAIN NextVersion(k),
          hydrated' => \A k \in 0..Len(writes') : DOMAIN NextVersion(k) \subseteq DOMAIN queue',
          \A a \in DOMAIN artifacts' : artifacts'[a].item \in DOMAIN storage'
   PROVE  KeptInv'
BY DEF KeptInv, Version, NextVersion

LEMMA VersionKept ==
   ASSUME UploadTyped, KeptInv, hydrated, NEW q, NewVersion(q),
          UNCHANGED <<storage, kept, blank, artifacts>>
   PROVE  KeptInv'
<1> SUFFICES ASSUME ~blank PROVE KeptInv'
  BY DEF KeptInv
<1>1. /\ \A k \in 0..Len(writes) : \A j \in 0..k : DOMAIN Version(j) \subseteq DOMAIN Version(k)
      /\ \A k \in 0..Len(writes) : DOMAIN Version(k) \subseteq DOMAIN queue
      /\ \A a \in DOMAIN artifacts : artifacts[a].item \in DOMAIN storage
      /\ kept \subseteq DOMAIN storage
  BY DEF KeptInv
<1>2. /\ Len(writes) \in Nat /\ Len(writes') = Len(writes) + 1
      /\ \A k \in 1..Len(writes) : writes'[k] = writes[k]
      /\ writes'[Len(writes) + 1] = q
  BY VersionTyped DEF UploadTyped
<1>3. /\ \A k \in 0..Len(writes) : NextVersion(k) = Version(k)
      /\ NextVersion(Len(writes) + 1) = q
  BY <1>2 DEF Version, NextVersion
<1> DEFINE V(k) == DOMAIN Version(k)
           W(k) == DOMAIN NextVersion(k)
<1>4. /\ \A k \in 0..Len(writes) : W(k) = V(k) /\ V(k) \subseteq DOMAIN q
      /\ W(Len(writes) + 1) = DOMAIN q
  <2>1. DOMAIN queue \subseteq DOMAIN q
    BY DEF NewVersion
  <2>2. ASSUME NEW k \in 0..Len(writes) PROVE V(k) \subseteq DOMAIN q
    BY <1>1, <1>2, <2>1
  <2> QED
    BY <1>3, <2>2
<1>5. \A k \in 0..Len(writes) : \A j \in 0..k : V(j) \subseteq V(k)
  BY <1>1
<1> HIDE DEF V, W
<1>6. ASSUME NEW k \in 0..Len(writes) + 1, NEW j \in 0..k PROVE W(j) \subseteq W(k)
  <2>1. CASE k \in 0..Len(writes)
    BY <1>2, <1>4, <1>5, <1>6, <2>1
  <2>2. CASE k = Len(writes) + 1
    BY <1>2, <1>4, <1>6, <2>2
  <2> QED
    BY <1>2, <1>6, <2>1, <2>2
<1>7. \A k \in 0..Len(writes') : W(k) \subseteq DOMAIN queue'
  BY <1>2, <1>4 DEF NewVersion
<1> QED
  BY <1>1, <1>2, <1>6, <1>7, KeptNext DEF W

\* Rows that are kept, completed or added: what was captured stays captured.
RowsGrow ==
   \A a \in DOMAIN artifacts :
      /\ a \in DOMAIN artifacts' /\ artifacts'[a].item = artifacts[a].item
      /\ artifacts[a].status = "captured" => artifacts'[a].status = "captured"

LEMMA CapturedStays ==
   ASSUME NEW i, HasCaptured(i), RowsGrow PROVE HasCaptured(i)'
BY DEF HasCaptured, RowsGrow

LEMMA TrueStays ==
   ASSUME NEW q, TrueQueue(q), RowsGrow PROVE TrueQueue(q)'
<1>1. \A i : HasCaptured(i) => HasCaptured(i)'
  BY CapturedStays
<1> QED
  BY <1>1 DEF TrueQueue

\* What the store has is left alone.
StoreSame == UNCHANGED <<queue, writes, storage, hydrated, kept, blank>>

LEMMA QueuesStay ==
   ASSUME UploadTyped, QueuesTrue, RowsGrow, UNCHANGED <<queue, writes, storage>> PROVE QueuesTrue'
<1>1. \A q : TrueQueue(q) => TrueQueue(q)'
  BY TrueStays
<1>2. PICK q : q = queue
  OBVIOUS
<1>3. PICK s : s = storage
  OBVIOUS
<1>4. PICK w : w = writes
  OBVIOUS
<1>5. TrueQueue(q)' /\ TrueQueue(s)' /\ \A k \in 1..Len(w) : TrueQueue(w[k])'
  BY <1>1, <1>2, <1>3, <1>4 DEF QueuesTrue
<1> QED
  BY <1>2, <1>3, <1>4, <1>5 DEF QueuesTrue, TrueQueue

LEMMA NoRowsGrow == ASSUME UNCHANGED artifacts PROVE RowsGrow
BY DEF RowsGrow

\* A step of the worker between the server and itself.
LEMMA WorkerStep ==
   ASSUME UploadInv, hydrated, StoreSame, RowsGrow,
          worker' \in WorkerRecs, artifacts' \in Seq(RowRecs), objects' \in [Keys -> SUBSET Items],
          worker'.pc # "rest" => /\ worker'.left # <<>>
                                 /\ \A k \in 1..Len(worker'.left) : worker'.left[k] \in DOMAIN queue,
          worker'.own = 0, worker'.pc \notin Waits \cup {"request"}, worker'.artifact <= Len(artifacts'),
          ~blank => \A a \in DOMAIN artifacts' : artifacts'[a].item \in DOMAIN storage,
          ObjectsHeld', WorkerKnows'
   PROVE  UploadInv'
<1>1. UploadTyped'
  <2>1. worker'.own <= Len(writes') /\ ~(worker'.own > 0)
    BY DEF UploadInv, UploadTyped, StoreSame
  <2> QED
    BY <2>1 DEF UploadInv, UploadTyped, StoreSame
<1>2. KeptInv' /\ StoredInv'
  BY DEF UploadInv, KeptInv, StoredInv, StoreSame, Version, Waits
<1>3. QueuesTrue'
  BY QueuesStay DEF UploadInv, RowsInv, StoreSame
<1> QED
  BY <1>1, <1>2, <1>3 DEF UploadInv, RowsInv

\* A step that writes a new version of the queue.
LEMMA VersionStep ==
   ASSUME UploadInv, hydrated, NEW q, NewVersion(q), TrueQueue(q),
          UNCHANGED <<storage, hydrated, artifacts, objects, kept, blank>>,
          worker' \in WorkerRecs, worker'.artifact <= Len(artifacts),
          worker'.pc # "rest" => /\ worker'.left # <<>>
                                 /\ \A k \in 1..Len(worker'.left) : worker'.left[k] \in DOMAIN queue,
          worker'.own <= Len(writes) + 1, worker'.own > 0 <=> worker'.pc \in Waits,
          StoredInv', WorkerKnows'
   PROVE  UploadInv'
<1>0. UploadTyped /\ KeptInv /\ RowsInv
  BY DEF UploadInv
<1>1. /\ queue' \in Queues /\ writes' \in Seq(Queues) /\ Len(writes') = Len(writes) + 1
      /\ \A k \in 1..Len(writes) : writes'[k] = writes[k]
      /\ writes'[Len(writes) + 1] = q /\ queue' = q /\ DOMAIN queue \subseteq DOMAIN q
      /\ Len(writes) \in Nat
  BY <1>0, VersionTyped DEF NewVersion, UploadTyped
<1>2. UploadTyped'
  BY <1>0, <1>1 DEF UploadTyped
<1>3. KeptInv'
  BY <1>0, VersionKept
<1>4. QueuesTrue'
  <2>1. \A x : TrueQueue(x) => TrueQueue(x)'
    BY TrueStays, NoRowsGrow
  <2>2. ASSUME NEW k \in 1..Len(writes') PROVE TrueQueue(writes'[k]) 
    <3>1. CASE k \in 1..Len(writes)
      BY <1>0, <1>1, <3>1 DEF RowsInv, QueuesTrue
    <3>2. CASE k = Len(writes) + 1
      BY <1>1, <3>2
    <3> QED
      BY <1>1, <3>1, <3>2
  <2>3. TrueQueue(queue') /\ TrueQueue(storage')
    BY <1>0, <1>1 DEF RowsInv, QueuesTrue
  <2> QED
    BY <2>2, <2>3 DEF QueuesTrue, TrueQueue, HasCaptured
<1>5. ObjectsHeld'
  BY <1>0 DEF RowsInv, ObjectsHeld, OneObject
<1> QED
  BY <1>2, <1>3, <1>4, <1>5 DEF UploadInv, RowsInv

\* What a change of an item assigns.
Assigns(fields) ==
   /\ "status" \in DOMAIN fields => fields.status \in ItemStatuses
   /\ "attempts" \in DOMAIN fields => fields.attempts \in Nat
   /\ "due" \in DOMAIN fields => fields.due \in BOOLEAN
StatusOf(fields, x) == IF "status" \in DOMAIN fields THEN fields.status ELSE x.status

LEMMA ChangedItem ==
   ASSUME NEW x \in ItemRecs, NEW fields, Assigns(fields)
   PROVE  LET y == [f \in DOMAIN x |-> IF f \in DOMAIN fields THEN fields[f] ELSE x[f]]
          IN y \in ItemRecs /\ y.status = StatusOf(fields, x)
<1>1. DOMAIN x = {"status", "attempts", "due"}
  BY DEF ItemRecs
<1>2. x.status \in ItemStatuses /\ x.attempts \in Nat /\ x.due \in BOOLEAN
  BY DEF ItemRecs
<1> DEFINE y == [f \in {"status", "attempts", "due"} |-> IF f \in DOMAIN fields THEN fields[f] ELSE x[f]]
<1>3. /\ y.status = StatusOf(fields, x) /\ y.status \in ItemStatuses /\ y.attempts \in Nat
      /\ y.due \in BOOLEAN
  BY <1>2 DEF Assigns, StatusOf
<1>4. y = [f \in {"status", "attempts", "due"} |-> y[f]]
  OBVIOUS
<1> HIDE DEF y
<1>5. y \in ItemRecs
  BY <1>3, <1>4 DEF ItemRecs
<1> QED
  BY <1>1, <1>3, <1>5 DEF y

LEMMA ChangeEffect ==
   ASSUME UploadTyped, NEW i \in DOMAIN queue, NEW fields, Assigns(fields),
          Update(Changed(i, fields))
   PROVE  \E q : /\ NewVersion(q) /\ DOMAIN q = DOMAIN queue /\ q[i].status = StatusOf(fields, queue[i])
                 /\ \A j \in DOMAIN queue : j # i => q[j] = queue[j]
<1> DEFINE y == [f \in DOMAIN queue[i] |-> IF f \in DOMAIN fields THEN fields[f] ELSE queue[i][f]]
           q == [queue EXCEPT ![i] = y]
<1>1. queue \in [DOMAIN queue -> ItemRecs] /\ DOMAIN queue \subseteq Items /\ queue[i] \in ItemRecs
  BY QueueFacts DEF UploadTyped
<1>2. y \in ItemRecs /\ y.status = StatusOf(fields, queue[i])
  BY <1>1, ChangedItem
<1>3. queue' = q /\ writes' = Append(writes, q)
  BY DEF Changed, Update
<1> HIDE DEF y
<1>4. /\ q \in [DOMAIN queue -> ItemRecs] /\ q[i] = y
      /\ \A j \in DOMAIN queue : j # i => q[j] = queue[j]
  BY <1>1, <1>2
<1>5. q \in Queues /\ DOMAIN q = DOMAIN queue
  BY <1>1, <1>4, QueueOf
<1> HIDE DEF q
<1>6. NewVersion(q)
  BY <1>3, <1>5 DEF NewVersion
<1> QED
  BY <1>2, <1>4, <1>5, <1>6

LEMMA ProceedEffect ==
   ASSUME UploadTyped, NEW pc \in Pass, Proceed(pc)
   PROVE  /\ worker' \in WorkerRecs /\ worker'.pc = pc /\ worker'.left = worker.left
          /\ worker'.artifact = worker.artifact /\ worker'.own = worker.own
BY DEF UploadTyped, Proceed, WorkerRecs

LEMMA NextItemEffect ==
   ASSUME UploadTyped, worker.pc # "rest"
   PROVE  /\ NextItem \in WorkerRecs /\ NextItem.pc \in {"rest", "prepare"} /\ NextItem.artifact = 0 /\ NextItem.own = 0
          /\ NextItem.pc # "rest" =>
                /\ NextItem.left # <<>>
                /\ \A k \in 1..Len(NextItem.left) : NextItem.left[k] \in DOMAIN queue
<1>1. /\ worker.left \in Seq(Items) /\ Len(worker.left) \in Nat /\ Len(worker.left) >= 1
      /\ \A k \in 1..Len(worker.left) : worker.left[k] \in DOMAIN queue
  BY ItemFacts DEF UploadTyped
<1>2. CASE Len(worker.left) = 1
  BY <1>2, RestFacts DEF NextItem
<1>3. CASE Len(worker.left) # 1
  <2>1. /\ Tail(worker.left) \in Seq(Items) /\ Len(Tail(worker.left)) = Len(worker.left) - 1
        /\ \A k \in 1..Len(Tail(worker.left)) : Tail(worker.left)[k] = worker.left[k + 1]
    BY <1>1
  <2>2. PICK t \in Seq(Items) : t = Tail(worker.left)
    BY <2>1
  <2>3. t # <<>> /\ \A k \in 1..Len(t) : t[k] \in DOMAIN queue
    <3>1. Len(t) \in Nat /\ Len(t) >= 1
      <4>1. Len(t) = Len(worker.left) - 1
        BY <2>1, <2>2
      <4>2. PICK n : n = Len(worker.left) /\ n \in Nat /\ n >= 1
        BY <1>1
      <4>3. n # 1
        BY <1>3, <4>2
      <4>4. n \in Nat /\ n >= 1
        BY <4>2
      <4>5. n - 1 \in Nat /\ n - 1 >= 1
        BY <4>3, <4>4
      <4> QED
        BY <4>1, <4>2, <4>5
    <3>2. ASSUME NEW k \in 1..Len(t) PROVE t[k] \in DOMAIN queue
      <4>1. t[k] = worker.left[k + 1] /\ k + 1 \in 1..Len(worker.left)
        BY <1>1, <2>1, <2>2, <3>2
      <4> QED
        BY <1>1, <4>1
    <3>3. t # <<>>
      BY <3>1
    <3> QED
      BY <3>2, <3>3
  <2>4. PICK w \in WorkerRecs : w = Rest /\ w.artifact = 0 /\ w.own = 0
    BY RestFacts
  <2>5. NextItem = [w EXCEPT !.pc = "prepare", !.left = t]
    BY <1>3, <2>2, <2>4 DEF NextItem
  <2>6. NextItem \in WorkerRecs /\ NextItem.pc = "prepare" /\ NextItem.left = t /\ NextItem.artifact = 0 /\ NextItem.own = 0
    BY <2>4, <2>5 DEF WorkerRecs, Pass
  <2> QED
    BY <2>3, <2>6
<1> QED
  BY <1>2, <1>3

\* Going on after a write of the worker is over, stored or refused.
Onward(to) ==
   /\ to \in WorkerRecs /\ to.own = 0 /\ to.pc \notin Waits /\ to.artifact <= Len(artifacts)
   /\ to.pc # "rest" => /\ to.left # <<>>
                        /\ \A k \in 1..Len(to.left) : to.left[k] \in DOMAIN queue

LEMMA ResumeEffect ==
   ASSUME UploadTyped, worker.pc # "rest", NEW pc \in Pass \ Waits
   PROVE  /\ Onward(Resume(pc)) /\ Resume(pc).pc = pc
          /\ Resume(pc).left = worker.left /\ Resume(pc).artifact = worker.artifact
<1>1. PICK w \in WorkerRecs : w = worker
  BY DEF UploadTyped
<1>2. PICK to : to = [w EXCEPT !.pc = pc, !.own = 0]
  OBVIOUS
<1>3. /\ to \in WorkerRecs /\ to.pc = pc /\ to.own = 0
      /\ to.left = w.left /\ to.artifact = w.artifact
  <2>1. pc \in Pass
    OBVIOUS
  <2> QED
    BY <1>2, <2>1 DEF WorkerRecs
<1>4. to = Resume(pc)
  BY <1>1, <1>2 DEF Resume
<1> QED
  BY <1>1, <1>3, <1>4 DEF Onward, UploadTyped

LEMMA OnwardSteps ==
   ASSUME UploadTyped, worker.pc # "rest" PROVE Onward(OnStored) /\ Onward(OnRefusal)
<1>1. Onward(NextItem)
  <2>1. /\ NextItem \in WorkerRecs /\ NextItem.pc \in {"rest", "prepare"}
        /\ NextItem.artifact = 0 /\ NextItem.own = 0
        /\ NextItem.pc # "rest" =>
                /\ NextItem.left # <<>>
                /\ \A k \in 1..Len(NextItem.left) : NextItem.left[k] \in DOMAIN queue
    BY NextItemEffect
  <2>2. Len(artifacts) \in Nat
    BY DEF UploadTyped
  <2> QED
    BY <2>1, <2>2 DEF Onward, Waits
<1>2. Onward(Rest)
  <2>1. Len(artifacts) \in Nat
    BY DEF UploadTyped
  <2> QED
    BY <2>1, RestFacts DEF Onward, Waits
<1>3. {"request", "put", "retry"} \subseteq Pass \ Waits
  BY DEF Pass, Waits
<1> QED
  BY <1>1, <1>2, <1>3, ResumeEffect DEF OnStored, OnRefusal

-----------------------------------------------------------------------------
(* The steps of the store keep the invariant. *)

LEMMA UploadInitHolds == UploadInit => UploadInv
<1> SUFFICES ASSUME UploadInit PROVE UploadInv
  OBVIOUS
<1>1. /\ queue = NoItems /\ writes = <<>> /\ storage = NoItems /\ hydrated = FALSE /\ blank = FALSE
      /\ artifacts = <<>> /\ kept = {} /\ objects = [t \in Keys |-> {}]
      /\ worker.pc = "rest" /\ worker.artifact = 0 /\ worker.own = 0 /\ worker \in WorkerRecs
  BY RestFacts DEF UploadInit, Keys
<1>2. NoItems \in Queues /\ DOMAIN NoItems = {}
  BY DEF NoItems, Queues
<1>3. UploadTyped
  <2>1. writes \in Seq(Queues) /\ Len(writes) = 0 /\ artifacts \in Seq(RowRecs) /\ Len(artifacts) = 0
    BY <1>1
  <2>2. objects \in [Keys -> SUBSET Items]
    BY <1>1
  <2>3. worker.artifact <= Len(artifacts) /\ worker.own <= Len(writes)
        /\ (worker.own > 0 <=> worker.pc \in Waits)
    BY <1>1, <2>1 DEF Waits
  <2> QED
    BY <1>1, <1>2, <2>1, <2>2, <2>3 DEF UploadTyped
<1>4. KeptInv /\ StoredInv
  BY <1>1, <1>2 DEF KeptInv, StoredInv, Version
<1>5. RowsInv
  BY <1>1, <1>2 DEF RowsInv, QueuesTrue, ObjectsHeld, WorkerKnows, TrueQueue, OneObject
<1> QED
  BY <1>3, <1>4, <1>5 DEF UploadInv

LEMMA HydrateHolds == ASSUME UploadInv, Hydrate PROVE UploadInv'
<1>0. UploadTyped /\ KeptInv /\ RowsInv /\ ~hydrated /\ hydrated'
      /\ UNCHANGED <<writes, storage, worker, artifacts, objects, kept>>
  BY DEF UploadInv, Hydrate
<1>1. writes = <<>> /\ worker.pc = "rest"
  BY <1>0 DEF UploadTyped
<1>2. NoItems \in Queues /\ DOMAIN NoItems = {}
  BY DEF NoItems, Queues
<1>3. UploadTyped'
  BY <1>0, <1>1, <1>2 DEF UploadTyped, Hydrate
<1>4. QueuesTrue'
  <2>1. TrueQueue(queue')
    BY <1>0, <1>2 DEF Hydrate, RowsInv, QueuesTrue, TrueQueue
  <2> QED
    BY <1>0, <2>1 DEF RowsInv, QueuesTrue, TrueQueue, HasCaptured
<1>5. ObjectsHeld' /\ WorkerKnows' /\ StoredInv'
  BY <1>0, <1>1 DEF RowsInv, ObjectsHeld, OneObject, WorkerKnows, StoredInv
<1>6. KeptInv'
  <2>1. CASE blank'
    BY <2>1 DEF KeptInv
  <2>2. CASE ~blank'
    <3>1. queue' = storage /\ ~blank
      BY <2>2 DEF Hydrate
    <3>2. Len(writes) = 0
      BY <1>1
    <3> QED
      BY <1>0, <1>1, <3>1, <3>2 DEF KeptInv, Version
  <2> QED
    BY <2>1, <2>2
<1> QED
  BY <1>3, <1>4, <1>5, <1>6 DEF UploadInv, RowsInv

\* The first write is over: what holds of the writes that are left.
LEMMA RestOfWrites ==
   ASSUME UploadTyped, writes # <<>>
   PROVE  \E t \in Seq(Queues) :
             /\ t = Tail(writes) /\ Len(t) \in Nat /\ Len(writes) \in Nat /\ Len(writes) = Len(t) + 1
             /\ \A k \in 1..Len(t) : t[k] = writes[k + 1]
             /\ Head(writes) = writes[1] /\ writes[1] \in Queues
<1>1. PICK w \in Seq(Queues) : w = writes
  BY DEF UploadTyped
<1>2. /\ Len(w) \in Nat /\ Len(w) >= 1 /\ Head(w) = w[1] /\ w[1] \in Queues
      /\ Tail(w) \in Seq(Queues) /\ Len(Tail(w)) = Len(w) - 1
      /\ \A k \in 1..Len(Tail(w)) : Tail(w)[k] = w[k + 1]
  <2>1. w # <<>>
    BY <1>1
  <2> QED
    BY <2>1
<1>3. PICK t \in Seq(Queues) : t = Tail(w)
  BY <1>2
<1>4. /\ Len(t) \in Nat /\ Len(w) = Len(t) + 1
      /\ \A k \in 1..Len(t) : t[k] = w[k + 1]
  BY <1>2, <1>3
<1> QED
  BY <1>1, <1>2, <1>3, <1>4

LEMMA FirstIsOverTyped ==
   ASSUME UploadTyped, NEW to, worker.pc # "rest" => Onward(to), FirstIsOver(to),
          storage' \in Queues,
          UNCHANGED <<queue, hydrated, artifacts, objects, blank>>
   PROVE  /\ UploadTyped'
          /\ worker.own # 1 =>
                /\ worker'.pc = worker.pc /\ worker'.left = worker.left
                /\ worker'.artifact = worker.artifact
                /\ worker'.own = IF worker.own = 0 THEN 0 ELSE worker.own - 1
<1>1. PICK t \in Seq(Queues) :
        /\ t = Tail(writes) /\ Len(t) \in Nat /\ Len(writes) \in Nat /\ Len(writes) = Len(t) + 1
  BY RestOfWrites DEF FirstIsOver
<1>2. writes' = t /\ hydrated /\ hydrated'
  BY <1>1 DEF FirstIsOver, UploadTyped
<1>3. PICK w \in WorkerRecs : w = worker
  BY DEF UploadTyped
<1>4. /\ w.own \in Nat /\ w.artifact \in Nat /\ w.own <= Len(writes) /\ (w.own > 0 <=> w.pc \in Waits)
      /\ w.artifact <= Len(artifacts)
  BY <1>3 DEF UploadTyped, WorkerRecs
<1>5. CASE w.own = 1
  <2>1. worker' = to /\ worker.pc # "rest"
    BY <1>3, <1>4, <1>5 DEF FirstIsOver, Waits
  <2>2. Onward(to)
    BY <2>1
  <2>3. to.own <= Len(t) /\ ~(to.own > 0)
    BY <1>1, <2>2 DEF Onward
  <2>4. UploadTyped'
    BY <1>1, <1>2, <2>1, <2>2, <2>3 DEF UploadTyped, Onward
  <2> QED
    BY <1>3, <1>5, <2>4
<1>6. CASE w.own # 1
  <2>1. PICK n \in Nat : n = IF w.own = 0 THEN 0 ELSE w.own - 1
    BY <1>4
  <2>2. worker' = [w EXCEPT !.own = n]
    BY <1>3, <1>6, <2>1 DEF FirstIsOver
  <2>3. /\ worker' \in WorkerRecs /\ worker'.pc = w.pc /\ worker'.left = w.left
        /\ worker'.artifact = w.artifact /\ worker'.own = n
    BY <2>2 DEF WorkerRecs
  <2>4. n <= Len(t) /\ (n > 0 <=> w.own > 0)
    BY <1>1, <1>4, <1>6, <2>1
  <2>5. worker'.pc # "rest" => /\ worker'.left # <<>>
                               /\ \A k \in 1..Len(worker'.left) : worker'.left[k] \in DOMAIN queue
    BY <1>3, <2>3 DEF UploadTyped
  <2>6. UploadTyped'
    BY <1>1, <1>2, <1>4, <2>3, <2>4, <2>5 DEF UploadTyped
  <2> QED
    BY <1>3, <2>1, <2>3, <2>6
<1> QED
  BY <1>3, <1>5, <1>6

LEMMA PersistHolds == ASSUME UploadInv, Persist PROVE UploadInv'
<1>0. /\ UploadTyped /\ KeptInv /\ StoredInv /\ RowsInv /\ writes # <<>> /\ FirstIsOver(OnStored)
      /\ UNCHANGED <<queue, hydrated, artifacts, objects, blank>>
      /\ storage' = Head(writes) /\ writes' = Tail(writes) /\ kept' = kept \cup DOMAIN Head(writes)
  BY DEF UploadInv, Persist, FirstIsOver
<1>1. PICK w \in Seq(Queues) : w = writes
  BY <1>0 DEF UploadTyped
<1>2. PICK t \in Seq(Queues) :
             /\ t = Tail(w) /\ Len(t) \in Nat /\ Len(w) \in Nat /\ Len(w) = Len(t) + 1
             /\ \A k \in 1..Len(t) : t[k] = w[k + 1]
             /\ Head(w) = w[1] /\ w[1] \in Queues
  BY <1>0, <1>1, RestOfWrites
<1>4. storage' = w[1] /\ writes' = t /\ kept' = kept \cup DOMAIN w[1]
  BY <1>0, <1>1, <1>2
<1>5. /\ UploadTyped'
      /\ worker.own # 1 =>
            /\ worker'.pc = worker.pc /\ worker'.left = worker.left
            /\ worker'.artifact = worker.artifact
            /\ worker'.own = IF worker.own = 0 THEN 0 ELSE worker.own - 1
  BY <1>0, <1>2, <1>4, OnwardSteps, FirstIsOverTyped
<1>6. QueuesTrue'
  <2>1. \A k \in 1..Len(w) : TrueQueue(w[k])
    BY <1>0, <1>1 DEF RowsInv, QueuesTrue
  <2>2. \A k \in 1..Len(t) : TrueQueue(t[k])
    BY <1>2, <2>1
  <2>3. TrueQueue(w[1]) /\ TrueQueue(queue)
    BY <1>0, <1>2, <2>1 DEF RowsInv, QueuesTrue
  <2>4. TrueQueue(storage') /\ TrueQueue(queue') /\ \A k \in 1..Len(writes') : TrueQueue(writes'[k])
    BY <1>0, <1>4, <2>2, <2>3
  <2> QED
    BY <1>0, <2>4 DEF QueuesTrue, TrueQueue, HasCaptured
<1>7. ObjectsHeld'
  BY <1>0 DEF RowsInv, ObjectsHeld, OneObject
<1>8. /\ worker.own \in Nat /\ worker.own <= Len(w) /\ (worker.own > 0 <=> worker.pc \in Waits)
      /\ worker.own = 1 => worker' = OnStored /\ worker.pc # "rest"
  BY <1>0, <1>1 DEF UploadTyped, WorkerRecs, FirstIsOver, Waits
<1>9. worker.own = 1 =>
        /\ worker.pc = "preparing" => worker'.pc = "request" /\ worker'.left = worker.left
        /\ worker.pc = "prepared" =>
              worker'.pc = "put" /\ worker'.left = worker.left /\ worker'.artifact = worker.artifact
        /\ worker.pc \notin {"preparing", "prepared"} => worker'.pc \in {"rest", "prepare"}
  <2> SUFFICES ASSUME worker.own = 1
               PROVE  /\ worker.pc = "preparing" => worker'.pc = "request" /\ worker'.left = worker.left
                      /\ worker.pc = "prepared" =>
                            /\ worker'.pc = "put" /\ worker'.left = worker.left
                            /\ worker'.artifact = worker.artifact
                      /\ worker.pc \notin {"preparing", "prepared"} => worker'.pc \in {"rest", "prepare"}
    OBVIOUS
  <2>1. worker' = OnStored /\ worker.pc # "rest" /\ UploadTyped
    BY <1>0, <1>8
  <2>2. {"request", "put"} \subseteq Pass \ Waits
    BY DEF Pass, Waits
  <2>3. \A pc \in {"request", "put"} : /\ Resume(pc).pc = pc /\ Resume(pc).left = worker.left
                                        /\ Resume(pc).artifact = worker.artifact
    BY <2>1, <2>2, ResumeEffect
  <2>4. NextItem.pc \in {"rest", "prepare"}
    BY <2>1, NextItemEffect
  <2> QED
    BY <2>1, <2>3, <2>4 DEF OnStored
<1>10. WorkerKnows'
  <2>1. CASE worker.own # 1
    BY <1>0, <1>5, <2>1 DEF RowsInv, WorkerKnows, Item
  <2>2. CASE worker.own = 1
    <3>1. worker.pc \in Waits
      BY <1>8, <2>2
    <3>2. CASE worker.pc = "prepared"
      BY <1>0, <1>9, <2>2, <3>2 DEF RowsInv, WorkerKnows, Item
    <3>3. CASE worker.pc # "prepared"
      BY <1>9, <2>2, <3>3 DEF WorkerKnows
    <3> QED
      BY <3>2, <3>3
  <2> QED
    BY <2>1, <2>2
<1> DEFINE Grown == ~blank => DOMAIN storage \subseteq DOMAIN w[1]
<1>11. Grown
  <2>1. Version(0) = storage /\ Version(1) = w[1]
    BY <1>1 DEF Version
  <2>2. 1 \in 0..Len(w) /\ 0 \in 0..1
    BY <1>2
  <2> QED
    BY <1>0, <1>1, <2>1, <2>2 DEF KeptInv
<1>12. StoredInv'
  <2> SUFFICES ASSUME ~blank
               PROVE  /\ worker'.pc = "preparing" => Item' \in DOMAIN writes'[worker'.own]
                      /\ worker'.pc = "request" => Item' \in DOMAIN storage'
    BY <1>0 DEF StoredInv
  <2>1. CASE worker.own # 1
    <3>1. Item' = Item /\ worker'.pc = worker.pc
      BY <1>5, <2>1 DEF Item
    <3>2. ASSUME worker.pc = "preparing" PROVE Item \in DOMAIN writes'[worker'.own]
      <4>1. worker.own > 1
        BY <1>8, <2>1, <3>2 DEF Waits
      <4>2. worker'.own = worker.own - 1 /\ worker'.own \in 1..Len(t) /\ worker'.own + 1 = worker.own
        BY <1>2, <1>5, <1>8, <2>1, <4>1
      <4>3. t[worker'.own] = w[worker.own]
        BY <1>2, <4>2
      <4> QED
        BY <1>0, <1>1, <1>4, <3>2, <4>3 DEF StoredInv
    <3>3. ASSUME worker.pc = "request" PROVE Item \in DOMAIN storage'
      BY <1>0, <1>4, <1>11, <3>3 DEF StoredInv
    <3> QED
      BY <3>1, <3>2, <3>3
  <2>2. CASE worker.own = 1
    <3>1. worker'.pc # "preparing"
      BY <1>9, <2>2
    <3>2. ASSUME worker'.pc = "request" PROVE Item' \in DOMAIN storage'
      <4>1. worker.pc = "preparing" /\ worker'.left = worker.left
        BY <1>9, <2>2, <3>2
      <4> QED
        BY <1>0, <1>1, <1>4, <2>2, <4>1 DEF StoredInv, Item
    <3> QED
      BY <3>1, <3>2
  <2> QED
    BY <2>1, <2>2
<1>13. KeptInv'
  <2> SUFFICES ASSUME ~blank PROVE KeptInv'
    BY <1>0 DEF KeptInv
  <2>1. \A k \in 0..Len(t) : k + 1 \in 0..Len(w) /\ NextVersion(k) = Version(k + 1)
    BY <1>1, <1>2, <1>4 DEF Version, NextVersion
  <2>2. \A k \in 0..Len(w) : \A j \in 0..k : DOMAIN Version(j) \subseteq DOMAIN Version(k)
    BY <1>0, <1>1 DEF KeptInv
  <2>3. ASSUME NEW k \in 0..Len(t), NEW j \in 0..k PROVE DOMAIN NextVersion(j) \subseteq DOMAIN NextVersion(k)
    <3>1. j \in 0..Len(t) /\ j + 1 \in 0..(k + 1) /\ k + 1 \in 0..Len(w)
      BY <2>1, <2>3
    <3> QED
      BY <2>1, <2>2, <3>1
  <2>4. kept' \subseteq DOMAIN storage'
    BY <1>0, <1>4, <1>11 DEF KeptInv
  <2>5. hydrated' => \A k \in 0..Len(writes') : DOMAIN NextVersion(k) \subseteq DOMAIN queue'
    <3>1. hydrated => \A k \in 0..Len(w) : DOMAIN Version(k) \subseteq DOMAIN queue
      BY <1>0, <1>1 DEF KeptInv
    <3> QED
      BY <1>0, <1>4, <2>1, <3>1
  <2>6. \A a \in DOMAIN artifacts' : artifacts'[a].item \in DOMAIN storage'
    BY <1>0, <1>4, <1>11 DEF KeptInv
  <2> QED
    BY <1>4, <2>3, <2>4, <2>5, <2>6, KeptNext
<1> QED
  BY <1>5, <1>6, <1>7, <1>10, <1>12, <1>13 DEF UploadInv, RowsInv

LEMMA PersistFailsHolds == ASSUME UploadInv, PersistFails PROVE UploadInv'
<1>0. /\ UploadTyped /\ KeptInv /\ StoredInv /\ RowsInv /\ writes # <<>> /\ FirstIsOver(OnRefusal)
      /\ UNCHANGED <<queue, storage, hydrated, artifacts, objects, kept, blank>>
      /\ writes' = Tail(writes)
  BY DEF UploadInv, PersistFails, FirstIsOver
<1>1. PICK w \in Seq(Queues) : w = writes
  BY <1>0 DEF UploadTyped
<1>2. PICK t \in Seq(Queues) :
             /\ t = Tail(w) /\ Len(t) \in Nat /\ Len(w) \in Nat /\ Len(w) = Len(t) + 1
             /\ \A k \in 1..Len(t) : t[k] = w[k + 1]
  BY <1>0, <1>1, RestOfWrites
<1>4. writes' = t
  BY <1>0, <1>1, <1>2
<1>5. /\ UploadTyped'
      /\ worker.own # 1 =>
            /\ worker'.pc = worker.pc /\ worker'.left = worker.left
            /\ worker'.artifact = worker.artifact
            /\ worker'.own = IF worker.own = 0 THEN 0 ELSE worker.own - 1
  <2>1. storage' \in Queues
    BY <1>0 DEF UploadTyped
  <2> QED
    BY <1>0, <2>1, OnwardSteps, FirstIsOverTyped
<1>6. QueuesTrue'
  <2>1. \A k \in 1..Len(w) : TrueQueue(w[k])
    BY <1>0, <1>1 DEF RowsInv, QueuesTrue
  <2>2. \A k \in 1..Len(t) : TrueQueue(t[k])
    BY <1>2, <2>1
  <2>3. PICK q : q = queue
    OBVIOUS
  <2>4. PICK d : d = storage
    OBVIOUS
  <2>5. TrueQueue(q) /\ TrueQueue(d) /\ q = queue' /\ d = storage'
    BY <1>0, <2>3, <2>4 DEF RowsInv, QueuesTrue
  <2>6. \A x : TrueQueue(x) => TrueQueue(x)'
    BY <1>0, TrueStays, NoRowsGrow
  <2>7. TrueQueue(q)' /\ TrueQueue(d)' /\ \A k \in 1..Len(t) : TrueQueue(t[k])'
    BY <2>2, <2>5, <2>6
  <2> QED
    BY <1>4, <2>5, <2>7 DEF QueuesTrue, TrueQueue
<1>7. ObjectsHeld'
  BY <1>0 DEF RowsInv, ObjectsHeld, OneObject
<1>8. /\ worker.own \in Nat /\ worker.own <= Len(w) /\ (worker.own > 0 <=> worker.pc \in Waits)
      /\ worker.own = 1 => worker' = OnRefusal /\ worker.pc # "rest"
  BY <1>0, <1>1 DEF UploadTyped, WorkerRecs, FirstIsOver, Waits
<1>9. worker.own = 1 => worker'.pc \in {"rest", "retry"}
  <2> SUFFICES ASSUME worker.own = 1 PROVE worker'.pc \in {"rest", "retry"}
    OBVIOUS
  <2>1. worker' = OnRefusal /\ worker.pc # "rest" /\ UploadTyped
    BY <1>0, <1>8
  <2>2. "retry" \in Pass \ Waits
    BY DEF Pass, Waits
  <2>3. Resume("retry").pc = "retry"
    BY <2>1, <2>2, ResumeEffect
  <2> QED
    BY <2>1, <2>3, RestFacts DEF OnRefusal
<1>10. WorkerKnows'
  <2>1. CASE worker.own # 1
    BY <1>0, <1>5, <2>1 DEF RowsInv, WorkerKnows, Item
  <2>2. CASE worker.own = 1
    BY <1>9, <2>2 DEF WorkerKnows
  <2> QED
    BY <2>1, <2>2
<1>11. StoredInv'
  <2> SUFFICES ASSUME ~blank
               PROVE  /\ worker'.pc = "preparing" => Item' \in DOMAIN writes'[worker'.own]
                      /\ worker'.pc = "request" => Item' \in DOMAIN storage'
    BY <1>0 DEF StoredInv
  <2>1. CASE worker.own # 1
    <3>1. Item' = Item /\ worker'.pc = worker.pc
      BY <1>5, <2>1 DEF Item
    <3>2. ASSUME worker.pc = "preparing" PROVE Item \in DOMAIN writes'[worker'.own]
      <4>1. worker.own > 1
        BY <1>8, <2>1, <3>2 DEF Waits
      <4>2. worker'.own = worker.own - 1 /\ worker'.own \in 1..Len(t) /\ worker'.own + 1 = worker.own
        BY <1>2, <1>5, <1>8, <2>1, <4>1
      <4>3. t[worker'.own] = w[worker.own]
        BY <1>2, <4>2
      <4> QED
        BY <1>0, <1>1, <1>4, <3>2, <4>3 DEF StoredInv
    <3>3. ASSUME worker.pc = "request" PROVE Item \in DOMAIN storage'
      BY <1>0, <3>3 DEF StoredInv
    <3> QED
      BY <3>1, <3>2, <3>3
  <2>2. CASE worker.own = 1
    BY <1>9, <2>2
  <2> QED
    BY <2>1, <2>2
<1>12. KeptInv'
  <2> SUFFICES ASSUME ~blank PROVE KeptInv'
    BY <1>0 DEF KeptInv
  <2> DEFINE from(k) == IF k = 0 THEN 0 ELSE k + 1
  <2>1. \A k \in 0..Len(t) : from(k) \in 0..Len(w) /\ NextVersion(k) = Version(from(k))
    BY <1>0, <1>1, <1>2, <1>4 DEF Version, NextVersion
  <2>2. \A k \in 0..Len(w) : \A j \in 0..k : DOMAIN Version(j) \subseteq DOMAIN Version(k)
    BY <1>0, <1>1 DEF KeptInv
  <2>3. ASSUME NEW k \in 0..Len(t), NEW j \in 0..k PROVE DOMAIN NextVersion(j) \subseteq DOMAIN NextVersion(k)
    <3>1. j \in 0..Len(t) /\ from(j) \in 0..from(k)
      BY <1>2, <2>3
    <3>2. from(k) \in 0..Len(w)
      BY <2>1
    <3> HIDE DEF from
    <3>3. DOMAIN Version(from(j)) \subseteq DOMAIN Version(from(k))
      BY <2>2, <3>1, <3>2
    <3> QED
      BY <2>1, <3>1, <3>3
  <2>4. kept' \subseteq DOMAIN storage' /\ \A a \in DOMAIN artifacts' : artifacts'[a].item \in DOMAIN storage'
    BY <1>0 DEF KeptInv
  <2>5. hydrated' => \A k \in 0..Len(writes') : DOMAIN NextVersion(k) \subseteq DOMAIN queue'
    <3>1. hydrated => \A k \in 0..Len(w) : DOMAIN Version(k) \subseteq DOMAIN queue
      BY <1>0, <1>1 DEF KeptInv
    <3> QED
      BY <1>0, <1>4, <2>1, <3>1
  <2> QED
    BY <1>4, <2>3, <2>4, <2>5, KeptNext
<1> QED
  BY <1>5, <1>6, <1>7, <1>10, <1>11, <1>12 DEF UploadInv, RowsInv

LEMMA EnqueueHolds == ASSUME UploadInv, NEW i \in Items, Enqueue(i) PROVE UploadInv'
<1>0. /\ UploadTyped /\ StoredInv /\ RowsInv /\ hydrated /\ i \notin DOMAIN queue
      /\ UNCHANGED <<storage, hydrated, worker, artifacts, objects, kept, blank>>
  BY DEF UploadInv, Enqueue
<1>1. queue \in [DOMAIN queue -> ItemRecs] /\ DOMAIN queue \subseteq Items
  BY <1>0, QueueFacts DEF UploadTyped
<1>2. NewItem \in ItemRecs /\ NewItem.status = "pending"
  BY DEF NewItem, ItemRecs, ItemStatuses
<1> DEFINE D == DOMAIN queue \cup {i}
           q == [j \in D |-> IF j = i THEN NewItem ELSE queue[j]]
<1>3. q \in [D -> ItemRecs] /\ DOMAIN q = D /\ D \subseteq Items
  BY <1>1, <1>2
<1>4. /\ q[i] = NewItem /\ \A j \in DOMAIN queue : q[j] = queue[j]
      /\ queue' = q /\ writes' = Append(writes, q)
  BY <1>0 DEF Enqueue, Update
<1> HIDE DEF q
<1>5. NewVersion(q)
  BY <1>3, <1>4, QueueOf DEF NewVersion
<1>6. TrueQueue(q)
  BY <1>0, <1>2, <1>3, <1>4 DEF TrueQueue, RowsInv, QueuesTrue
<1>7. /\ worker.own \in Nat /\ Len(writes) \in Nat /\ worker.own <= Len(writes)
      /\ (worker.own > 0 <=> worker.pc \in Waits)
      /\ Len(writes') = Len(writes) + 1 /\ \A k \in 1..Len(writes) : writes'[k] = writes[k]
  <2>1. worker.own \in Nat /\ Len(writes) \in Nat
    BY <1>0 DEF UploadTyped, WorkerRecs
  <2> QED
    BY <1>0, <1>5, <2>1, VersionTyped DEF UploadTyped
<1>8. WorkerKnows'
  BY <1>0 DEF RowsInv, WorkerKnows, Item
<1>9. StoredInv'
  <2>1. worker.pc = "preparing" => worker.own \in 1..Len(writes)
    BY <1>7 DEF Waits
  <2>2. worker.pc = "preparing" => writes'[worker.own] = writes[worker.own]
    BY <1>7, <2>1
  <2> QED
    BY <1>0, <2>2 DEF StoredInv, Item
<1>10. /\ worker' \in WorkerRecs /\ worker'.artifact <= Len(artifacts)
       /\ worker'.pc # "rest" => /\ worker'.left # <<>>
                                 /\ \A k \in 1..Len(worker'.left) : worker'.left[k] \in DOMAIN queue
       /\ worker'.own <= Len(writes) + 1 /\ (worker'.own > 0 <=> worker'.pc \in Waits)
  BY <1>0, <1>7 DEF UploadTyped
<1> QED
  BY <1>0, <1>5, <1>6, <1>8, <1>9, <1>10, VersionStep

LEMMA DueHolds == ASSUME UploadInv, NEW i \in Items, Due(i) PROVE UploadInv'
<1>0. /\ UploadTyped /\ KeptInv /\ StoredInv /\ RowsInv /\ hydrated /\ i \in DOMAIN queue
      /\ queue' = [queue EXCEPT ![i].due = TRUE]
      /\ UNCHANGED <<writes, storage, hydrated, worker, artifacts, objects, kept, blank>>
  BY DEF UploadInv, Due
<1>1. queue \in [DOMAIN queue -> ItemRecs] /\ DOMAIN queue \subseteq Items /\ queue[i] \in ItemRecs
  BY <1>0, QueueFacts DEF UploadTyped
<1> DEFINE y == [queue[i] EXCEPT !.due = TRUE]
<1>2. y \in ItemRecs /\ y.status = queue[i].status
  BY <1>1 DEF ItemRecs
<1>3. queue' = [queue EXCEPT ![i] = y]
  BY <1>0
<1> HIDE DEF y
<1>4. /\ queue' \in [DOMAIN queue -> ItemRecs] /\ DOMAIN queue' = DOMAIN queue
      /\ \A j \in DOMAIN queue : queue'[j].status = queue[j].status
  BY <1>1, <1>2, <1>3
<1>5. queue' \in Queues
  BY <1>1, <1>4, QueueOf
<1>6. UploadTyped'
  BY <1>0, <1>4, <1>5 DEF UploadTyped
<1>7. KeptInv'
  BY <1>0, <1>4 DEF KeptInv, Version
<1>8. QueuesTrue'
  <2>1. TrueQueue(queue') /\ TrueQueue(storage') /\ \A k \in 1..Len(writes') : TrueQueue(writes'[k])
    BY <1>0, <1>4 DEF RowsInv, QueuesTrue, TrueQueue
  <2> QED
    BY <1>0, <2>1 DEF QueuesTrue, TrueQueue, HasCaptured
<1>9. ObjectsHeld' /\ WorkerKnows' /\ StoredInv'
  BY <1>0 DEF RowsInv, ObjectsHeld, OneObject, WorkerKnows, StoredInv, Item
<1> QED
  BY <1>6, <1>7, <1>8, <1>9 DEF UploadInv, RowsInv

LEMMA KillHolds == ASSUME UploadInv, Kill PROVE UploadInv'
<1>0. /\ UploadTyped /\ KeptInv /\ RowsInv /\ hydrated' = FALSE
      /\ queue' = NoItems /\ writes' = <<>> /\ worker' = Rest
      /\ UNCHANGED <<storage, artifacts, objects, kept, blank>>
  BY DEF UploadInv, Kill
<1>1. NoItems \in Queues /\ DOMAIN NoItems = {}
  BY DEF NoItems, Queues
<1>2. /\ worker'.pc = "rest" /\ worker'.artifact = 0 /\ worker'.own = 0 /\ worker' \in WorkerRecs
      /\ writes' \in Seq(Queues) /\ Len(writes') = 0 /\ Len(artifacts') \in Nat
  <2>1. worker'.pc = "rest" /\ worker'.artifact = 0 /\ worker'.own = 0 /\ worker' \in WorkerRecs
    BY <1>0, RestFacts
  <2>2. writes' \in Seq(Queues) /\ Len(writes') = 0
    BY <1>0
  <2>3. Len(artifacts') \in Nat
    BY <1>0 DEF UploadTyped
  <2> QED
    BY <2>1, <2>2, <2>3
<1>3. UploadTyped'
  <2>1. /\ worker'.own <= Len(writes') /\ (worker'.own > 0 <=> worker'.pc \in Waits)
        /\ worker'.artifact <= Len(artifacts')
    BY <1>2 DEF Waits
  <2>2. /\ queue' \in Queues /\ storage' \in Queues /\ blank' \in BOOLEAN
        /\ artifacts' \in Seq(RowRecs) /\ objects' \in [Keys -> SUBSET Items]
    BY <1>0, <1>1 DEF UploadTyped
  <2> QED
    BY <1>0, <1>2, <2>1, <2>2 DEF UploadTyped
<1>4. KeptInv'
  <2>1. NextVersion(0) = storage /\ Len(writes') = 0
    BY <1>0, <1>2 DEF NextVersion
  <2> SUFFICES ASSUME ~blank PROVE KeptInv'
    BY <1>0 DEF KeptInv
  <2>2. \A k \in 0..Len(writes') : \A j \in 0..k : DOMAIN NextVersion(j) \subseteq DOMAIN NextVersion(k)
    BY <2>1
  <2> QED
    BY <1>0, <2>2, KeptNext DEF KeptInv
<1>5. QueuesTrue'
  <2>1. TrueQueue(queue') /\ TrueQueue(storage') /\ \A k \in 1..Len(writes') : TrueQueue(writes'[k])
    BY <1>0, <1>1, <1>2 DEF RowsInv, QueuesTrue, TrueQueue
  <2> QED
    BY <1>0, <2>1 DEF QueuesTrue, TrueQueue, HasCaptured
<1>6. ObjectsHeld' /\ WorkerKnows' /\ StoredInv'
  BY <1>0, <1>2 DEF RowsInv, ObjectsHeld, OneObject, WorkerKnows, StoredInv
<1> QED
  BY <1>3, <1>4, <1>5, <1>6 DEF UploadInv, RowsInv

-----------------------------------------------------------------------------
(* The steps of the worker keep the invariant. *)

LEMMA OrderFacts ==
   ASSUME NEW S, IsFiniteSet(S), S # {}, NEW order \in SetToSeqs(S)
   PROVE  order \in Seq(S) /\ order # <<>>
<1>1. Cardinality(S) \in Nat /\ Cardinality(S) # 0
  BY FS_CardinalityType, FS_EmptySet
<1> QED
  BY <1>1 DEF SetToSeqs

LEMMA TickHolds == ASSUME UploadInv, Tick PROVE UploadInv'
<1>0. /\ UploadTyped /\ KeptInv /\ RowsInv /\ hydrated /\ StoreSame /\ worker.pc = "rest"
      /\ UNCHANGED <<artifacts, objects>>
  BY DEF UploadInv, Tick, StoreSame, Doing
<1>1. PICK D \in SUBSET DOMAIN queue : \E order \in SetToSeqs(D) :
        D # {} /\ worker' = [Rest EXCEPT !.pc = "prepare", !.left = order]
  BY DEF Tick
<1>2. PICK order \in SetToSeqs(D) : D # {} /\ worker' = [Rest EXCEPT !.pc = "prepare", !.left = order]
  BY <1>1
<1>3. DOMAIN queue \subseteq Items /\ IsFiniteSet(D)
  BY <1>0, QueueFacts, UploadNames, FS_Subset DEF UploadTyped
<1>4. order \in Seq(D) /\ order # <<>>
  BY <1>2, <1>3, OrderFacts
<1>5. order \in Seq(Items) /\ \A k \in 1..Len(order) : order[k] \in DOMAIN queue
  BY <1>3, <1>4
<1>6. PICK w \in WorkerRecs : w = Rest /\ w.artifact = 0 /\ w.own = 0
  BY RestFacts
<1>7. worker' = [w EXCEPT !.pc = "prepare", !.left = order]
  BY <1>2, <1>6
<1>8. /\ worker' \in WorkerRecs /\ worker'.pc = "prepare" /\ worker'.left = order /\ worker'.artifact = 0
      /\ worker'.own = 0
  BY <1>5, <1>6, <1>7 DEF WorkerRecs, Pass
<1>9. ObjectsHeld' /\ WorkerKnows'
  BY <1>0, <1>8 DEF RowsInv, ObjectsHeld, OneObject, WorkerKnows
<1>10. worker'.pc \notin Waits \cup {"request"} /\ Len(artifacts') \in Nat
  BY <1>0, <1>8 DEF Waits, UploadTyped
<1>11. /\ worker' \in WorkerRecs /\ artifacts' \in Seq(RowRecs) /\ objects' \in [Keys -> SUBSET Items]
       /\ worker'.pc # "rest" => /\ worker'.left # <<>>
                                 /\ \A k \in 1..Len(worker'.left) : worker'.left[k] \in DOMAIN queue
       /\ worker'.own = 0 /\ worker'.pc \notin Waits \cup {"request"} /\ worker'.artifact <= Len(artifacts')
       /\ ~blank => \A a \in DOMAIN artifacts' : artifacts'[a].item \in DOMAIN storage
  BY <1>0, <1>4, <1>5, <1>8, <1>10 DEF UploadTyped, KeptInv
<1> QED
  BY <1>0, <1>9, <1>11, NoRowsGrow, WorkerStep

\* The worker goes to another step with the item and the row it has.
LEMMA ProceedHolds ==
   ASSUME UploadInv, hydrated, worker.pc # "rest", StoreSame, RowsGrow,
          worker.pc \notin Waits, NEW pc \in Pass \ (Waits \cup {"rest", "request"}), Proceed(pc),
          artifacts' \in Seq(RowRecs), Len(artifacts) <= Len(artifacts'),
          objects' \in [Keys -> SUBSET Items],
          ~blank => \A a \in DOMAIN artifacts' : artifacts'[a].item \in DOMAIN storage,
          ObjectsHeld', WorkerKnows'
   PROVE  UploadInv'
<1>0. UploadTyped /\ pc \in Pass
  BY DEF UploadInv
<1>1. /\ worker' \in WorkerRecs /\ worker'.pc = pc /\ worker'.left = worker.left
      /\ worker'.artifact = worker.artifact /\ worker'.own = 0
  <2>1. worker.own = 0
    BY <1>0 DEF UploadTyped, WorkerRecs
  <2> QED
    BY <1>0, <2>1, ProceedEffect
<1>2. worker'.left # <<>> /\ \A k \in 1..Len(worker'.left) : worker'.left[k] \in DOMAIN queue
  BY <1>0, <1>1 DEF UploadTyped
<1>3. worker'.artifact <= Len(artifacts')
  <2>1. PICK m \in Nat : m = worker.artifact
    BY <1>0 DEF UploadTyped, WorkerRecs
  <2>2. PICK n \in Nat : n = Len(artifacts)
    BY <1>0 DEF UploadTyped
  <2>3. PICK l \in Nat : l = Len(artifacts')
    OBVIOUS
  <2>4. m <= n /\ n <= l
    BY <1>0, <2>1, <2>2, <2>3 DEF UploadTyped
  <2>5. m <= l
    BY <2>4
  <2> QED
    BY <1>1, <2>1, <2>3, <2>5
<1> QED
  BY <1>1, <1>2, <1>3, WorkerStep

\* The worker marks its item and waits for that version.
LEMMA MarkHolds ==
   ASSUME UploadInv, NEW pc \in Pass \ (Waits \cup {"rest"}), NEW to \in Waits, NEW tries \in Nat,
          NEW fields, Assigns(fields), Mark(pc, fields, to, tries),
          ("status" \in DOMAIN fields /\ fields.status = "uploaded") => pc = "succeed",
          to = "prepared" => pc = "issued"
   PROVE  UploadInv'
<1>0. /\ UploadTyped /\ RowsInv /\ worker.pc = pc /\ Update(Changed(Item, fields))
      /\ worker' = [worker EXCEPT !.pc = to, !.tries = tries, !.own = Len(writes) + 1]
      /\ UNCHANGED <<storage, hydrated, artifacts, objects, kept, blank>>
  BY DEF UploadInv, Mark, Doing
<1>1. Item \in DOMAIN queue /\ hydrated /\ worker.pc # "rest"
  BY <1>0, ItemFacts
<1>2. PICK q : /\ NewVersion(q) /\ DOMAIN q = DOMAIN queue /\ q[Item].status = StatusOf(fields, queue[Item])
               /\ \A j \in DOMAIN queue : j # Item => q[j] = queue[j]
  BY <1>0, <1>1, ChangeEffect
<1>3. pc = "succeed" => HasCaptured(Item)
  <2>1. worker.artifact \in Nat /\ worker.artifact <= Len(artifacts) /\ artifacts \in Seq(RowRecs)
    BY <1>0 DEF UploadTyped, WorkerRecs
  <2>2. CASE pc = "succeed"
    <3>1. /\ worker.artifact > 0 /\ artifacts[worker.artifact].item = Item
          /\ artifacts[worker.artifact].status = "captured"
      BY <1>0, <2>2 DEF RowsInv, WorkerKnows
    <3>2. worker.artifact \in DOMAIN artifacts
      BY <2>1, <3>1
    <3> QED
      BY <3>1, <3>2 DEF HasCaptured
  <2> QED
    BY <2>2
<1>4. TrueQueue(q)
  <2>1. ASSUME NEW i \in DOMAIN q, q[i].status = "uploaded" PROVE HasCaptured(i)
    <3>1. CASE i = Item /\ "status" \in DOMAIN fields
      BY <1>2, <1>3, <2>1, <3>1 DEF StatusOf
    <3>2. CASE i = Item /\ "status" \notin DOMAIN fields
      BY <1>0, <1>1, <1>2, <2>1, <3>2 DEF StatusOf, RowsInv, QueuesTrue, TrueQueue
    <3>3. CASE i # Item
      BY <1>0, <1>2, <2>1, <3>3 DEF RowsInv, QueuesTrue, TrueQueue
    <3> QED
      BY <3>1, <3>2, <3>3
  <2> QED
    BY <2>1 DEF TrueQueue
<1>5. PICK n \in Nat : n = Len(writes) + 1
  <2>1. Len(writes) \in Nat
    BY <1>0 DEF UploadTyped
  <2> QED
    BY <2>1
<1>6. /\ worker' \in WorkerRecs /\ worker'.pc = to /\ worker'.left = worker.left
      /\ worker'.artifact = worker.artifact /\ worker'.own = n
  <2>1. PICK w \in WorkerRecs : w = worker
    BY <1>0 DEF UploadTyped
  <2>2. worker' = [w EXCEPT !.pc = to, !.tries = tries, !.own = n] /\ to \in Pass
    BY <1>0, <1>5, <2>1 DEF Pass
  <2> QED
    BY <2>1, <2>2 DEF WorkerRecs
<1>7. worker'.own <= Len(writes) + 1 /\ (worker'.own > 0 <=> worker'.pc \in Waits)
  <2>1. n > 0 /\ n <= n
    <3>1. PICK m \in Nat : m = Len(writes)
      BY <1>0 DEF UploadTyped
    <3> QED
      BY <1>5, <3>1
  <2> QED
    BY <1>5, <1>6, <2>1
<1>8. Item' = Item
  BY <1>6 DEF Item
<1>9. StoredInv'
  <2>1. writes'[n] = q
    BY <1>0, <1>2, <1>5, VersionTyped
  <2>2. Item' \in DOMAIN writes'[worker'.own]
    BY <1>1, <1>2, <1>6, <1>8, <2>1
  <2>3. worker'.pc # "request"
    BY <1>6 DEF Waits
  <2> QED
    BY <2>2, <2>3 DEF StoredInv
<1>10. WorkerKnows'
  <2>1. CASE to = "prepared"
    BY <1>0, <1>6, <1>8, <2>1 DEF RowsInv, WorkerKnows
  <2>2. CASE to # "prepared"
    BY <1>6, <2>2 DEF WorkerKnows, Waits
  <2> QED
    BY <2>1, <2>2
<1>11. /\ worker'.artifact <= Len(artifacts)
       /\ worker'.pc # "rest" => /\ worker'.left # <<>>
                                 /\ \A k \in 1..Len(worker'.left) : worker'.left[k] \in DOMAIN queue
  BY <1>0, <1>1, <1>6 DEF UploadTyped
<1> QED
  BY <1>0, <1>1, <1>2, <1>4, <1>6, <1>7, <1>9, <1>10, <1>11, VersionStep

LEMMA MarkPreparingHolds == ASSUME UploadInv, MarkPreparing PROVE UploadInv'
<1>1. UploadTyped /\ worker.pc = "prepare"
  BY DEF UploadInv, MarkPreparing, Mark, Doing
<1>2. queue[Item] \in ItemRecs
  BY <1>1, ItemFacts, QueueFacts DEF UploadTyped
<1>3. PICK n \in Nat : n = queue[Item].attempts + 1
  BY <1>2 DEF ItemRecs
<1> DEFINE fields == [status |-> "uploading", attempts |-> n]
<1>4. Assigns(fields) /\ fields.status # "uploaded"
  BY DEF Assigns, ItemStatuses
<1>5. Mark("prepare", fields, "preparing", n)
  BY <1>3 DEF MarkPreparing
<1> HIDE DEF fields
<1>6. "prepare" \in Pass \ (Waits \cup {"rest"}) /\ "preparing" \in Waits
  BY DEF Pass, Waits
<1> QED
  BY <1>4, <1>5, <1>6, MarkHolds

\* The other marks of the worker.
LEMMA MarksHold ==
   ASSUME UploadInv, MarkPrepared \/ MarkSucceeded \/ ScheduleRetry \/ GiveUp \/ MarkFailed
   PROVE  UploadInv'
<1>1. PICK n \in Nat : n = worker.tries
  BY DEF UploadInv, UploadTyped, WorkerRecs
<1>2. /\ {"issued", "succeed", "retry", "fail"} \subseteq Pass \ (Waits \cup {"rest"})
      /\ {"prepared", "succeeded", "settled"} \subseteq Waits
  BY DEF Pass, Waits
<1> DEFINE done == [status |-> "uploaded"]
           later == [status |-> "pending", due |-> FALSE]
           failed == [status |-> "failed"]
<1>3. /\ Assigns(NoItems) /\ "status" \notin DOMAIN NoItems
      /\ Assigns(done) /\ Assigns(later) /\ later.status # "uploaded"
      /\ Assigns(failed) /\ failed.status # "uploaded"
  BY DEF Assigns, ItemStatuses, NoItems
<1>4. \/ Mark("issued", NoItems, "prepared", n)
      \/ Mark("succeed", done, "succeeded", n)
      \/ Mark("retry", later, "settled", n)
      \/ Mark("retry", failed, "settled", n)
      \/ Mark("fail", failed, "settled", n)
  BY <1>1 DEF MarkPrepared, MarkSucceeded, ScheduleRetry, GiveUp, MarkFailed
<1> HIDE DEF done, later, failed
<1>5. CASE Mark("issued", NoItems, "prepared", n)
  BY <1>2, <1>3, <1>5, MarkHolds
<1>6. CASE Mark("succeed", done, "succeeded", n)
  BY <1>2, <1>3, <1>6, MarkHolds
<1>7. CASE Mark("retry", later, "settled", n)
  BY <1>2, <1>3, <1>7, MarkHolds
<1>8. CASE Mark("retry", failed, "settled", n)
  BY <1>2, <1>3, <1>8, MarkHolds
<1>9. CASE Mark("fail", failed, "settled", n)
  BY <1>2, <1>3, <1>9, MarkHolds
<1> QED
  BY <1>4, <1>5, <1>6, <1>7, <1>8, <1>9

\* Without a row of its own.
LEMMA UnknowingHolds ==
   ASSUME UploadInv, worker.pc \notin Waits \cup {"rest"}, StoreSame, Fails \/ Refused,
          RowsGrow, artifacts' \in Seq(RowRecs), Len(artifacts) <= Len(artifacts'),
          objects' \in [Keys -> SUBSET Items],
          ~blank => \A a \in DOMAIN artifacts' : artifacts'[a].item \in DOMAIN storage,
          ObjectsHeld'
   PROVE  UploadInv'
<1>1. PICK pc \in {"retry", "fail"} : Proceed(pc)
  BY DEF Fails, Refused
<1>2. pc \in Pass \ (Waits \cup {"rest", "request"}) /\ UploadTyped
  BY <1>1 DEF Pass, Waits, UploadInv
<1>3. worker'.pc = pc
  BY <1>1, <1>2, ProceedEffect
<1>4. WorkerKnows'
  BY <1>1, <1>3 DEF WorkerKnows
<1>5. hydrated
  BY <1>2, ItemFacts
<1> QED
  BY <1>1, <1>2, <1>4, <1>5, ProceedHolds

LEMMA NoUploadUrlHolds == ASSUME UploadInv, NoUploadUrl PROVE UploadInv'
<1>1. /\ UploadTyped /\ KeptInv /\ RowsInv /\ worker.pc = "request" /\ StoreSame
      /\ UNCHANGED <<artifacts, objects>> /\ (Fails \/ Refused)
  BY DEF UploadInv, NoUploadUrl, Doing, StoreSame
<1>2. ObjectsHeld'
  BY <1>1 DEF RowsInv, ObjectsHeld, OneObject
<1>3. /\ artifacts' \in Seq(RowRecs) /\ objects' \in [Keys -> SUBSET Items]
      /\ Len(artifacts) <= Len(artifacts')
      /\ ~blank => \A a \in DOMAIN artifacts' : artifacts'[a].item \in DOMAIN storage
  <2>1. Len(artifacts) \in Nat
    BY <1>1 DEF UploadTyped
  <2> QED
    BY <1>1, <2>1 DEF UploadTyped, KeptInv
<1>4. worker.pc \notin Waits \cup {"rest"}
  BY <1>1 DEF Waits
<1> QED
  BY <1>1, <1>2, <1>3, <1>4, NoRowsGrow, UnknowingHolds

LEMMA IssueUploadUrlHolds == ASSUME UploadInv, IssueUploadUrl PROVE UploadInv'
<1>0. /\ UploadTyped /\ KeptInv /\ StoredInv /\ RowsInv /\ worker.pc = "request" /\ StoreSame
      /\ UNCHANGED objects
  BY DEF UploadInv, IssueUploadUrl, Doing, StoreSame
<1>1. /\ hydrated /\ Item \in Items /\ Item \in DOMAIN queue /\ Type[Item] \in Keys
  BY <1>0, ItemFacts
<1>2. PICK new \in RowRecs : new = [item |-> Item, key |-> Type[Item], status |-> "pending"]
  BY <1>1 DEF RowRecs
<1>3. new.item = Item /\ new.key = Type[Item] /\ new.status = "pending"
  BY <1>2
<1>4. PICK rows \in Seq(RowRecs) : rows = artifacts
  BY <1>0 DEF UploadTyped
<1>5. artifacts' = Append(rows, new)
  BY <1>2, <1>4 DEF IssueUploadUrl
<1>6. PICK n \in Nat : n = Len(rows)
  BY <1>4
<1>7. /\ artifacts' \in Seq(RowRecs) /\ Len(artifacts') = n + 1 /\ DOMAIN artifacts' = 1..(n + 1)
      /\ DOMAIN artifacts = 1..n /\ Len(artifacts) = n
      /\ artifacts'[n + 1] = new /\ \A a \in 1..n : artifacts'[a] = artifacts[a]
  BY <1>4, <1>5, <1>6
<1>8. RowsGrow
  BY <1>7 DEF RowsGrow
<1>9. ObjectsHeld'
  <2>1. ASSUME NEW a \in DOMAIN artifacts'
        PROVE  /\ artifacts'[a].key = Type[artifacts'[a].item]
               /\ artifacts'[a].status = "captured" => objects'[artifacts'[a].key] # {}
    <3>1. CASE a = n + 1
      BY <1>3, <1>7, <3>1
    <3>2. CASE a \in 1..n
      BY <1>0, <1>7, <3>2 DEF RowsInv, ObjectsHeld
    <3> QED
      BY <1>7, <2>1, <3>1, <3>2
  <2>2. \A t \in Keys : OneObject(t)'
    BY <1>0 DEF RowsInv, ObjectsHeld, OneObject
  <2> QED
    BY <2>1, <2>2 DEF ObjectsHeld, OneObject
<1>10. ~blank => \A a \in DOMAIN artifacts' : artifacts'[a].item \in DOMAIN storage
  <2> SUFFICES ASSUME ~blank, NEW a \in DOMAIN artifacts' PROVE artifacts'[a].item \in DOMAIN storage
    OBVIOUS
  <2>1. CASE a = n + 1
    BY <1>0, <1>3, <1>7, <2>1 DEF StoredInv
  <2>2. CASE a \in 1..n
    BY <1>0, <1>7, <2>2 DEF KeptInv
  <2> QED
    BY <1>7, <2>1, <2>2
<1>11. /\ objects' \in [Keys -> SUBSET Items] /\ Len(artifacts) <= Len(artifacts')
      /\ worker.pc \notin Waits \cup {"rest"} /\ worker.own = 0
  <2>1. Len(artifacts) <= Len(artifacts')
    BY <1>7
  <2> QED
    BY <1>0, <2>1 DEF UploadTyped, WorkerRecs, Waits
<1>12. CASE Fails
  BY <1>0, <1>7, <1>8, <1>9, <1>10, <1>11, <1>12, UnknowingHolds
<1>13. CASE worker' = [worker EXCEPT !.pc = "issued", !.artifact = Len(artifacts) + 1]
  <2>1. PICK m \in Nat : m = n + 1
    OBVIOUS
  <2>2. /\ worker' \in WorkerRecs /\ worker'.pc = "issued" /\ worker'.left = worker.left
        /\ worker'.artifact = n + 1 /\ worker'.own = 0
    <3>1. PICK w \in WorkerRecs : w = worker
      BY <1>0 DEF UploadTyped
    <3>2. Len(artifacts) + 1 = m
      BY <1>7, <2>1
    <3>3. worker' = [w EXCEPT !.pc = "issued", !.artifact = m]
      BY <1>13, <3>1, <3>2
    <3>4. /\ worker' \in WorkerRecs /\ worker'.pc = "issued" /\ worker'.left = w.left
          /\ worker'.artifact = m /\ worker'.own = w.own
      BY <3>3 DEF WorkerRecs, Pass
    <3> QED
      BY <1>11, <2>1, <3>1, <3>4
  <2>3. Item' = Item
    BY <2>2 DEF Item
  <2>4. WorkerKnows'
    BY <1>3, <1>7, <2>2, <2>3 DEF WorkerKnows
  <2>5. worker'.pc \notin Waits \cup {"request"} /\ worker'.artifact <= Len(artifacts')
    BY <1>7, <2>2 DEF Waits
  <2>6. worker'.left # <<>> /\ \A k \in 1..Len(worker'.left) : worker'.left[k] \in DOMAIN queue
    BY <1>0, <2>2 DEF UploadTyped
  <2> QED
    BY <1>0, <1>1, <1>7, <1>8, <1>9, <1>10, <1>11, <2>2, <2>4, <2>5, <2>6, WorkerStep
<1> QED
  BY <1>12, <1>13 DEF IssueUploadUrl

LEMMA PutObjectHolds == ASSUME UploadInv, PutObject PROVE UploadInv'
<1>0. /\ UploadTyped /\ KeptInv /\ RowsInv /\ worker.pc = "put" /\ StoreSame
      /\ UNCHANGED artifacts
  BY DEF UploadInv, PutObject, Doing, StoreSame
<1>1. /\ hydrated /\ Item \in Items /\ Type[Item] \in Keys
  BY <1>0, ItemFacts
<1>2. /\ RowsGrow /\ artifacts' \in Seq(RowRecs) /\ Len(artifacts) <= Len(artifacts')
      /\ worker.pc \notin Waits \cup {"rest"}
      /\ ~blank => \A a \in DOMAIN artifacts' : artifacts'[a].item \in DOMAIN storage
  <2>1. Len(artifacts) \in Nat
    BY <1>0 DEF UploadTyped
  <2> QED
    BY <1>0, <2>1, NoRowsGrow DEF UploadTyped, KeptInv, Waits
<1>3. objects' \in [Keys -> SUBSET Items] /\ ObjectsHeld'
  <2>1. CASE objects' = objects
    BY <1>0, <2>1 DEF UploadTyped, RowsInv, ObjectsHeld, OneObject
  <2>2. CASE objects' = [objects EXCEPT ![Type[Item]] = {Item}]
    <3>1. /\ objects' \in [Keys -> SUBSET Items] /\ objects'[Type[Item]] = {Item}
          /\ \A t \in Keys : t # Type[Item] => objects'[t] = objects[t]
      BY <1>0, <1>1, <2>2 DEF UploadTyped
    <3>2. ASSUME NEW t \in Keys PROVE OneObject(t)'
      BY <1>0, <1>1, <3>1, <3>2 DEF RowsInv, ObjectsHeld, OneObject
    <3>3. ASSUME NEW a \in DOMAIN artifacts
          PROVE  /\ artifacts[a].key = Type[artifacts[a].item]
                 /\ artifacts[a].status = "captured" => objects'[artifacts[a].key] # {}
      <4>1. artifacts[a] \in RowRecs
        BY <1>0, <3>3 DEF UploadTyped
      <4>2. artifacts[a].key \in Keys
        BY <4>1 DEF RowRecs
      <4> QED
        BY <1>0, <3>1, <3>3, <4>2 DEF RowsInv, ObjectsHeld
    <3> QED
      BY <1>0, <3>1, <3>2, <3>3 DEF ObjectsHeld, OneObject
  <2> QED
    BY <2>1, <2>2 DEF PutObject
<1>4. CASE Fails
  BY <1>0, <1>2, <1>3, <1>4, UnknowingHolds
<1>5. CASE Proceed("complete") /\ objects' = [objects EXCEPT ![Type[Item]] = {Item}]
  <2>1. worker'.pc = "complete" /\ worker'.left = worker.left /\ worker'.artifact = worker.artifact
    BY <1>0, <1>5, ProceedEffect DEF Pass
  <2>2. objects'[Type[Item]] # {}
    BY <1>0, <1>1, <1>5 DEF UploadTyped
  <2>3. Item' = Item
    BY <2>1 DEF Item
  <2>4. WorkerKnows'
    BY <1>0, <2>1, <2>2, <2>3 DEF RowsInv, WorkerKnows
  <2>5. "complete" \in Pass \ (Waits \cup {"rest", "request"})
    BY DEF Pass, Waits
  <2> QED
    BY <1>0, <1>1, <1>2, <1>3, <1>5, <2>4, <2>5, ProceedHolds
<1> QED
  BY <1>4, <1>5 DEF PutObject

LEMMA CompleteUploadHolds == ASSUME UploadInv, CompleteUpload PROVE UploadInv'
<1>0. /\ UploadTyped /\ KeptInv /\ RowsInv /\ worker.pc = "complete" /\ StoreSame
      /\ UNCHANGED objects
  BY DEF UploadInv, CompleteUpload, Doing, StoreSame
<1>1. /\ hydrated /\ Item \in Items /\ Type[Item] \in Keys
  BY <1>0, ItemFacts
<1>2. PICK a \in Nat : a = worker.artifact
  BY <1>0 DEF UploadTyped, WorkerRecs
<1>3. PICK rows \in Seq(RowRecs) : rows = artifacts
  BY <1>0 DEF UploadTyped
<1>4. /\ a \in DOMAIN rows /\ rows[a].item = Item /\ objects[Type[Item]] # {}
      /\ a > 0 /\ a <= Len(rows)
  <2>1. a > 0 /\ rows[a].item = Item /\ objects[Type[Item]] # {}
    BY <1>0, <1>2, <1>3 DEF RowsInv, WorkerKnows
  <2>2. a <= Len(rows)
    BY <1>0, <1>2, <1>3 DEF UploadTyped
  <2> QED
    BY <1>3, <2>1, <2>2
<1>5. worker.pc \notin Waits \cup {"rest"}
  BY <1>0 DEF Waits
<1>6. ASSUME artifacts' = Completed(a)
      PROVE  /\ artifacts' \in Seq(RowRecs) /\ Len(artifacts) <= Len(artifacts') /\ RowsGrow
             /\ ~blank => \A b \in DOMAIN artifacts' : artifacts'[b].item \in DOMAIN storage
             /\ ObjectsHeld'
             /\ artifacts'[a].item = Item /\ artifacts'[a].status = "captured"
  <2> DEFINE y == [rows[a] EXCEPT !.status = "captured"]
  <2>1. rows[a] \in RowRecs
    BY <1>3, <1>4
  <2>2. /\ y \in RowRecs /\ y.item = rows[a].item /\ y.key = rows[a].key /\ y.status = "captured"
    BY <2>1 DEF RowRecs
  <2>3. artifacts' = [rows EXCEPT ![a] = y]
    BY <1>3, <1>6 DEF Completed
  <2> HIDE DEF y
  <2>4. /\ artifacts' \in Seq(RowRecs) /\ Len(artifacts') = Len(rows) /\ DOMAIN artifacts' = DOMAIN rows
        /\ artifacts'[a] = y /\ \A b \in DOMAIN rows : b # a => artifacts'[b] = rows[b]
    <3>1. PICK n \in Nat : n = Len(rows) /\ rows \in [1..n -> RowRecs] /\ DOMAIN rows = 1..n
      BY <1>3
    <3>2. artifacts' \in [1..n -> RowRecs]
      BY <2>2, <2>3, <3>1
    <3>3. artifacts' \in Seq(RowRecs) /\ Len(artifacts') = n
      BY <3>1, <3>2
    <3> QED
      BY <1>4, <2>3, <3>1, <3>3
  <2>5. RowsGrow
    BY <1>3, <2>2, <2>4 DEF RowsGrow
  <2>6. ASSUME ~blank, NEW b \in DOMAIN artifacts' PROVE artifacts'[b].item \in DOMAIN storage
    BY <1>0, <1>3, <2>2, <2>4, <2>6 DEF KeptInv
  <2>7. Len(artifacts) <= Len(artifacts')
    <3>1. PICK n \in Nat : n = Len(rows)
      BY <1>3
    <3> QED
      BY <1>3, <2>4, <3>1
  <2>8. ASSUME NEW b \in DOMAIN artifacts'
        PROVE  /\ artifacts'[b].key = Type[artifacts'[b].item]
               /\ artifacts'[b].status = "captured" => objects[artifacts'[b].key] # {}
    <3>1. rows[b].key = Type[rows[b].item] /\ (rows[b].status = "captured" => objects[rows[b].key] # {})
      BY <1>0, <1>3, <2>4, <2>8 DEF RowsInv, ObjectsHeld
    <3> QED
      BY <1>4, <2>2, <2>4, <2>8, <3>1
  <2>9. ObjectsHeld'
    BY <1>0, <2>8 DEF RowsInv, ObjectsHeld, OneObject
  <2> QED
    BY <1>4, <2>2, <2>4, <2>5, <2>6, <2>7, <2>9
<1>7. CASE artifacts' = artifacts /\ (Fails \/ Refused)
  <2>1. /\ artifacts' \in Seq(RowRecs) /\ Len(artifacts) <= Len(artifacts') /\ RowsGrow
        /\ ~blank => \A b \in DOMAIN artifacts' : artifacts'[b].item \in DOMAIN storage
        /\ ObjectsHeld'
    <3>1. Len(artifacts) \in Nat /\ artifacts \in Seq(RowRecs)
      BY <1>0 DEF UploadTyped
    <3>2. ~blank => \A b \in DOMAIN artifacts : artifacts[b].item \in DOMAIN storage
      BY <1>0 DEF KeptInv
    <3>3. ObjectsHeld'
      BY <1>0, <1>7 DEF RowsInv, ObjectsHeld, OneObject
    <3> QED
      BY <1>7, <3>1, <3>2, <3>3, NoRowsGrow
  <2>2. objects' \in [Keys -> SUBSET Items]
    BY <1>0 DEF UploadTyped
  <2> QED
    BY <1>0, <1>5, <1>7, <2>1, <2>2, UnknowingHolds
<1>8. CASE artifacts' = Completed(a) /\ (Proceed("succeed") \/ Fails)
  <2>1. objects' \in [Keys -> SUBSET Items]
    BY <1>0 DEF UploadTyped
  <2>2. CASE Fails
    BY <1>0, <1>5, <1>6, <1>8, <2>1, <2>2, UnknowingHolds
  <2>3. CASE Proceed("succeed")
    <3>1. worker'.pc = "succeed" /\ worker'.left = worker.left /\ worker'.artifact = a
      BY <1>0, <1>2, <2>3, ProceedEffect DEF Pass
    <3>2. Item' = Item
      BY <3>1 DEF Item
    <3>3. WorkerKnows'
      BY <1>0, <1>4, <1>6, <1>8, <3>1, <3>2 DEF WorkerKnows
    <3>4. "succeed" \in Pass \ (Waits \cup {"rest", "request"})
      BY DEF Pass, Waits
    <3> QED
      BY <1>0, <1>1, <1>5, <1>6, <1>8, <2>1, <2>3, <3>3, <3>4, ProceedHolds
  <2> QED
    BY <1>8, <2>2, <2>3
<1> QED
  BY <1>2, <1>7, <1>8 DEF CompleteUpload

LEMMA UploadStep == UploadInv /\ [UploadNext]_uploadVars => UploadInv'
<1> SUFFICES ASSUME UploadInv, [UploadNext]_uploadVars PROVE UploadInv'
  OBVIOUS
<1>1. CASE Hydrate
  BY <1>1, HydrateHolds
<1>2. CASE Persist
  BY <1>2, PersistHolds
<1>3. CASE Kill
  BY <1>3, KillHolds
<1>4. CASE \E i \in Items : Enqueue(i) \/ Due(i)
  BY <1>4, EnqueueHolds, DueHolds
<1>5. CASE Tick \/ MarkPreparing
  BY <1>5, TickHolds, MarkPreparingHolds
<1>6. CASE Request
  BY <1>6, IssueUploadUrlHolds, NoUploadUrlHolds, PutObjectHolds, CompleteUploadHolds DEF Request
<1>7. CASE MarkPrepared \/ MarkSucceeded \/ ScheduleRetry \/ GiveUp \/ MarkFailed
  BY <1>7, MarksHold
<1>8. CASE PersistFails
  BY <1>8, PersistFailsHolds
<1>10. CASE UNCHANGED uploadVars
  <2>1. UploadTyped' /\ KeptInv' /\ StoredInv'
    BY <1>10 DEF UploadInv, uploadVars, UploadTyped, KeptInv, StoredInv, Version, Item
  <2>2. QueuesTrue'
    BY <1>10, QueuesStay, NoRowsGrow DEF UploadInv, RowsInv, uploadVars
  <2>3. ObjectsHeld' /\ WorkerKnows'
    BY <1>10 DEF UploadInv, RowsInv, uploadVars, ObjectsHeld, OneObject, WorkerKnows, Item
  <2> QED
    BY <2>1, <2>2, <2>3 DEF UploadInv, RowsInv
<1> QED
  BY <1>1, <1>2, <1>3, <1>4, <1>5, <1>6, <1>7, <1>8, <1>10 DEF UploadNext, Work

LEMMA UploadHolds == UploadSpec => []UploadInv
BY UploadInitHolds, UploadStep, PTL DEF UploadSpec

-----------------------------------------------------------------------------
(* What the invariant says of the queue, the rows and the case. *)

LEMMA UploadTypesMean == UploadTyped => UploadTypeOK
<1> SUFFICES ASSUME UploadTyped PROVE UploadTypeOK
  OBVIOUS
<1>1. \A i \in DOMAIN queue : queue[i].status \in ItemStatuses
  BY QueueFacts DEF UploadTyped, ItemRecs
<1>2. worker.own \in 0..Len(writes) /\ (worker.own > 0 <=> worker.pc \in Waits)
  <2>1. worker.own \in Nat /\ worker.own <= Len(writes) /\ Len(writes) \in Nat
    BY DEF UploadTyped, WorkerRecs
  <2> QED
    BY <2>1 DEF UploadTyped
<1>3. Range(worker.left) \subseteq Items
  <2>1. worker.left \in Seq(Items)
    BY DEF UploadTyped, WorkerRecs
  <2> QED
    BY <2>1 DEF Range
<1>4. worker.artifact \in 0..Len(artifacts)
  <2>1. worker.artifact \in Nat /\ worker.artifact <= Len(artifacts) /\ Len(artifacts) \in Nat
    BY DEF UploadTyped, WorkerRecs
  <2> QED
    BY <2>1
<1> QED
  BY <1>1, <1>2, <1>3, <1>4 DEF UploadTypeOK

\* Once the app has read the storage, the queue has whatever the storage has.
LEMMA QueueHasStorage ==
   ASSUME UploadTyped, KeptInv, ~blank, hydrated PROVE DOMAIN storage \subseteq DOMAIN queue
<1>1. Len(writes) \in Nat
  BY DEF UploadTyped
<1>2. 0 \in 0..Len(writes)
  BY <1>1
<1> QED
  BY <1>2 DEF KeptInv, Version

\* What was stored, as an item is when its enqueuing is answered, survives every
\* kill and refused write, unless the storage could not be read.
THEOREM QueuedItemsAreKept == UploadSpec => []QueuedIsKept
<1>1. UploadInv => QueuedIsKept
  <2> SUFFICES ASSUME UploadInv PROVE QueuedIsKept
    OBVIOUS
  <2>1. UploadTyped /\ KeptInv
    BY DEF UploadInv
  <2>2. ASSUME ~blank PROVE kept \subseteq DOMAIN storage
    BY <2>1, <2>2 DEF KeptInv
  <2>3. ASSUME ~blank, hydrated PROVE kept \subseteq DOMAIN queue
    BY <2>1, <2>2, <2>3, QueueHasStorage
  <2> QED
    BY <2>1, <2>2, <2>3, UploadTypesMean DEF QueuedIsKept
<1> QED
  BY <1>1, UploadHolds, PTL

\* What the queue calls uploaded has a captured row, and a captured row's object
\* holds its item's bytes or those of another item of its type.
THEOREM CapturedRowsHaveBytes == UploadSpec => []CapturedHasItsBytes
<1>1. UploadInv => CapturedHasItsBytes
  <2> SUFFICES ASSUME UploadInv PROVE CapturedHasItsBytes
    OBVIOUS
  <2>1. UploadTyped /\ QueuesTrue /\ ObjectsHeld
    BY DEF UploadInv, RowsInv
  <2>2. \A i \in DOMAIN queue : queue[i].status = "uploaded" => HasCaptured(i)
    BY <2>1 DEF QueuesTrue, TrueQueue
  <2>3. ASSUME NEW a \in DOMAIN artifacts, artifacts[a].status = "captured"
        PROVE  \/ objects[artifacts[a].key] = {artifacts[a].item}
               \/ \E j \in Items \ {artifacts[a].item} :
                     Type[j] = Type[artifacts[a].item] /\ objects[artifacts[a].key] = {j}
    <3>1. artifacts[a] \in RowRecs
      BY <2>1, <2>3 DEF UploadTyped
    <3>2. artifacts[a].key \in Keys
      BY <3>1 DEF RowRecs
    <3>3. artifacts[a].key = Type[artifacts[a].item] /\ objects[artifacts[a].key] # {}
      BY <2>1, <2>3 DEF ObjectsHeld
    <3>4. PICK j \in Items : Type[j] = artifacts[a].key /\ objects[artifacts[a].key] = {j}
      BY <2>1, <3>2, <3>3 DEF ObjectsHeld, OneObject
    <3> QED
      BY <3>3, <3>4
  <2> QED
    BY <2>2, <2>3 DEF CapturedHasItsBytes, HasCaptured
<1> QED
  BY <1>1, UploadHolds, PTL

\* Evidence without a pending row, and with a captured one if it has any, raises
\* no critical blocker.
LEMMA NothingCritical ==
   ASSUME NEW e, InStatus(e, "pending") = {}, InStatus(e, "captured") # {} \/ Rows(e) = {}
   PROVE  Critical(e) = {}
BY DEF Critical, Blockers

\* Two rows of an item tell of an attempt that was broken off.
LEMMA TwoRows ==
   ASSUME UploadTyped, NEW a \in DOMAIN artifacts, NEW b \in DOMAIN artifacts, a # b,
          artifacts[a].item = artifacts[b].item
   PROVE  \E i \in Items : BrokenOff(i)
<1>1. artifacts \in Seq(RowRecs) /\ Len(artifacts) \in Nat /\ DOMAIN artifacts = 1..Len(artifacts)
  BY DEF UploadTyped
<1>2. PICK i \in Items : i = artifacts[a].item
  <2>1. artifacts[a] \in RowRecs
    BY <1>1
  <2> QED
    BY <2>1 DEF RowRecs
<1> DEFINE S == {c \in DOMAIN artifacts : artifacts[c].item = i}
<1>3. IsFiniteSet(DOMAIN artifacts)
  BY <1>1, FS_Interval
<1>4. IsFiniteSet(S)
  BY <1>3, FS_Subset
<1>5. {a, b} \subseteq S
  BY <1>2
<1> HIDE DEF S
<1>6. Cardinality({a, b}) = 2 /\ Cardinality({a, b}) <= Cardinality(S) /\ Cardinality(S) \in Nat
  <2>1. IsFiniteSet({a}) /\ Cardinality({a}) = 1
    BY FS_Singleton
  <2>2. Cardinality({a} \cup {b}) = IF b \in {a} THEN Cardinality({a}) ELSE Cardinality({a}) + 1
    BY <2>1, FS_AddElement
  <2>3. {a} \cup {b} = {a, b} /\ b \notin {a}
    OBVIOUS
  <2>4. Cardinality({a, b}) = 2
    BY <2>1, <2>2, <2>3
  <2> QED
    BY <1>4, <1>5, <2>4, FS_Subset, FS_CardinalityType
<1>7. Cardinality(S) > 1
  BY <1>6
<1> QED
  BY <1>7 DEF S, BrokenOff

\* When every item is uploaded no row of them holds up the case, unless an
\* attempt was given up after it had its row.
THEOREM UploadsFree == UploadSpec => []UploadsFreeTheCase
<1>1. UploadInv => UploadsFreeTheCase
  <2> SUFFICES ASSUME UploadInv, hydrated, ~blank,
                      \A i \in DOMAIN queue : queue[i].status = "uploaded",
                      ~ \E i \in Items : BrokenOff(i)
               PROVE  Critical(Evidence) = {}
    BY DEF UploadsFreeTheCase
  <2>1. UploadTyped /\ KeptInv /\ TrueQueue(queue)
    BY DEF UploadInv, RowsInv, QueuesTrue
  <2>2. ASSUME NEW a \in DOMAIN artifacts PROVE artifacts[a].status = "captured"
    <3>1. artifacts[a].item \in DOMAIN queue
      BY <2>1, <2>2, QueueHasStorage DEF KeptInv
    <3>2. PICK b \in DOMAIN artifacts :
            artifacts[b].item = artifacts[a].item /\ artifacts[b].status = "captured"
      BY <2>1, <3>1 DEF TrueQueue, HasCaptured
    <3>3. a = b
      BY <2>1, <3>2, TwoRows
    <3> QED
      BY <3>2, <3>3
  <2>3. PICK e : e = Evidence
    OBVIOUS
  <2>4. /\ DOMAIN e.artifacts = DOMAIN artifacts
        /\ \A a \in DOMAIN artifacts : e.artifacts[a] = artifacts[a].status
    BY <2>3 DEF Evidence
  <2>5. InStatus(e, "pending") = {} /\ (InStatus(e, "captured") # {} \/ Rows(e) = {})
    BY <2>2, <2>4 DEF InStatus, Rows
  <2>6. Critical(e) = {}
    BY <2>5, NothingCritical
  <2> QED
    BY <2>3, <2>6
<1> QED
  BY <1>1, UploadHolds, PTL
=============================================================================
