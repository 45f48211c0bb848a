--------------------- MODULE CrashPacketDeliveryProofs ---------------------
(***************************************************************************)
(* Theorems about CrashPacketDelivery, for every number of callers,        *)
(* recipients, retries and faults.                                         *)
(*                                                                         *)
(* The steps of a task differ in little: each replaces the task's record.  *)
(* The lemmas under "What the steps do" say by what, and the invariants    *)
(* are then proved from those lemmas.                                      *)
(***************************************************************************)
EXTENDS CrashPacketDelivery, TLAPS

Tasks == [pc : {"none", "queued", "done", "dead"} \cup Running,
          tries : 0..MaxRetries, seen : Statuses \cup {"none"},
          next : 1..(MaxRecipients + 1),
          sent : SUBSET (1..MaxRecipients), failed : SUBSET (1..MaxRecipients)]

Rows == [status : Statuses \cup {"none"},
         sent : SUBSET (1..MaxRecipients), failed : SUBSET (1..MaxRecipients)]

(* The invariant behind RowIsHonest.  A task that mails has announced it,  *)
(* has tried exactly the recipients before "next", and lists as sent only  *)
(* those it mailed.                                                        *)

RowIsRecord == row \in Rows

MailsAreAnnounced ==
    /\ \A n \in 1..MaxRecipients : mails[n] > 0 => "dispatched" \in log
    /\ \A c \in Callers : task[c].pc = "send" => "dispatched" \in log

TasksListTruly ==
    \A c \in Callers :
        /\ \A n \in task[c].sent : mails[n] > 0
        /\ task[c].pc \in {"create", "mark", "announce", "send"} =>
              task[c].sent \cup task[c].failed = 1..(task[c].next - 1)

TypeInv == TypeOK /\ RowIsRecord
\* A caller publishes its task with its last step.
PublishedLast == \A c \in Callers : caller[c] # "over" => task[c].pc = "none"

HonestInv ==
    TypeInv /\ PublishedLast /\ MailsAreAnnounced /\ TasksListTruly /\ RowClaimsAreTrue

(* The invariant behind ResendHasCause.  Until something goes wrong there  *)
(* is one run at a time, it begins when nobody was mailed yet, and it      *)
(* mails those it does not list as sent.                                   *)

Calm == lost + errors = 0 /\ ~overlapped /\ ~overtaken
NobodyMailed == \A n \in 1..MaxRecipients : mails[n] = 0

OneRunAtATime ==
    \A c, o \in Callers : task[c].pc \in Running /\ task[o].pc \in Running => c = o

RunsBeginFresh ==
    \A c \in Callers : task[c].pc \in {"create", "mark", "announce"} => NobodyMailed

RunMailsTheRest ==
    \A c \in Callers : task[c].pc = "send" =>
        \A n \in 1..MaxRecipients : mails[n] > 0 => n \in task[c].sent

MailsAreSettledOrSending ==
    NobodyMailed \/ row.status \in Settled \/ \E c \in Callers : task[c].pc = "send"

MailedOnce == \A n \in 1..MaxRecipients : mails[n] =< 1

NobodyMailedTwice ==
    /\ OneRunAtATime
    /\ RunsBeginFresh
    /\ RunMailsTheRest
    /\ MailsAreSettledOrSending
    /\ MailedOnce

CalmInv == Calm => NobodyMailedTwice
-----------------------------------------------------------------------------
(* What the steps do.  Each step of a task replaces its record by t. *)

Becomes(c, t) == t \in Tasks /\ task' = [task EXCEPT ![c] = t]

\* The record of a task is a record of Tasks, and so is an idle one.
LEMMA TaskRecord ==
   ASSUME TypeInv, NEW c \in Callers
   PROVE  task \in [Callers -> Tasks] /\ task[c] \in Tasks
BY DEF TypeInv, TypeOK, Tasks

\* Only the task that moves changes.
LEMMA Replaced ==
   ASSUME TypeInv, NEW c \in Callers, NEW t, Becomes(c, t)
   PROVE  /\ task' \in [Callers -> Tasks]
          /\ task'[c] = t
          /\ \A o \in Callers : o # c => task'[o] = task[o]
BY TaskRecord DEF Becomes

\* A run starts from an empty record.
Fresh(p, s, k) == [pc |-> p, tries |-> k, seen |-> s, next |-> 1, sent |-> {}, failed |-> {}]

LEMMA UnpublishedRecord == Unpublished \in Tasks
BY DeliveryAssumption DEF Unpublished, Tasks

LEMMA FreshRecord ==
   ASSUME NEW p \in {"none", "queued", "done", "dead"} \cup Running,
          NEW k \in 0..MaxRetries, NEW s \in Statuses \cup {"none"}
   PROVE  /\ Fresh(p, s, k) \in Tasks
          /\ [Unpublished EXCEPT !.pc = p, !.seen = s, !.tries = k] = Fresh(p, s, k)
          /\ s = "none" => [Unpublished EXCEPT !.pc = p, !.tries = k] = Fresh(p, s, k)
<1> DEFINE t == Fresh(p, s, k)
<1>1. Unpublished \in Tasks
  BY UnpublishedRecord
<1>2. t \in Tasks /\ t.pc = p /\ t.tries = k /\ t.seen = s
  BY DeliveryAssumption DEF Fresh, Tasks
<1>3. /\ t.next = Unpublished.next /\ t.sent = Unpublished.sent
      /\ t.failed = Unpublished.failed /\ Unpublished.seen = "none"
  BY DEF Fresh, Unpublished
<1> HIDE DEF t
<1>4. /\ [Unpublished EXCEPT !.pc = p, !.seen = s, !.tries = k] = t
      /\ s = "none" => [Unpublished EXCEPT !.pc = p, !.tries = k] = t
  BY <1>1, <1>2, <1>3 DEF Tasks
<1> QED
  BY <1>2, <1>4 DEF t

\* A task that is queued, or stops, forgets what it has done.
Forgotten(t) == t.pc \in {"none", "queued", "done", "dead"} /\ t.sent = {} /\ t.failed = {}

LEMMA DoneEffect ==
   ASSUME TypeInv, NEW c \in Callers, task' = [task EXCEPT ![c] = Done]
   PROVE  \E t : Becomes(c, t) /\ Forgotten(t)
<1>1. Done = Fresh("done", "none", 0)
  BY DEF Done, Unpublished, Fresh
<1>2. Fresh("done", "none", 0) \in Tasks
  <2>1. 0 \in 0..MaxRetries
    BY DeliveryAssumption
  <2> QED
    BY <2>1, FreshRecord
<1>3. Becomes(c, Done) /\ Forgotten(Done)
  BY <1>1, <1>2 DEF Becomes, Forgotten, Fresh
<1> QED
  BY <1>3

LEMMA RetryEffect ==
   ASSUME TypeInv, NEW c \in Callers, Retry(c)
   PROVE  \E t : Becomes(c, t) /\ Forgotten(t)
<1> DEFINE p == IF task[c].tries < MaxRetries THEN "queued" ELSE "dead"
           k == IF task[c].tries < MaxRetries THEN task[c].tries + 1 ELSE task[c].tries
           t == Fresh(p, "none", k)
<1>1. p \in {"queued", "dead"} /\ k \in 0..MaxRetries
  BY TaskRecord, DeliveryAssumption DEF Tasks
<1>2. task' = [task EXCEPT ![c] = [Unpublished EXCEPT !.pc = p, !.tries = k]]
  BY DEF Retry
<1> HIDE DEF p, k
<1>3. [Unpublished EXCEPT !.pc = p, !.tries = k] = t /\ t \in Tasks
  BY <1>1, FreshRecord
<1>4. t.pc = p /\ t.sent = {} /\ t.failed = {}
  BY DEF Fresh
<1> HIDE DEF t
<1>5. Becomes(c, t) /\ Forgotten(t)
  BY <1>1, <1>2, <1>3, <1>4 DEF Becomes, Forgotten
<1> QED
  BY <1>5

LEMMA LostEffect ==
   ASSUME TypeInv, NEW c \in Callers, WorkerLost(c)
   PROVE  \E t : Becomes(c, t) /\ Forgotten(t)
<1> DEFINE k == task[c].tries
           t == Fresh("queued", "none", k)
<1>1. k \in 0..MaxRetries
  BY TaskRecord DEF Tasks
<1>2. task' = [task EXCEPT ![c] = [Unpublished EXCEPT !.pc = "queued", !.tries = k]]
  BY DEF WorkerLost
<1> HIDE DEF k
<1>3. [Unpublished EXCEPT !.pc = "queued", !.tries = k] = t /\ t \in Tasks
  BY <1>1, FreshRecord
<1>4. t.pc = "queued" /\ t.sent = {} /\ t.failed = {}
  BY DEF Fresh
<1> HIDE DEF t
<1>5. Becomes(c, t) /\ Forgotten(t)
  BY <1>2, <1>3, <1>4 DEF Becomes, Forgotten
<1> QED
  BY <1>5

LEMMA BeginEffect ==
   ASSUME TypeInv, NEW c \in Callers, Begin(c)
   PROVE  \E t : /\ Becomes(c, t)
                 /\ t.pc = IF row = NoRow THEN "create" ELSE "mark"
                 /\ t.next = 1 /\ t.sent = {} /\ t.failed = {}
<1> DEFINE p == IF row = NoRow THEN "create" ELSE "mark"
           s == row.status
           k == task[c].tries
           t == Fresh(p, s, k)
<1>1. /\ p \in Running
      /\ s \in Statuses \cup {"none"}
      /\ k \in 0..MaxRetries
  BY TaskRecord DEF Tasks, Running, TypeInv, TypeOK
<1>2. task' = [task EXCEPT ![c] = [Unpublished EXCEPT !.pc = p, !.seen = s, !.tries = k]]
  BY DEF Begin
<1>3. p = IF row = NoRow THEN "create" ELSE "mark"
  OBVIOUS
<1> HIDE DEF p, s, k
<1>4. [Unpublished EXCEPT !.pc = p, !.seen = s, !.tries = k] = t /\ t \in Tasks
  BY <1>1, FreshRecord
<1>5. t.pc = p /\ t.next = 1 /\ t.sent = {} /\ t.failed = {}
  BY DEF Fresh
<1> HIDE DEF t
<1>6. Becomes(c, t)
  BY <1>2, <1>4 DEF Becomes
<1> QED
  BY <1>3, <1>5, <1>6

\* A task moves on and keeps its lists.
Moved(c, t, pc) ==
    /\ Becomes(c, t)
    /\ t.pc = pc /\ t.next = task[c].next
    /\ t.sent = task[c].sent /\ t.failed = task[c].failed

LEMMA MoveSeenEffect ==
   ASSUME TypeInv, NEW c \in Callers, NEW pc \in Running \cup {"queued"},
          NEW s \in Statuses \cup {"none"},
          task' = [task EXCEPT ![c] = [task[c] EXCEPT !.pc = pc, !.seen = s]]
   PROVE  \E t : Moved(c, t, pc)
<1> DEFINE t == [task[c] EXCEPT !.pc = pc, !.seen = s]
<1>1. t \in Tasks /\ t.pc = pc /\ t.next = task[c].next
      /\ t.sent = task[c].sent /\ t.failed = task[c].failed
  BY TaskRecord DEF Tasks
<1> HIDE DEF t
<1>2. task' = [task EXCEPT ![c] = t]
  BY DEF t
<1>3. Moved(c, t, pc)
  BY <1>1, <1>2 DEF Becomes, Moved
<1> QED
  BY <1>3

LEMMA MoveEffect ==
   ASSUME TypeInv, NEW c \in Callers, NEW pc \in Running \cup {"queued"},
          task' = [task EXCEPT ![c].pc = pc]
   PROVE  \E t : Moved(c, t, pc)
<1>1. task' = [task EXCEPT ![c] = [task[c] EXCEPT !.pc = pc, !.seen = task[c].seen]]
  BY TaskRecord DEF Tasks
<1>2. task[c].seen \in Statuses \cup {"none"}
  BY TaskRecord DEF Tasks
<1> QED
  BY <1>1, <1>2, MoveSeenEffect

LEMMA EnqueueEffect ==
   ASSUME TypeInv, NEW c \in Callers, Enqueue(c)
   PROVE  \E t : Moved(c, t, "queued")
<1>1. task' = [task EXCEPT ![c].pc = "queued"] /\ "queued" \in Running \cup {"queued"}
  BY DEF Enqueue
<1> QED
  BY <1>1, MoveEffect

LEMMA CreateRowEffect ==
   ASSUME TypeInv, NEW c \in Callers, CreateRow(c)
   PROVE  \E t : Moved(c, t, "mark")
<1>1. task' = [task EXCEPT ![c] = [task[c] EXCEPT !.pc = "mark", !.seen = "queued"]]
  BY TaskRecord DEF CreateRow, Tasks
<1>2. "mark" \in Running /\ "queued" \in Statuses
  BY DEF Running, Statuses, Unsettled
<1> QED
  BY <1>1, <1>2, MoveSeenEffect

LEMMA MarkEffect ==
   ASSUME TypeInv, NEW c \in Callers, MarkDispatched(c)
   PROVE  \E t : Moved(c, t, "announce")
<1>1. task' = [task EXCEPT ![c] = [task[c] EXCEPT !.pc = "announce", !.seen = "none"]]
  BY TaskRecord DEF MarkDispatched, Tasks
<1>2. "announce" \in Running
  BY DEF Running
<1> QED
  BY <1>1, <1>2, MoveSeenEffect

LEMMA AnnounceEffect ==
   ASSUME TypeInv, NEW c \in Callers, Announce(c)
   PROVE  \E t : Moved(c, t, "send")
<1>1. task' = [task EXCEPT ![c].pc = "send"] /\ "send" \in Running
  BY DEF Announce, Goto, Running
<1> QED
  BY <1>1, MoveEffect

LEMMA RecordEffect ==
   ASSUME TypeInv, NEW c \in Callers, RecordResult(c)
   PROVE  \E t : Moved(c, t, "event")
<1>1. task' = [task EXCEPT ![c].pc = "event"] /\ "event" \in Running
  BY DEF RecordResult, Goto, Running
<1> QED
  BY <1>1, MoveEffect

LEMMA EmitEffect ==
   ASSUME TypeInv, NEW c \in Callers, EmitResult(c)
   PROVE  \E t : Moved(c, t, "ack")
<1>1. task' = [task EXCEPT ![c].pc = "ack"] /\ "ack" \in Running
  BY DEF EmitResult, Goto, Running
<1> QED
  BY <1>1, MoveEffect

\* One recipient is tried: it goes on one of the two lists.
Tried(c, t) ==
    /\ Becomes(c, t)
    /\ t.pc = "send" /\ t.next = task[c].next + 1
    /\ t.sent \cup t.failed = task[c].sent \cup task[c].failed \cup {task[c].next}

LEMMA AcceptedEffect ==
   ASSUME TypeInv, NEW c \in Callers, SendAccepted(c)
   PROVE  \E t : Tried(c, t) /\ t.sent = task[c].sent \cup {task[c].next}
<1> DEFINE n == task[c].next
           t == [task[c] EXCEPT !.sent = task[c].sent \cup {n}, !.next = n + 1]
<1>1. task' = [task EXCEPT ![c] = t]
  BY TaskRecord DEF SendAccepted, Tasks
<1>2. n \in 1..MaxRecipients
  <2>1. Due(c)
    BY DEF SendAccepted
  <2> QED
    BY <2>1, TaskRecord, DeliveryAssumption DEF Due, Tasks, TypeInv, TypeOK
<1>3. t \in Tasks /\ t.pc = "send" /\ t.next = n + 1 /\ t.sent = task[c].sent \cup {n}
      /\ t.failed = task[c].failed
  BY TaskRecord, <1>2, DeliveryAssumption DEF Tasks, SendAccepted, Due
<1> HIDE DEF t
<1> QED
  BY <1>1, <1>3 DEF Becomes, Tried

LEMMA FailedEffect ==
   ASSUME TypeInv, NEW c \in Callers, SendFailed(c) \/ SendUnanswered(c)
   PROVE  \E t : Tried(c, t) /\ t.sent = task[c].sent
<1> DEFINE n == task[c].next
           t == [task[c] EXCEPT !.failed = task[c].failed \cup {n}, !.next = n + 1]
<1>1. task' = [task EXCEPT ![c] = t]
  BY TaskRecord DEF SendFailed, SendUnanswered, Tasks
<1>2. n \in 1..MaxRecipients
  BY TaskRecord DEF SendFailed, SendUnanswered, Due, Tasks, TypeInv, TypeOK
<1>3. t \in Tasks /\ t.pc = "send" /\ t.next = n + 1 /\ t.sent = task[c].sent
      /\ t.failed = task[c].failed \cup {n}
  BY TaskRecord, <1>2, DeliveryAssumption DEF Tasks, SendFailed, SendUnanswered, Due
<1> HIDE DEF t
<1> QED
  BY <1>1, <1>3 DEF Becomes, Tried
-----------------------------------------------------------------------------
(* Type correctness *)

\* The conjuncts of TypeInv that each step must keep, once it is known that
\* the tasks are.
LEMMA TasksTyped ==
   ASSUME TypeInv, NEW c \in Callers, NEW t, Becomes(c, t), row' \in Rows,
          row # NoRow => row' # NoRow,
          t.pc \in Running \ {"create"} => row' # NoRow
   PROVE  /\ task' \in [Callers -> Tasks]
          /\ \A o \in Callers : task'[o].pc \in Running \ {"create"} => row' # NoRow
BY Replaced DEF TypeInv, TypeOK

LEMMA CallerKeepsTypes ==
   ASSUME TypeInv, NEW c \in Callers,
          \/ FlipStatus(c) \/ AlreadyFlipped(c) \/ RecordFlip(c) \/ CheckRow(c)
          \/ CheckRowFails(c) \/ PreCreateRow(c) \/ PreCreateConflict(c)
          \/ EnqueueRefused(c) \/ CallerLost(c)
   PROVE  TypeInv'
<1> USE DEF TypeInv, TypeOK, incident, history, faults
<1>1. CASE FlipStatus(c)
  BY <1>1 DEF FlipStatus, RowIsRecord
<1>2. CASE AlreadyFlipped(c)
  BY <1>2 DEF AlreadyFlipped, RowIsRecord
<1>3. CASE RecordFlip(c)
  BY <1>3 DEF RecordFlip, RowIsRecord
<1>4. CASE CheckRow(c)
  BY <1>4 DEF CheckRow, RowIsRecord
<1>5. CASE CheckRowFails(c)
  BY <1>5, DeliveryAssumption DEF CheckRowFails, MayFail, RowIsRecord
<1>6. CASE PreCreateRow(c)
  BY <1>6 DEF PreCreateRow, NewRow, NoRow, Statuses, Unsettled, RowIsRecord, Rows
<1>7. CASE PreCreateConflict(c)
  BY <1>7 DEF PreCreateConflict, RowIsRecord
<1>8. CASE EnqueueRefused(c)
  BY <1>8, DeliveryAssumption DEF EnqueueRefused, MayFail, RowIsRecord
<1>9. CASE CallerLost(c)
  BY <1>9, DeliveryAssumption DEF CallerLost, MayFail, RowIsRecord
<1> QED
  BY <1>1, <1>2, <1>3, <1>4, <1>5, <1>6, <1>7, <1>8, <1>9

\* What a step writes into the row is a row.
LEMMA RowRecord ==
   ASSUME TypeInv, NEW s \in Statuses
   PROVE  /\ [row EXCEPT !.status = s] \in Rows
          /\ [row EXCEPT !.status = s] # NoRow
          /\ [NoRow EXCEPT !.status = s] \in Rows
          /\ [NoRow EXCEPT !.status = s] # NoRow
BY DEF TypeInv, RowIsRecord, Rows, NoRow, Statuses, Unsettled, Settled

\* The conjuncts of TypeOK that are not about the row and the tasks.
OtherTypes ==
    /\ occurred \in BOOLEAN /\ late \in BOOLEAN
    /\ overlapped \in BOOLEAN /\ overtaken \in BOOLEAN
    /\ log \subseteq {"status_changed", "dispatched", "sent", "failed", "overdue"}
    /\ recipients \in 0..MaxRecipients
    /\ caller \in [Callers -> {"idle", "record", "check", "create", "enqueue", "over"}]
    /\ mails \in [1..MaxRecipients -> Nat]
    /\ watchdog \in {"idle", "mark", "emit"}
    /\ lost \in Nat /\ refused \in Nat /\ errors \in Nat
    /\ lost + refused + errors =< MaxFaults

LEMMA TypesFromParts ==
   ASSUME TypeInv, OtherTypes', row' \in Rows, row # NoRow => row' # NoRow,
          NEW c \in Callers, NEW t, Becomes(c, t),
          t.pc \in Running \ {"create"} => row' # NoRow
   PROVE  TypeInv'
<1>1. /\ task' \in [Callers -> Tasks]
      /\ \A o \in Callers : task'[o].pc \in Running \ {"create"} => row' # NoRow
  BY TasksTyped
<1>2. row'.status \in Statuses \cup {"none"} /\ row'.sent \cup row'.failed \subseteq 1..MaxRecipients
  BY DEF Rows
<1> QED
  BY <1>1, <1>2 DEF TypeInv, TypeOK, OtherTypes, RowIsRecord, Tasks

LEMMA TaskKeepsTypes ==
   ASSUME TypeInv, NEW c \in Callers, Enqueue(c) \/ Dispatch(c)
   PROVE  TypeInv'
<1> USE DEF incident, history, faults
<1>0. /\ OtherTypes /\ row \in Rows
      /\ task[c].pc \in Running \ {"create"} => row # NoRow
  BY DEF TypeInv, TypeOK, OtherTypes, RowIsRecord
<1>1. CASE Enqueue(c)
  <2>1. OtherTypes' /\ row' = row
    BY <1>0, <1>1 DEF Enqueue, OtherTypes
  <2> QED
    BY <1>0, <1>1, <2>1, EnqueueEffect, TypesFromParts DEF Moved, Running
<1>2. CASE SkipSettled(c) \/ Acknowledge(c)
  <2>1. OtherTypes' /\ row' = row /\ task' = [task EXCEPT ![c] = Done]
    BY <1>0, <1>2 DEF SkipSettled, Acknowledge, OtherTypes
  <2> QED
    BY <1>0, <2>1, DoneEffect, TypesFromParts DEF Forgotten, Running
<1>3. CASE Begin(c)
  <2>1. OtherTypes' /\ row' = row
    BY <1>0, <1>3 DEF Begin, Overlap, OtherTypes
  <2> QED
    BY <1>0, <1>3, <2>1, BeginEffect, TypesFromParts
<1>4. CASE CreateRow(c)
  <2>1. OtherTypes' /\ row' \in Rows /\ row' # NoRow
    BY <1>0, <1>4, RowRecord DEF CreateRow, NewRow, OtherTypes, Statuses, Unsettled
  <2> QED
    BY <1>4, <2>1, CreateRowEffect, TypesFromParts DEF Moved
<1>5. CASE CreateConflict(c)
  <2>1. OtherTypes' /\ row' = row /\ Retry(c)
    BY <1>0, <1>5 DEF CreateConflict, OtherTypes
  <2> QED
    BY <1>0, <2>1, RetryEffect, TypesFromParts DEF Forgotten, Running
<1>6. CASE MarkDispatched(c)
  <2>1. row # NoRow
    BY <1>0, <1>6 DEF MarkDispatched, Running
  <2>2. row' = row \/ row' = [row EXCEPT !.status = "dispatched"]
    BY <1>0, <1>6 DEF MarkDispatched, Rows
  <2>3. OtherTypes' /\ row' \in Rows /\ row' # NoRow
    BY <1>0, <1>6, <2>1, <2>2, RowRecord DEF MarkDispatched, OtherTypes, Statuses, Unsettled
  <2> QED
    BY <1>6, <2>3, MarkEffect, TypesFromParts DEF Moved
<1>7. CASE Announce(c)
  <2>1. OtherTypes' /\ row' = row /\ row # NoRow
    BY <1>0, <1>7 DEF Announce, OtherTypes, Running
  <2> QED
    BY <1>0, <1>7, <2>1, AnnounceEffect, TypesFromParts DEF Moved
<1>8. CASE SendAccepted(c)
  <2>1. Due(c) /\ row' = row
    BY <1>8 DEF SendAccepted
  <2>2. task[c].next \in 1..MaxRecipients
    BY <1>0, <2>1, TaskRecord, DeliveryAssumption DEF Due, Tasks, OtherTypes
  <2>3. mails' \in [1..MaxRecipients -> Nat]
    BY <1>0, <1>8, <2>2 DEF SendAccepted, OtherTypes
  <2>4. OtherTypes' /\ row # NoRow
    BY <1>0, <1>8, <2>1, <2>3 DEF SendAccepted, OtherTypes, Due, Running
  <2> QED
    BY <1>0, <1>8, <2>1, <2>4, AcceptedEffect, TypesFromParts DEF Tried
<1>9. CASE SendFailed(c)
  <2>1. Due(c) /\ row' = row
    BY <1>9 DEF SendFailed
  <2>2. OtherTypes' /\ row # NoRow
    BY <1>0, <1>9, <2>1 DEF SendFailed, OtherTypes, Due, Running
  <2> QED
    BY <1>0, <1>9, <2>1, <2>2, FailedEffect, TypesFromParts DEF Tried
<1>10. CASE RecordResult(c)
  <2>1. task[c] \in Tasks
    BY TaskRecord
  <2>2. /\ Outcome(task[c].sent, task[c].failed) \in Statuses
        /\ task[c].sent \in SUBSET (1..MaxRecipients)
        /\ task[c].failed \in SUBSET (1..MaxRecipients)
    BY <2>1 DEF Outcome, Statuses, Settled, Tasks
  <2>3. row' \in Rows /\ row'.status # "none"
    BY <1>10, <2>2 DEF RecordResult, Rows, Statuses, Unsettled, Settled
  <2>4. OtherTypes' /\ row' # NoRow
    BY <1>0, <1>10, <2>3 DEF RecordResult, OtherTypes, NoRow
  <2> QED
    BY <1>10, <2>3, <2>4, RecordEffect, TypesFromParts DEF Moved
<1>11. CASE EmitResult(c)
  <2>1. OtherTypes' /\ row' = row /\ row # NoRow
    BY <1>0, <1>11 DEF EmitResult, OtherTypes, Running
  <2> QED
    BY <1>0, <1>11, <2>1, EmitEffect, TypesFromParts DEF Moved
<1> QED
  BY <1>1, <1>2, <1>3, <1>4, <1>5, <1>6, <1>7, <1>8, <1>9, <1>10, <1>11 DEF Dispatch

LEMMA FaultKeepsTypes ==
   ASSUME TypeInv, NEW c \in Callers,
          SendUnanswered(c) \/ RunRaises(c) \/ WorkerLost(c)
   PROVE  TypeInv'
<1> USE DEF incident, history, faults
<1>0. /\ OtherTypes /\ row \in Rows
      /\ task[c].pc \in Running \ {"create"} => row # NoRow
  BY DEF TypeInv, TypeOK, OtherTypes, RowIsRecord
<1>1. CASE SendUnanswered(c)
  <2>1. Due(c) /\ row' = row
    BY <1>1 DEF SendUnanswered
  <2>2. task[c].next \in 1..MaxRecipients
    BY <1>0, <2>1, TaskRecord, DeliveryAssumption DEF Due, Tasks, OtherTypes
  <2>3. mails' \in [1..MaxRecipients -> Nat]
    BY <1>0, <1>1, <2>2 DEF SendUnanswered, OtherTypes
  <2>4. errors' \in Nat /\ lost' + refused' + errors' =< MaxFaults
    BY <1>0, <1>1, DeliveryAssumption DEF SendUnanswered, MayFail, OtherTypes
  <2>5. OtherTypes' /\ row # NoRow
    BY <1>0, <1>1, <2>1, <2>3, <2>4 DEF SendUnanswered, OtherTypes, Due, Running
  <2> QED
    BY <1>0, <1>1, <2>1, <2>5, FailedEffect, TypesFromParts DEF Tried
<1>2. CASE RunRaises(c)
  <2>1. OtherTypes' /\ row' = row /\ Retry(c)
    BY <1>0, <1>2, DeliveryAssumption DEF RunRaises, MayFail, OtherTypes
  <2> QED
    BY <1>0, <2>1, RetryEffect, TypesFromParts DEF Forgotten, Running
<1>3. CASE WorkerLost(c)
  <2>1. OtherTypes' /\ row' = row
    BY <1>0, <1>3, DeliveryAssumption DEF WorkerLost, MayFail, OtherTypes
  <2> QED
    BY <1>0, <1>3, <2>1, LostEffect, TypesFromParts DEF Forgotten, Running
<1> QED
  BY <1>1, <1>2, <1>3

LEMMA SystemKeepsTypes ==
   ASSUME TypeInv, TimePasses \/ Sweep \/ WatchdogLost
   PROVE  TypeInv'
<1> USE DEF incident, history, faults
<1>0. OtherTypes /\ row \in Rows
  BY DEF TypeInv, TypeOK, OtherTypes, RowIsRecord
<1>1. CASE TimePasses
  BY <1>1 DEF TimePasses, TypeInv, TypeOK, RowIsRecord
<1>2. CASE Scan
  BY <1>2 DEF Scan, TypeInv, TypeOK, RowIsRecord
<1>3. CASE MarkOverdue
  <2>1. row' \in Rows /\ row' # NoRow
    BY <1>3, RowRecord DEF MarkOverdue, Statuses
  <2>2. OtherTypes' /\ task' = task
    BY <1>0, <1>3 DEF MarkOverdue, OtherTypes
  <2>3. row'.status \in Statuses \cup {"none"} /\ row'.sent \cup row'.failed \subseteq 1..MaxRecipients
    BY <2>1 DEF Rows
  <2> QED
    BY <2>1, <2>2, <2>3 DEF TypeInv, TypeOK, OtherTypes, RowIsRecord
<1>4. CASE EmitOverdue
  BY <1>4 DEF EmitOverdue, TypeInv, TypeOK, RowIsRecord
<1>5. CASE WatchdogLost
  BY <1>5, DeliveryAssumption DEF WatchdogLost, MayFail, TypeInv, TypeOK, RowIsRecord
<1> QED
  BY <1>1, <1>2, <1>3, <1>4, <1>5 DEF Sweep

LEMMA InitTypes == Init => TypeInv
<1> SUFFICES ASSUME Init PROVE TypeInv
  OBVIOUS
<1>1. task \in [Callers -> Tasks] /\ \A c \in Callers : task[c].pc = "none"
  BY UnpublishedRecord DEF Init, Unpublished
<1>2. row \in Rows
  BY DEF Init, Rows, NoRow
<1>3. row.status = "none" /\ row.sent \cup row.failed = {}
  BY DEF Init, NoRow
<1>4. OtherTypes
  <2>1. mails \in [1..MaxRecipients -> Nat]
    BY DEF Init
  <2>2. caller \in [Callers -> {"idle", "record", "check", "create", "enqueue", "over"}]
    BY DEF Init
  <2>3. lost + refused + errors =< MaxFaults
    BY DeliveryAssumption DEF Init
  <2> QED
    BY <2>1, <2>2, <2>3 DEF Init, OtherTypes
<1> QED
  BY <1>1, <1>2, <1>3, <1>4 DEF TypeInv, TypeOK, RowIsRecord, Tasks, Running, OtherTypes

LEMMA StepTypes == TypeInv /\ [Next]_vars => TypeInv'
<1> SUFFICES ASSUME TypeInv, [Next]_vars PROVE TypeInv'
  OBVIOUS
<1>1. CASE UNCHANGED vars
  BY <1>1 DEF vars, incident, history, faults, TypeInv, TypeOK, RowIsRecord
<1>2. ASSUME NEW c \in Callers,
             FlipStatus(c) \/ AlreadyFlipped(c) \/ Declare(c) \/ Dispatch(c) \/ Fault(c)
      PROVE  TypeInv'
  BY <1>2, CallerKeepsTypes, TaskKeepsTypes, FaultKeepsTypes DEF Declare, Fault
<1>3. CASE TimePasses \/ Sweep \/ WatchdogLost
  BY <1>3, SystemKeepsTypes
<1> QED
  BY <1>1, <1>2, <1>3 DEF Next
-----------------------------------------------------------------------------
(* The row is honest *)

MailsGrow == \A n \in 1..MaxRecipients : mails'[n] >= mails[n]

\* The parts about tasks, when one task moves and neither mails nor events
\* are taken back.
LEMMA TasksStayHonest ==
   ASSUME HonestInv, TypeInv', NEW c \in Callers, NEW t, Becomes(c, t), MailsGrow, log \subseteq log',
          \A n \in t.sent : mails'[n] > 0,
          t.pc \in {"create", "mark", "announce", "send"} =>
             t.sent \cup t.failed = 1..(t.next - 1),
          t.pc = "send" => "dispatched" \in log',
          \A o \in Callers : caller'[o] = "over" \/ (caller'[o] = caller[o] /\ o # c)
   PROVE  /\ TasksListTruly'
          /\ PublishedLast'
          /\ \A o \in Callers : task'[o].pc = "send" => "dispatched" \in log'
<1>1. /\ task'[c] = t
      /\ \A o \in Callers : o # c => task'[o] = task[o]
  BY Replaced DEF HonestInv
<1>2. \A o \in Callers : task[o].sent \in SUBSET (1..MaxRecipients)
  BY TaskRecord DEF HonestInv, Tasks
<1>0. mails \in [1..MaxRecipients -> Nat] /\ mails' \in [1..MaxRecipients -> Nat]
  BY DEF HonestInv, TypeInv, TypeOK
<1>3. \A n \in 1..MaxRecipients : mails[n] > 0 => mails'[n] > 0
  BY <1>0 DEF MailsGrow
<1>4. TasksListTruly'
  BY <1>1, <1>2, <1>3 DEF HonestInv, TasksListTruly
<1>5. PublishedLast'
  BY <1>1 DEF HonestInv, PublishedLast
<1>6. \A o \in Callers : task'[o].pc = "send" => "dispatched" \in log'
  BY <1>1 DEF HonestInv, MailsAreAnnounced
<1> QED
  BY <1>4, <1>5, <1>6

\* Mailing one recipient.
LEMMA MailSent ==
   ASSUME TypeInv, NEW c \in Callers, SendAccepted(c) \/ SendUnanswered(c)
   PROVE  /\ task[c].next \in 1..MaxRecipients /\ task[c].pc = "send"
          /\ task[c].next =< recipients
          /\ mails'[task[c].next] = mails[task[c].next] + 1
          /\ \A n \in 1..MaxRecipients : n # task[c].next => mails'[n] = mails[n]
          /\ MailsGrow
<1> DEFINE n == task[c].next
<1>1. Due(c) /\ mails' = [mails EXCEPT ![n] = mails[n] + 1]
  BY DEF SendAccepted, SendUnanswered
<1>2. n \in 1..MaxRecipients /\ recipients \in 0..MaxRecipients /\ mails \in [1..MaxRecipients -> Nat]
  BY <1>1, TaskRecord, DeliveryAssumption DEF Due, Tasks, TypeInv, TypeOK
<1> HIDE DEF n
<1>3. mails'[n] = mails[n] + 1 /\ \A m \in 1..MaxRecipients : m # n => mails'[m] = mails[m]
  BY <1>1, <1>2
<1>4. MailsGrow
  BY <1>2, <1>3 DEF MailsGrow
<1> QED
  BY <1>1, <1>2, <1>3, <1>4 DEF Due, n

\* Only the dispatch task mails.
LEMMA MailsKept ==
   ASSUME TypeInv, mails' = mails
   PROVE  MailsGrow
BY DEF TypeInv, TypeOK, MailsGrow

LEMMA CallerKeepsHonest ==
   ASSUME HonestInv, NEW c \in Callers,
          \/ FlipStatus(c) \/ AlreadyFlipped(c) \/ RecordFlip(c) \/ CheckRow(c)
          \/ CheckRowFails(c) \/ PreCreateRow(c) \/ PreCreateConflict(c)
          \/ EnqueueRefused(c) \/ CallerLost(c)
   PROVE  HonestInv'
<1> USE DEF incident, history, faults
<1>1. TypeInv'
  BY CallerKeepsTypes DEF HonestInv
<1>2. task' = task /\ mails' = mails /\ log \subseteq log' /\ recipients' = recipients
  BY DEF FlipStatus, AlreadyFlipped, RecordFlip, CheckRow, CheckRowFails, PreCreateRow,
         PreCreateConflict, EnqueueRefused, CallerLost
<1>3. \A o \in Callers : caller[o] = "over" => caller'[o] = "over"
  BY DEF FlipStatus, AlreadyFlipped, RecordFlip, CheckRow, CheckRowFails, PreCreateRow,
         PreCreateConflict, EnqueueRefused, CallerLost, HonestInv, TypeInv, TypeOK
<1>4. row' = row \/ row' = [NoRow EXCEPT !.status = "queued"]
  BY DEF FlipStatus, AlreadyFlipped, RecordFlip, CheckRow, CheckRowFails, PreCreateRow,
         PreCreateConflict, EnqueueRefused, CallerLost, NewRow
<1>5. RowClaimsAreTrue'
  BY <1>2, <1>4 DEF HonestInv, RowClaimsAreTrue, NoRow, Recipients
<1> QED
  BY <1>1, <1>2, <1>3, <1>5
     DEF HonestInv, PublishedLast, MailsAreAnnounced, TasksListTruly

\* A task that stops or starts anew, or moves on with its lists: the row is
\* as it was, or only its status is another.
LEMMA QuietTaskStep ==
   ASSUME HonestInv, NEW c \in Callers, TypeInv', mails' = mails, log \subseteq log',
          recipients' = recipients, NEW t, Becomes(c, t),
          \/ t.sent = {} /\ t.failed = {} /\ t.next = 1 /\ t.pc # "send"
          \/ Forgotten(t)
          \/ t.sent = task[c].sent /\ t.failed = task[c].failed /\ t.next = task[c].next
             /\ (t.pc \in {"create", "mark", "announce", "send"} =>
                    task[c].pc \in {"create", "mark", "announce", "send"}),
          t.pc = "send" => "dispatched" \in log',
          \A o \in Callers : caller'[o] = "over" \/ (caller'[o] = caller[o] /\ o # c),
          RowClaimsAreTrue'
   PROVE  HonestInv'
<1>1. MailsGrow
  BY MailsKept DEF HonestInv
<1>2. /\ \A n \in task[c].sent : mails[n] > 0
      /\ task[c].pc \in {"create", "mark", "announce", "send"} =>
            task[c].sent \cup task[c].failed = 1..(task[c].next - 1)
  BY DEF HonestInv, TasksListTruly
<1>3. \A n \in t.sent : mails'[n] > 0
  BY <1>2 DEF Forgotten
<1>4. t.pc \in {"create", "mark", "announce", "send"} => t.sent \cup t.failed = 1..(t.next - 1)
  BY <1>2 DEF Forgotten
<1>5. /\ TasksListTruly' /\ PublishedLast'
      /\ \A o \in Callers : task'[o].pc = "send" => "dispatched" \in log'
  BY <1>1, <1>3, <1>4, TasksStayHonest
<1> QED
  BY <1>5 DEF HonestInv, MailsAreAnnounced

\* Whoever has a task that was published is over.
LEMMA PublisherIsOver ==
   ASSUME HonestInv, NEW c \in Callers, task[c].pc # "none", caller' = caller
   PROVE  \A o \in Callers : caller'[o] = "over" \/ (caller'[o] = caller[o] /\ o # c)
BY DEF HonestInv, PublishedLast

\* A row that keeps its lists and is not newly settled claims no more than before.
LEMMA RowClaimsKept ==
   ASSUME HonestInv, mails' = mails, recipients' = recipients,
          \/ row' = row
          \/ \E s \in Unsettled \cup {"overdue"} :
                row' = [row EXCEPT !.status = s] \/ row' = [NoRow EXCEPT !.status = s]
   PROVE  RowClaimsAreTrue'
BY DEF HonestInv, RowClaimsAreTrue, NoRow, Recipients, TypeInv, RowIsRecord, Rows, Unsettled

LEMMA SendingKeepsHonest ==
   ASSUME HonestInv, NEW c \in Callers, SendAccepted(c) \/ SendFailed(c) \/ SendUnanswered(c)
   PROVE  HonestInv'
<1> USE DEF incident, history, faults
<1> DEFINE n == task[c].next
<1>0. TypeInv /\ TypeInv'
  BY TaskKeepsTypes, FaultKeepsTypes DEF HonestInv, Dispatch
<1>1. /\ log' = log /\ recipients' = recipients /\ row' = row /\ caller' = caller
      /\ task[c].pc = "send"
  BY DEF SendAccepted, SendFailed, SendUnanswered, Due
<1>2. /\ \A m \in task[c].sent : mails[m] > 0
      /\ task[c].sent \cup task[c].failed = 1..(n - 1)
      /\ "dispatched" \in log
  BY <1>1 DEF HonestInv, TasksListTruly, MailsAreAnnounced
<1>3. MailsGrow
  BY <1>0, MailSent, MailsKept DEF SendFailed
<1>4. mails \in [1..MaxRecipients -> Nat] /\ mails' \in [1..MaxRecipients -> Nat]
  BY <1>0 DEF TypeInv, TypeOK
<1>5. task[c].sent \in SUBSET (1..MaxRecipients) /\ n \in 1..(MaxRecipients + 1)
  BY <1>0, TaskRecord DEF Tasks
<1>6. \A m \in task[c].sent : mails'[m] > 0
  BY <1>2, <1>3, <1>4, <1>5 DEF MailsGrow
<1>7. PICK t : Tried(c, t) /\ \A m \in t.sent : mails'[m] > 0
  <2>1. CASE SendAccepted(c)
    <3>1. PICK t : Tried(c, t) /\ t.sent = task[c].sent \cup {n}
      BY <1>0, <2>1, AcceptedEffect
    <3>2. mails'[n] = mails[n] + 1 /\ n \in 1..MaxRecipients
      BY <1>0, <2>1, MailSent
    <3>3. mails'[n] > 0
      BY <3>2, <1>4
    <3> QED
      BY <3>1, <3>3, <1>6
  <2>2. CASE SendFailed(c) \/ SendUnanswered(c)
    BY <1>0, <2>2, <1>6, FailedEffect
  <2> QED
    BY <2>1, <2>2
<1>8. t.sent \cup t.failed = 1..(t.next - 1)
  <2>1. (1..(n - 1)) \cup {n} = 1..n
    BY <1>5, DeliveryAssumption
  <2>2. t.next - 1 = n
    BY <1>5, <1>7, DeliveryAssumption DEF Tried
  <2> QED
    BY <1>2, <1>7, <2>1, <2>2 DEF Tried
<1>9. /\ TasksListTruly' /\ PublishedLast'
      /\ \A o \in Callers : task'[o].pc = "send" => "dispatched" \in log'
  <2>1. \A o \in Callers : caller'[o] = "over" \/ (caller'[o] = caller[o] /\ o # c)
    BY <1>1, PublisherIsOver
  <2> QED
    BY <1>0, <1>1, <1>2, <1>3, <1>7, <1>8, <2>1, TasksStayHonest DEF Tried
<1>10. RowClaimsAreTrue'
  <2>1. \A m \in 1..MaxRecipients : mails[m] > 0 => mails'[m] > 0
    BY <1>3, <1>4 DEF MailsGrow
  <2>2. row.sent \in SUBSET (1..MaxRecipients) /\ Recipients \subseteq 1..MaxRecipients
    BY <1>0, DeliveryAssumption DEF TypeInv, TypeOK, RowIsRecord, Rows, Recipients
  <2> QED
    BY <1>1, <2>1, <2>2 DEF HonestInv, RowClaimsAreTrue, Recipients
<1> QED
  BY <1>0, <1>1, <1>2, <1>9, <1>10 DEF HonestInv, MailsAreAnnounced

LEMMA TaskKeepsHonest ==
   ASSUME HonestInv, NEW c \in Callers, Enqueue(c) \/ Dispatch(c)
   PROVE  HonestInv'
<1> USE DEF incident, history, faults
<1>0. TypeInv /\ TypeInv'
  BY TaskKeepsTypes DEF HonestInv
<1>1. CASE Enqueue(c)
  <2>1. /\ mails' = mails /\ log' = log /\ recipients' = recipients /\ row' = row
        /\ \A o \in Callers : caller'[o] = "over" \/ (caller'[o] = caller[o] /\ o # c)
    BY <1>1, <1>0 DEF Enqueue, TypeInv, TypeOK
  <2>2. PICK t : Moved(c, t, "queued")
    BY <1>0, <1>1, EnqueueEffect
  <2> QED
    BY <1>0, <2>1, <2>2, RowClaimsKept, QuietTaskStep DEF Moved
<1>2. CASE SkipSettled(c) \/ Acknowledge(c) \/ CreateConflict(c)
  <2>1. /\ mails' = mails /\ log' = log /\ recipients' = recipients /\ row' = row
        /\ task[c].pc # "none" /\ caller' = caller
    BY <1>2 DEF SkipSettled, Acknowledge, CreateConflict
  <2>2. PICK t : Becomes(c, t) /\ Forgotten(t)
    BY <1>0, <1>2, DoneEffect, RetryEffect DEF SkipSettled, Acknowledge, CreateConflict
  <2> QED
    BY <1>0, <2>1, <2>2, RowClaimsKept, PublisherIsOver, QuietTaskStep DEF Forgotten
<1>3. CASE Begin(c)
  <2>1. /\ mails' = mails /\ log' = log /\ recipients' = recipients /\ row' = row
        /\ task[c].pc # "none" /\ caller' = caller
    BY <1>3 DEF Begin
  <2>2. PICK t : /\ Becomes(c, t)
                 /\ t.pc = IF row = NoRow THEN "create" ELSE "mark"
                 /\ t.next = 1 /\ t.sent = {} /\ t.failed = {}
    BY <1>0, <1>3, BeginEffect
  <2> QED
    BY <1>0, <2>1, <2>2, RowClaimsKept, PublisherIsOver, QuietTaskStep
<1>4. CASE CreateRow(c)
  <2>1. /\ mails' = mails /\ log' = log /\ recipients' = recipients
        /\ row' = [NoRow EXCEPT !.status = "queued"]
        /\ task[c].pc = "create" /\ caller' = caller
    BY <1>4 DEF CreateRow, NewRow
  <2>2. PICK t : Moved(c, t, "mark")
    BY <1>0, <1>4, CreateRowEffect
  <2>3. RowClaimsAreTrue'
    BY <2>1, RowClaimsKept DEF Unsettled
  <2> QED
    BY <1>0, <2>1, <2>2, <2>3, PublisherIsOver, QuietTaskStep DEF Moved
<1>5. CASE MarkDispatched(c)
  <2>1. /\ mails' = mails /\ log' = log /\ recipients' = recipients
        /\ task[c].pc = "mark" /\ caller' = caller
    BY <1>5 DEF MarkDispatched
  <2>2. row' = row \/ row' = [row EXCEPT !.status = "dispatched"]
    BY <1>0, <1>5 DEF MarkDispatched, TypeInv, RowIsRecord, Rows
  <2>3. PICK t : Moved(c, t, "announce")
    BY <1>0, <1>5, MarkEffect
  <2>4. RowClaimsAreTrue'
    BY <2>1, <2>2, RowClaimsKept DEF Unsettled
  <2> QED
    BY <1>0, <2>1, <2>3, <2>4, PublisherIsOver, QuietTaskStep DEF Moved
<1>6. CASE Announce(c)
  <2>1. /\ mails' = mails /\ log' = log \cup {"dispatched"} /\ recipients' = recipients
        /\ row' = row /\ task[c].pc = "announce" /\ caller' = caller
    BY <1>6 DEF Announce
  <2>2. PICK t : Moved(c, t, "send")
    BY <1>0, <1>6, AnnounceEffect
  <2> QED
    BY <1>0, <2>1, <2>2, RowClaimsKept, PublisherIsOver, QuietTaskStep DEF Moved
<1>7. CASE EmitResult(c)
  <2>1. /\ mails' = mails /\ log \subseteq log' /\ recipients' = recipients
        /\ row' = row /\ task[c].pc = "event" /\ caller' = caller
    BY <1>7 DEF EmitResult
  <2>2. PICK t : Moved(c, t, "ack")
    BY <1>0, <1>7, EmitEffect
  <2> QED
    BY <1>0, <2>1, <2>2, RowClaimsKept, PublisherIsOver, QuietTaskStep DEF Moved
<1>8. CASE RecordResult(c)
  <2> DEFINE s == task[c].sent
             f == task[c].failed
  <2>1. /\ mails' = mails /\ log' = log /\ recipients' = recipients
        /\ row' = [status |-> Outcome(s, f), sent |-> s, failed |-> f]
        /\ task[c].pc = "send" /\ caller' = caller /\ task[c].next > recipients
    BY <1>8 DEF RecordResult
  <2>2. PICK t : Moved(c, t, "event")
    BY <1>0, <1>8, RecordEffect
  <2>3. (\A n \in s : mails[n] > 0) /\ s \cup f = 1..(task[c].next - 1)
    BY <2>1 DEF HonestInv, TasksListTruly
  <2>4. recipients \in Nat /\ task[c].next \in Nat
    <3>1. task[c] \in Tasks
      BY <1>0, TaskRecord
    <3>2. recipients \in 0..MaxRecipients
      BY <1>0 DEF TypeInv, TypeOK
    <3> QED
      BY <3>1, <3>2, DeliveryAssumption DEF Tasks
  <2>5. f = {} => \A n \in Recipients : n \in s
    BY <2>1, <2>3, <2>4 DEF Recipients
  <2> HIDE DEF s, f
  <2>6. RowClaimsAreTrue'
    BY <2>1, <2>3, <2>5 DEF RowClaimsAreTrue, Outcome, Recipients
  <2> QED
    BY <1>0, <2>1, <2>2, <2>6, PublisherIsOver, QuietTaskStep DEF Moved
<1>9. CASE SendAccepted(c) \/ SendFailed(c)
  BY <1>9, SendingKeepsHonest
<1> QED
  BY <1>1, <1>2, <1>3, <1>4, <1>5, <1>6, <1>7, <1>8, <1>9 DEF Dispatch

LEMMA FaultKeepsHonest ==
   ASSUME HonestInv, NEW c \in Callers, SendUnanswered(c) \/ RunRaises(c) \/ WorkerLost(c)
   PROVE  HonestInv'
<1> USE DEF incident, history, faults
<1>0. TypeInv /\ TypeInv'
  BY FaultKeepsTypes DEF HonestInv
<1>1. CASE SendUnanswered(c)
  BY <1>1, SendingKeepsHonest
<1>2. CASE RunRaises(c) \/ WorkerLost(c)
  <2>1. /\ mails' = mails /\ log' = log /\ recipients' = recipients /\ row' = row
        /\ task[c].pc # "none" /\ caller' = caller
    BY <1>2 DEF RunRaises, WorkerLost, Running
  <2>2. PICK t : Becomes(c, t) /\ Forgotten(t)
    BY <1>0, <1>2, LostEffect, RetryEffect DEF RunRaises
  <2> QED
    BY <1>0, <2>1, <2>2, RowClaimsKept, PublisherIsOver, QuietTaskStep DEF Forgotten
<1> QED
  BY <1>1, <1>2

LEMMA SystemKeepsHonest ==
   ASSUME HonestInv, TimePasses \/ Sweep \/ WatchdogLost
   PROVE  HonestInv'
<1> USE DEF incident, history, faults
<1>1. TypeInv'
  BY SystemKeepsTypes DEF HonestInv
<1>2. /\ task' = task /\ mails' = mails /\ log \subseteq log' /\ recipients' = recipients
      /\ caller' = caller
  BY DEF TimePasses, Sweep, Scan, MarkOverdue, EmitOverdue, WatchdogLost
<1>3. row' = row \/ row' = [row EXCEPT !.status = "overdue"]
  BY DEF TimePasses, Sweep, Scan, MarkOverdue, EmitOverdue, WatchdogLost
<1>4. RowClaimsAreTrue'
  BY <1>2, <1>3, RowClaimsKept
<1> QED
  BY <1>1, <1>2, <1>4 DEF HonestInv, PublishedLast, MailsAreAnnounced, TasksListTruly

LEMMA InitHonest == Init => HonestInv
<1> SUFFICES ASSUME Init PROVE HonestInv
  OBVIOUS
<1>1. \A c \in Callers : /\ task[c].pc = "none" /\ task[c].next = 1
                         /\ task[c].sent = {} /\ task[c].failed = {}
  BY DEF Init, Unpublished
<1>2. row.sent = {} /\ row.status = "none" /\ \A n \in 1..MaxRecipients : mails[n] = 0
  BY DEF Init, NoRow
<1> QED
  BY <1>1, <1>2, InitTypes
     DEF HonestInv, PublishedLast, MailsAreAnnounced, TasksListTruly, RowClaimsAreTrue

LEMMA StepHonest == HonestInv /\ [Next]_vars => HonestInv'
<1> SUFFICES ASSUME HonestInv, [Next]_vars PROVE HonestInv'
  OBVIOUS
<1>1. CASE UNCHANGED vars
  <2>1. TypeInv'
    BY <1>1, StepTypes DEF HonestInv
  <2>2. /\ task' = task /\ mails' = mails /\ log' = log /\ recipients' = recipients
        /\ caller' = caller /\ row' = row
    BY <1>1 DEF vars, incident, history, faults
  <2> QED
    BY <2>1, <2>2
       DEF HonestInv, PublishedLast, MailsAreAnnounced, TasksListTruly, RowClaimsAreTrue, Recipients
<1>2. ASSUME NEW c \in Callers,
             FlipStatus(c) \/ AlreadyFlipped(c) \/ Declare(c) \/ Dispatch(c) \/ Fault(c)
      PROVE  HonestInv'
  BY <1>2, CallerKeepsHonest, TaskKeepsHonest, FaultKeepsHonest DEF Declare, Fault
<1>3. CASE TimePasses \/ Sweep \/ WatchdogLost
  BY <1>3, SystemKeepsHonest
<1> QED
  BY <1>1, <1>2, <1>3 DEF Next

\* No mail without its event and no claim in the row without its mails: the
\* invariant of the delivery row, for any number of callers, tasks and faults.
THEOREM RowStaysHonest == Spec => []RowIsHonest
<1>1. HonestInv => RowIsHonest
  <2> SUFFICES ASSUME HonestInv PROVE RowIsHonest
    OBVIOUS
  <2>1. Recipients \subseteq 1..MaxRecipients
    BY DeliveryAssumption DEF HonestInv, TypeInv, TypeOK, Recipients
  <2> QED
    BY <2>1 DEF HonestInv, TypeInv, MailsAreAnnounced, RowIsHonest, NothingSentUnannounced
<1> QED
  BY <1>1, InitHonest, StepHonest, PTL DEF Spec
-----------------------------------------------------------------------------
(* Nobody is mailed twice *)

\* A step of one task that mails nobody.
LEMMA QuietStepCalm ==
   ASSUME HonestInv, NobodyMailedTwice, NEW c \in Callers, NEW t, Becomes(c, t), mails' = mails,
          \/ t.pc \notin Running
          \/ \A o \in Callers \ {c} : task[o].pc \notin Running,
          t.pc \in {"create", "mark", "announce", "send"} => NobodyMailed,
          row.status \in Settled => row'.status \in Settled \/ NobodyMailed,
          task[c].pc = "send" => row'.status \in Settled \/ NobodyMailed
   PROVE  NobodyMailedTwice'
<1>1. /\ task'[c] = t
      /\ \A o \in Callers : o # c => task'[o] = task[o]
  BY Replaced DEF HonestInv
<1>2. NobodyMailed' <=> NobodyMailed
  BY DEF NobodyMailed
<1>3. mails \in [1..MaxRecipients -> Nat]
  BY DEF HonestInv, TypeInv, TypeOK
<1>4. OneRunAtATime'
  BY <1>1 DEF NobodyMailedTwice, OneRunAtATime
<1>5. RunsBeginFresh'
  BY <1>1, <1>2 DEF NobodyMailedTwice, RunsBeginFresh
<1>6. RunMailsTheRest'
  <2>1. \A n \in 1..MaxRecipients : NobodyMailed => ~(mails[n] > 0)
    BY <1>3 DEF NobodyMailed
  <2> QED
    BY <1>1, <2>1 DEF NobodyMailedTwice, RunMailsTheRest
<1>7. MailsAreSettledOrSending'
  BY <1>1, <1>2 DEF NobodyMailedTwice, MailsAreSettledOrSending
<1>8. MailedOnce'
  BY DEF NobodyMailedTwice, MailedOnce
<1> QED
  BY <1>4, <1>5, <1>6, <1>7, <1>8 DEF NobodyMailedTwice

\* While one task runs no other does.
LEMMA Alone ==
   ASSUME NobodyMailedTwice, NEW c \in Callers, task[c].pc \in Running
   PROVE  \A o \in Callers \ {c} : task[o].pc \notin Running
BY DEF NobodyMailedTwice, OneRunAtATime

LEMMA SendingKeepsCalm ==
   ASSUME HonestInv, NobodyMailedTwice, NEW c \in Callers, SendFailed(c) \/ SendAccepted(c)
   PROVE  NobodyMailedTwice'
<1> DEFINE n == task[c].next
<1>0. TypeInv
  BY DEF HonestInv
<1>1. task[c].pc = "send" /\ row' = row
  BY DEF SendFailed, SendAccepted, Due, incident
<1>2. mails \in [1..MaxRecipients -> Nat] /\ n \in 1..(MaxRecipients + 1)
  BY <1>0, TaskRecord DEF TypeInv, TypeOK, Tasks
<1>3. \A m \in 1..MaxRecipients : mails[m] > 0 => m \in task[c].sent
  BY <1>1 DEF NobodyMailedTwice, RunMailsTheRest
<1>4. n \notin task[c].sent
  BY <1>1, <1>2, DeliveryAssumption DEF HonestInv, TasksListTruly
<1>5. PICK t : /\ Tried(c, t)
               /\ \A m \in 1..MaxRecipients : mails'[m] > 0 => m \in t.sent
               /\ \A m \in 1..MaxRecipients : mails'[m] =< 1
  <2>1. \A m \in 1..MaxRecipients : mails[m] =< 1
    BY DEF NobodyMailedTwice, MailedOnce
  <2>2. CASE SendFailed(c)
    <3>1. PICK t : Tried(c, t) /\ t.sent = task[c].sent
      BY <1>0, <2>2, FailedEffect
    <3>2. mails' = mails
      BY <2>2 DEF SendFailed
    <3> QED
      BY <3>1, <3>2, <2>1, <1>3
  <2>3. CASE SendAccepted(c)
    <3>1. PICK t : Tried(c, t) /\ t.sent = task[c].sent \cup {n}
      BY <1>0, <2>3, AcceptedEffect
    <3>2. /\ n \in 1..MaxRecipients /\ mails'[n] = mails[n] + 1
          /\ \A m \in 1..MaxRecipients : m # n => mails'[m] = mails[m]
      BY <1>0, <2>3, MailSent
    <3>3. mails[n] = 0
      BY <1>2, <1>3, <1>4, <3>2
    <3>4. \A m \in 1..MaxRecipients : mails'[m] > 0 => m \in t.sent
      BY <1>3, <3>1, <3>2
    <3>5. \A m \in 1..MaxRecipients : mails'[m] =< 1
      BY <2>1, <3>2, <3>3
    <3> QED
      BY <3>1, <3>4, <3>5
  <2> QED
    BY <2>2, <2>3
<1>6. /\ task'[c] = t /\ t.pc = "send"
      /\ \A o \in Callers : o # c => task'[o] = task[o]
  BY <1>0, <1>5, Replaced DEF Tried
<1>7. \A o \in Callers \ {c} : task[o].pc \notin Running
  BY <1>1, Alone DEF Running
<1>8. OneRunAtATime'
  BY <1>6, <1>7 DEF OneRunAtATime
<1>9. RunsBeginFresh'
  BY <1>6, <1>7 DEF RunsBeginFresh, Running
<1>10. RunMailsTheRest'
  BY <1>5, <1>6, <1>7 DEF RunMailsTheRest, Running
<1>11. MailsAreSettledOrSending'
  BY <1>6 DEF MailsAreSettledOrSending
<1>12. MailedOnce'
  BY <1>5 DEF MailedOnce
<1> QED
  BY <1>8, <1>9, <1>10, <1>11, <1>12 DEF NobodyMailedTwice

LEMMA TaskKeepsCalm ==
   ASSUME HonestInv, NobodyMailedTwice, Calm', NEW c \in Callers,
          Enqueue(c) \/ Dispatch(c)
   PROVE  NobodyMailedTwice'
<1> USE DEF incident, history, faults
<1>0. TypeInv
  BY DEF HonestInv
<1>1. CASE Enqueue(c)
  <2>1. mails' = mails /\ row' = row
    BY <1>1 DEF Enqueue
  <2>2. task[c].pc = "none"
    BY <1>1 DEF Enqueue, HonestInv, PublishedLast
  <2>3. PICK t : Moved(c, t, "queued")
    BY <1>0, <1>1, EnqueueEffect
  <2> QED
    BY <2>1, <2>2, <2>3, QuietStepCalm DEF Moved, Running
<1>2. CASE SkipSettled(c) \/ Acknowledge(c) \/ CreateConflict(c)
  <2>1. mails' = mails /\ row' = row /\ task[c].pc # "send"
    BY <1>2 DEF SkipSettled, Acknowledge, CreateConflict
  <2>2. PICK t : Becomes(c, t) /\ Forgotten(t)
    BY <1>0, <1>2, DoneEffect, RetryEffect DEF SkipSettled, Acknowledge, CreateConflict
  <2> QED
    BY <2>1, <2>2, QuietStepCalm DEF Forgotten, Running
<1>3. CASE Begin(c)
  <2>1. /\ mails' = mails /\ row' = row /\ row.status \notin Settled
        /\ task[c].pc = "queued" /\ Overlap(c)
    BY <1>3 DEF Begin
  <2>2. \A o \in Callers \ {c} : task[o].pc \notin Running
    BY <2>1 DEF Overlap, Calm
  <2>3. NobodyMailed
    BY <2>1, <2>2 DEF NobodyMailedTwice, MailsAreSettledOrSending, Running
  <2>4. PICK t : Becomes(c, t)
    BY <1>0, <1>3, BeginEffect
  <2> QED
    BY <2>1, <2>2, <2>3, <2>4, QuietStepCalm
<1>4. CASE CreateRow(c)
  <2>1. mails' = mails /\ task[c].pc = "create"
    BY <1>4 DEF CreateRow
  <2>2. NobodyMailed
    BY <2>1 DEF NobodyMailedTwice, RunsBeginFresh
  <2>3. PICK t : Moved(c, t, "mark")
    BY <1>0, <1>4, CreateRowEffect
  <2> QED
    BY <2>1, <2>2, <2>3, Alone, QuietStepCalm DEF Moved, Running
<1>5. CASE MarkDispatched(c)
  <2>1. mails' = mails /\ task[c].pc = "mark"
    BY <1>5 DEF MarkDispatched
  <2>2. NobodyMailed
    BY <2>1 DEF NobodyMailedTwice, RunsBeginFresh
  <2>3. PICK t : Moved(c, t, "announce")
    BY <1>0, <1>5, MarkEffect
  <2> QED
    BY <2>1, <2>2, <2>3, Alone, QuietStepCalm DEF Moved, Running
<1>6. CASE Announce(c)
  <2>1. mails' = mails /\ row' = row /\ task[c].pc = "announce"
    BY <1>6 DEF Announce
  <2>2. NobodyMailed
    BY <2>1 DEF NobodyMailedTwice, RunsBeginFresh
  <2>3. PICK t : Moved(c, t, "send")
    BY <1>0, <1>6, AnnounceEffect
  <2> QED
    BY <2>1, <2>2, <2>3, Alone, QuietStepCalm DEF Moved, Running
<1>7. CASE EmitResult(c)
  <2>1. mails' = mails /\ row' = row /\ task[c].pc = "event"
    BY <1>7 DEF EmitResult
  <2>2. PICK t : Moved(c, t, "ack")
    BY <1>0, <1>7, EmitEffect
  <2> QED
    BY <2>1, <2>2, Alone, QuietStepCalm DEF Moved, Running
<1>8. CASE RecordResult(c)
  <2> DEFINE s == task[c].sent
             f == task[c].failed
  <2>1. /\ mails' = mails /\ row'.status = Outcome(s, f) /\ task[c].pc = "send"
    BY <1>8 DEF RecordResult
  <2>2. \A n \in 1..MaxRecipients : mails[n] > 0 => n \in s
    BY <2>1 DEF NobodyMailedTwice, RunMailsTheRest
  <2>3. mails \in [1..MaxRecipients -> Nat]
    BY <1>0 DEF TypeInv, TypeOK
  <2> HIDE DEF s, f
  <2>4. row'.status \in Settled \/ NobodyMailed
    BY <2>1, <2>2, <2>3 DEF Outcome, Settled, NobodyMailed
  <2>5. PICK t : Moved(c, t, "event")
    BY <1>0, <1>8, RecordEffect
  <2> QED
    BY <2>1, <2>4, <2>5, Alone, QuietStepCalm DEF Moved, Running
<1>9. CASE SendFailed(c) \/ SendAccepted(c)
  BY <1>9, SendingKeepsCalm
<1> QED
  BY <1>1, <1>2, <1>3, <1>4, <1>5, <1>6, <1>7, <1>8, <1>9 DEF Dispatch

\* Steps of the others: no task moves and no mail leaves.
LEMMA OthersKeepCalm ==
   ASSUME HonestInv, NobodyMailedTwice, task' = task, mails' = mails,
          row.status \in Settled => row'.status \in Settled
   PROVE  NobodyMailedTwice'
BY DEF NobodyMailedTwice, OneRunAtATime, RunsBeginFresh, RunMailsTheRest,
       MailsAreSettledOrSending, MailedOnce, NobodyMailed

LEMMA CallerKeepsCalm ==
   ASSUME HonestInv, NobodyMailedTwice, NEW c \in Callers,
          \/ FlipStatus(c) \/ AlreadyFlipped(c) \/ RecordFlip(c) \/ CheckRow(c)
          \/ PreCreateRow(c) \/ PreCreateConflict(c) \/ EnqueueRefused(c)
   PROVE  NobodyMailedTwice'
<1> USE DEF incident, history, faults
<1>1. task' = task /\ mails' = mails
  BY DEF FlipStatus, AlreadyFlipped, RecordFlip, CheckRow, PreCreateRow,
         PreCreateConflict, EnqueueRefused
<1>2. row' = row \/ row = NoRow
  BY DEF FlipStatus, AlreadyFlipped, RecordFlip, CheckRow, PreCreateRow,
         PreCreateConflict, EnqueueRefused
<1>3. NoRow.status \notin Settled
  BY DEF NoRow, Settled
<1> QED
  BY <1>1, <1>2, <1>3, OthersKeepCalm

LEMMA SystemKeepsCalm ==
   ASSUME HonestInv, NobodyMailedTwice, Calm', TimePasses \/ Sweep
   PROVE  NobodyMailedTwice'
<1> USE DEF incident, history, faults
<1>1. task' = task /\ mails' = mails
  BY DEF TimePasses, Sweep, Scan, MarkOverdue, EmitOverdue
<1>2. row.status \in Settled => row' = row
  BY DEF TimePasses, Sweep, Scan, MarkOverdue, EmitOverdue, Calm
<1> QED
  BY <1>1, <1>2, OthersKeepCalm

\* What has gone wrong stays so.
LEMMA CalmBefore ==
   ASSUME TypeInv, Next, Calm'
   PROVE  /\ Calm
          /\ \A c \in Callers :
                ~(CheckRowFails(c) \/ CallerLost(c) \/ SendUnanswered(c)
                  \/ RunRaises(c) \/ WorkerLost(c))
          /\ ~WatchdogLost
<1> USE DEF incident, history, faults
<1>1. lost \in Nat /\ errors \in Nat
  BY DEF TypeInv, TypeOK
<1>2. lost' + errors' = 0 /\ ~overlapped' /\ ~overtaken'
  BY DEF Calm
<1>3. ASSUME NEW c \in Callers,
             FlipStatus(c) \/ AlreadyFlipped(c) \/ Declare(c) \/ EnqueueRefused(c)
      PROVE  Calm
  <2>1. UNCHANGED <<overlapped, overtaken, lost, errors>>
    BY <1>3 DEF Declare, FlipStatus, AlreadyFlipped, RecordFlip, CheckRow, PreCreateRow,
                PreCreateConflict, Enqueue, EnqueueRefused
  <2> QED
    BY <2>1, <1>2 DEF Calm
<1>4. ASSUME NEW c \in Callers, Dispatch(c)
      PROVE  Calm
  <2>1. UNCHANGED <<overtaken, lost, errors>>
    BY <1>4 DEF Dispatch, SkipSettled, Begin, CreateRow, CreateConflict, MarkDispatched,
                Announce, SendAccepted, SendFailed, RecordResult, EmitResult, Acknowledge
  <2>2. overlapped' = overlapped \/ Overlap(c)
    BY <1>4 DEF Dispatch, SkipSettled, Begin, CreateRow, CreateConflict, MarkDispatched,
                Announce, SendAccepted, SendFailed, RecordResult, EmitResult, Acknowledge
  <2>3. ~overlapped
    BY <2>2, <1>2 DEF Overlap
  <2> QED
    BY <2>1, <2>3, <1>2 DEF Calm
<1>5. ASSUME TimePasses \/ Sweep
      PROVE  Calm
  <2>1. UNCHANGED <<overlapped, lost, errors>>
    BY <1>5 DEF TimePasses, Sweep, Scan, MarkOverdue, EmitOverdue
  <2>2. ~overtaken
    BY <1>5, <1>2 DEF TimePasses, Sweep, Scan, MarkOverdue, EmitOverdue
  <2> QED
    BY <2>1, <2>2, <1>2 DEF Calm
<1>6. ASSUME NEW c \in Callers
      PROVE  ~(CheckRowFails(c) \/ CallerLost(c) \/ SendUnanswered(c)
               \/ RunRaises(c) \/ WorkerLost(c))
  <2> SUFFICES ASSUME CheckRowFails(c) \/ CallerLost(c) \/ SendUnanswered(c)
                      \/ RunRaises(c) \/ WorkerLost(c)
               PROVE  FALSE
    OBVIOUS
  <2>1. \/ errors' = errors + 1 /\ lost' = lost
        \/ lost' = lost + 1 /\ errors' = errors
    BY DEF CheckRowFails, CallerLost, SendUnanswered, RunRaises, WorkerLost
  <2> QED
    BY <2>1, <1>1, <1>2
<1>7. ~WatchdogLost
  <2> SUFFICES ASSUME WatchdogLost PROVE FALSE
    OBVIOUS
  <2>1. lost' = lost + 1 /\ errors' = errors
    BY DEF WatchdogLost
  <2> QED
    BY <2>1, <1>1, <1>2
<1> QED
  BY <1>3, <1>4, <1>5, <1>6, <1>7 DEF Next, Fault

LEMMA StepCalm == HonestInv /\ CalmInv /\ [Next]_vars => CalmInv'
<1> SUFFICES ASSUME HonestInv, CalmInv, [Next]_vars, Calm' PROVE NobodyMailedTwice'
  BY DEF CalmInv
<1>1. CASE UNCHANGED vars
  <2>1. Calm /\ task' = task /\ mails' = mails /\ row' = row
    BY <1>1 DEF vars, incident, history, faults, Calm
  <2> QED
    BY <2>1, OthersKeepCalm DEF CalmInv
<1>2. CASE Next
  <2>1. /\ Calm /\ ~WatchdogLost
        /\ \A c \in Callers :
              ~(CheckRowFails(c) \/ CallerLost(c) \/ SendUnanswered(c)
                \/ RunRaises(c) \/ WorkerLost(c))
    BY <1>2, CalmBefore DEF HonestInv
  <2>2. NobodyMailedTwice
    BY <2>1 DEF CalmInv
  <2>3. ASSUME NEW c \in Callers,
               FlipStatus(c) \/ AlreadyFlipped(c) \/ Declare(c) \/ Dispatch(c) \/ Fault(c)
        PROVE  NobodyMailedTwice'
    BY <2>1, <2>2, <2>3, CallerKeepsCalm, TaskKeepsCalm DEF Declare, Fault
  <2>4. CASE TimePasses \/ Sweep
    BY <2>2, <2>4, SystemKeepsCalm
  <2> QED
    BY <1>2, <2>1, <2>3, <2>4 DEF Next
<1> QED
  BY <1>1, <1>2

LEMMA InitCalm == Init => CalmInv
<1> SUFFICES ASSUME Init PROVE NobodyMailedTwice
  BY DEF CalmInv
<1>1. \A c \in Callers : task[c].pc = "none"
  BY DEF Init, Unpublished
<1>2. \A n \in 1..MaxRecipients : mails[n] = 0
  BY DEF Init
<1> QED
  BY <1>1, <1>2 DEF NobodyMailedTwice, OneRunAtATime, RunsBeginFresh, RunMailsTheRest,
                    MailsAreSettledOrSending, MailedOnce, NobodyMailed, Running

\* A recipient mailed twice has a cause: a process lost, a step that failed,
\* two runs at once, or a watchdog that overwrote a settled row.
THEOREM ResendsHaveCause == Spec => []ResendHasCause
<1>1. HonestInv /\ CalmInv => ResendHasCause
  <2> SUFFICES ASSUME HonestInv, CalmInv, NEW n \in Recipients, mails[n] > 1,
                      ~(lost + errors > 0), ~overlapped, ~overtaken
               PROVE  FALSE
    BY DEF ResendHasCause
  <2>1. lost \in Nat /\ errors \in Nat /\ mails \in [1..MaxRecipients -> Nat]
    BY DEF HonestInv, TypeInv, TypeOK
  <2>2. n \in 1..MaxRecipients
    BY DeliveryAssumption DEF HonestInv, TypeInv, TypeOK, Recipients
  <2>3. Calm
    BY <2>1 DEF Calm
  <2> QED
    BY <2>1, <2>2, <2>3 DEF CalmInv, NobodyMailedTwice, MailedOnce
<1> QED
  BY <1>1, InitHonest, InitCalm, StepHonest, StepCalm, PTL DEF Spec
=============================================================================
