------------------------- MODULE SafetyNotification -------------------------
(***************************************************************************)
(* Alerting the safety manager of one incident: the Celery task            *)
(* notify_safety_manager, the message_operations table, the provider that  *)
(* carries texts and calls, and the webhook handler that applies the       *)
(* provider's status callbacks to the operations.                          *)
(*                                                                         *)
(* One action per commit, per read a later step depends on, and per call   *)
(* to the provider.  The event log is the task's idempotency record; an    *)
(* operation is found by the id the provider gave its message.             *)
(***************************************************************************)
EXTENDS Naturals, Sequences, FiniteSets

CONSTANTS Workers,       \* Celery workers on the "notifications" queue
          Handlers,      \* API processes that serve the status webhook
          Enqueued,      \* times the task was enqueued for the incident
          Settings       \* the instances: channels the organisation enabled, provider
                         \* statuses a callback is sent for, max_retries of the
                         \* messaging policy; and as bounds, processes lost (crash),
                         \* attempts cut short by an exception (raise), provider
                         \* calls whose answer is lost (unanswered), and callbacks
                         \* sent again, of their own accord or after a refusal,
                         \* when the auth token was out of date (copy)

Disturbances == {"crash", "raise", "unanswered", "copy"}

ASSUME SettingsAssumption ==
          /\ Enqueued \in Nat \ {0}
          /\ \A s \in Settings :
                /\ s.channels # {} /\ s.channels \subseteq {"sms", "voice"}
                /\ s.retries \in Nat /\ s.limit \in [Disturbances -> Nat]

VARIABLES setting,       \* the organisation's and the policy's settings
          phone,         \* is the safety manager's number configured?
          ops,           \* the message_operations table
          log,           \* notification events of the incident, oldest first
          messages,      \* what the provider accepted, and how far it got
          queue,         \* deliverable task messages, with their retries
          dead,          \* tasks handed to the dead-letter queue
          wk,            \* wk[w]: a worker and its attempt
          callbacks,     \* status callbacks on their way
          hooks,         \* the provider_webhook_events table
          hd,            \* hd[h]: a webhook request being handled
          lost           \* how often each bounded disturbance happened

task == <<queue, dead, wk>>
webhook == <<hooks, hd>>
vars == <<setting, phone, ops, log, messages, queue, dead, wk, callbacks, hooks, hd, lost>>
-----------------------------------------------------------------------------
(* Vocabulary. *)

Channels == setting.channels
Reported == setting.reported
MaxRetries == setting.retries
Disturb(d) == lost[d] < setting.limit[d] /\ lost' = [lost EXCEPT ![d] = @ + 1]

OpStatuses == {"queued", "sent", "delivered", "undelivered", "failed"}

\* How the provider reports the progress of a text; "sending" is not mapped.
Progress == [s \in {"accepted", "sending", "sent"} |->
               CASE s = "accepted" -> {"sending"}
                 [] s = "sending"  -> {"sent", "failed"}
                 [] s = "sent"     -> {"delivered", "undelivered"}]
status_map == OpStatuses

Has(kind, c) == \E i \in 1..Len(log) : log[i].kind = kind /\ log[i].chan = c
First(cs) == IF "sms" \in cs THEN "sms" ELSE "voice"

Tasks == 1..Enqueued
Idle == [pc |-> "idle", task |-> 1, retries |-> 0, numbered |-> FALSE, todo |-> {},
         op |-> 0, sid |-> 0, kind |-> "sent", failures |-> 0]
Free == [pc |-> "free", cb |-> <<0, "sent">>, hook |-> 0, op |-> 0, seen |-> "queued"]

Init == /\ setting \in Settings
        /\ phone \in BOOLEAN
        /\ ops = <<>> /\ log = <<>> /\ messages = <<>>
        /\ queue = {[task |-> t, retries |-> 0] : t \in Tasks}
        /\ dead = {}
        /\ wk = [w \in Workers |-> Idle]
        /\ callbacks = {}
        /\ hooks = <<>>
        /\ hd = [h \in Handlers |-> Free]
        /\ lost = [d \in Disturbances |-> 0]

\* An administrator configures the missing number.
SetPhone == /\ ~phone /\ phone' = TRUE
            /\ UNCHANGED <<ops, log, messages, task, callbacks, webhook, lost>>
-----------------------------------------------------------------------------
(* The task.  wk[w].todo holds the channels not finished yet, the text     *)
(* before the call; Chan(w) is the one at hand.                            *)

At(w, pc) == wk[w].pc = pc
Goto(w, pc) == wk' = [wk EXCEPT ![w].pc = pc]
Chan(w) == First(wk[w].todo)

\* Where the work on a channel begins; without a number it can only fail.
Begin(numbered) == IF numbered THEN "create" ELSE "check"

\* The channel at hand is finished: the next one, or the end of the task.
Advance(w) ==
   LET rest == wk[w].todo \ {Chan(w)}
   IN  wk' = [wk EXCEPT ![w] =
                [@ EXCEPT !.todo = rest, !.op = 0, !.sid = 0,
                          !.failures = wk[w].failures + (IF wk[w].kind = "failed" THEN 1 ELSE 0),
                          !.kind = IF wk[w].numbered THEN "sent" ELSE "failed",
                          !.pc = IF rest = {} THEN "end" ELSE Begin(wk[w].numbered)]]

\* The attempt starts; the number is read once, at the start.
Start(w) ==
   /\ At(w, "idle")
   /\ \E m \in queue :
         /\ queue' = queue \ {m}
         /\ wk' = [wk EXCEPT ![w] =
                     [Idle EXCEPT !.pc = Begin(phone), !.task = m.task, !.retries = m.retries,
                                  !.numbered = phone, !.todo = Channels,
                                  !.kind = IF phone THEN "sent" ELSE "failed"]]
   /\ UNCHANGED <<phone, ops, log, messages, dead, callbacks, webhook, lost>>

\* Mutant of CreateOperation: a retry reuses the operation of the first attempt.
CreateOperationReusing(w) ==
   LET mine == {i \in 1..Len(ops) : ops[i].chan = Chan(w)}
   IN  /\ At(w, "create")
       /\ ops' = IF mine = {} THEN Append(ops, [chan |-> Chan(w), status |-> "queued", sid |-> 0]) ELSE ops
       /\ wk' = [wk EXCEPT ![w].op = IF mine = {} THEN Len(ops) + 1 ELSE CHOOSE i \in mine : TRUE,
                           ![w].pc = "look"]
       /\ UNCHANGED <<phone, log, messages, queue, dead, callbacks, webhook, lost>>

\* create_message_operation: the operation is committed before anything is sent.
CreateOperation(w) ==
   /\ At(w, "create")
   /\ ops' = Append(ops, [chan |-> Chan(w), status |-> "queued", sid |-> 0])
   /\ wk' = [wk EXCEPT ![w].op = Len(ops) + 1, ![w].pc = "look"]
   /\ UNCHANGED <<phone, log, messages, queue, dead, callbacks, webhook, lost>>

\* Did an earlier attempt record that this channel was served?
LookForEarlierSend(w) ==
   /\ At(w, "look")
   /\ Goto(w, IF Has("sent", Chan(w)) THEN "already" ELSE "send")
   /\ UNCHANGED <<phone, ops, log, messages, queue, dead, callbacks, webhook, lost>>

\* "already_sent_event_exists": the new operation is closed as sent, without an id.
CloseAsAlreadySent(w) ==
   /\ At(w, "already")
   /\ ops' = [ops EXCEPT ![wk[w].op].status = "sent"]
   /\ Advance(w)
   /\ UNCHANGED <<phone, log, messages, queue, dead, callbacks, webhook, lost>>

Accept(w) == messages' = Append(messages, [chan |-> Chan(w), status |-> "accepted"])

\* send_sms or place_call: accepted and answered, refused, or accepted with
\* the answer lost, which the task takes for a refusal.
Send(w) ==
   /\ At(w, "send")
   /\ \/ /\ Accept(w)
         /\ wk' = [wk EXCEPT ![w].pc = "record", ![w].sid = Len(messages) + 1]
         /\ UNCHANGED lost
      \/ Goto(w, "fail") /\ UNCHANGED <<messages, lost>>
      \/ Accept(w) /\ Disturb("unanswered") /\ Goto(w, "fail")
   /\ UNCHANGED <<phone, ops, log, queue, dead, callbacks, webhook>>

\* Mutant of RecordSent: the provider's id is not stored.
RecordSentWithoutId(w) ==
   /\ At(w, "record")
   /\ ops' = [ops EXCEPT ![wk[w].op].status = "sent"]
   /\ Goto(w, "check")
   /\ UNCHANGED <<phone, log, messages, queue, dead, callbacks, webhook, lost>>

\* update_message_operation_status, with the id the provider gave.
RecordSent(w) ==
   /\ At(w, "record")
   /\ ops' = [ops EXCEPT ![wk[w].op].status = "sent", ![wk[w].op].sid = wk[w].sid]
   /\ Goto(w, "check")
   /\ UNCHANGED <<phone, log, messages, queue, dead, callbacks, webhook, lost>>

RecordFailed(w) ==
   /\ At(w, "fail")
   /\ ops' = [ops EXCEPT ![wk[w].op].status = "failed"]
   /\ wk' = [wk EXCEPT ![w].pc = "check", ![w].kind = "failed"]
   /\ UNCHANGED <<phone, log, messages, queue, dead, callbacks, webhook, lost>>

\* _emit_once reads the log ...
EmitOnceCheck(w) ==
   /\ At(w, "check")
   /\ IF Has(wk[w].kind, Chan(w)) THEN Advance(w) ELSE Goto(w, "emit")
   /\ UNCHANGED <<phone, ops, log, messages, queue, dead, callbacks, webhook, lost>>

\* ... and appends the event when it found none.
EmitOnceWrite(w) ==
   /\ At(w, "emit")
   /\ log' = Append(log, [kind |-> wk[w].kind, chan |-> Chan(w), sid |-> wk[w].sid])
   /\ Advance(w)
   /\ UNCHANGED <<phone, ops, messages, queue, dead, callbacks, webhook, lost>>

\* An exception ends the attempt: self.retry publishes the message again, and
\* the last failure is dead-lettered.
FailAttempt(w) ==
   /\ IF wk[w].retries < MaxRetries
         THEN /\ queue' = queue \cup {[task |-> wk[w].task, retries |-> wk[w].retries + 1]}
              /\ UNCHANGED dead
         ELSE dead' = dead \cup {wk[w].task} /\ UNCHANGED queue
   /\ wk' = [wk EXCEPT ![w] = Idle]

Finish(w) ==
   /\ At(w, "end") /\ wk[w].failures = 0
   /\ wk' = [wk EXCEPT ![w] = Idle]
   /\ UNCHANGED <<phone, ops, log, messages, queue, dead, callbacks, webhook, lost>>

\* ValueError (no number) or RuntimeError (a channel failed), after all channels.
FinishFailed(w) ==
   /\ At(w, "end") /\ wk[w].failures > 0
   /\ FailAttempt(w)
   /\ UNCHANGED <<phone, ops, log, messages, callbacks, webhook, lost>>

\* The database or the soft time limit raises where only provider errors are caught.
AttemptRaises(w) ==
   /\ ~At(w, "idle")
   /\ Disturb("raise")
   /\ FailAttempt(w)
   /\ UNCHANGED <<phone, ops, log, messages, callbacks, webhook>>

\* Mutant of WorkerCrash: the message was acknowledged before it ran.
WorkerCrashAckedEarly(w) ==
   /\ ~At(w, "idle")
   /\ Disturb("crash")
   /\ wk' = [wk EXCEPT ![w] = Idle]
   /\ UNCHANGED <<phone, ops, log, messages, queue, dead, callbacks, webhook>>

\* The process is lost: the unacknowledged message is delivered again.
WorkerCrash(w) ==
   /\ ~At(w, "idle")
   /\ Disturb("crash")
   /\ queue' = queue \cup {[task |-> wk[w].task, retries |-> wk[w].retries]}
   /\ wk' = [wk EXCEPT ![w] = Idle]
   /\ UNCHANGED <<phone, ops, log, messages, dead, callbacks, webhook>>
-----------------------------------------------------------------------------
(* The provider.  Calls are reported to another endpoint, which updates no *)
(* operation; only a text's progress reaches the status webhook.           *)

ProviderProgress(m) ==
   /\ messages[m].chan = "sms" /\ messages[m].status \in DOMAIN Progress
   /\ \E s \in Progress[messages[m].status] :
         /\ messages' = [messages EXCEPT ![m].status = s]
         /\ callbacks' = IF s \in Reported THEN callbacks \cup {<<m, s>>} ELSE callbacks
   /\ UNCHANGED <<phone, ops, log, task, webhook, lost>>
-----------------------------------------------------------------------------
(* The status webhook.  Every request leaves a row; a callback is a        *)
(* duplicate when any row carries its key, whatever became of that row.    *)

Hooked(cb) == \E i \in 1..Len(hooks) : hooks[i].cb = cb
Hook(cb, status, outcome) == [cb |-> cb, status |-> status, outcome |-> outcome]
AddHook(rec) == hooks' = Append(hooks, rec)
Release(h) == hd' = [hd EXCEPT ![h] = Free]

\* The request arrives; the callback may come again, or several times at once.
Receive(h, cb) ==
   /\ hd[h].pc = "free"
   /\ \/ callbacks' = callbacks \ {cb} /\ UNCHANGED lost
      \/ Disturb("copy") /\ UNCHANGED callbacks
   /\ hd' = [hd EXCEPT ![h] = [Free EXCEPT !.pc = "lookup", !.cb = cb]]
   /\ UNCHANGED <<phone, ops, log, messages, task, hooks>>

\* The auth token is out of date: the signature check fails, and the provider
\* sends the callback again.
ReceiveBadSignature(h, cb) ==
   /\ hd[h].pc = "free"
   /\ Disturb("copy") /\ UNCHANGED callbacks
   /\ hd' = [hd EXCEPT ![h] = [Free EXCEPT !.pc = "reject", !.cb = cb]]
   /\ UNCHANGED <<phone, ops, log, messages, task, hooks>>

\* 403: the row is inserted as received, then failed.
Reject(h) ==
   /\ hd[h].pc = "reject"
   /\ AddHook(Hook(hd[h].cb, "received", "none"))
   /\ hd' = [hd EXCEPT ![h].pc = "refuse", ![h].hook = Len(hooks) + 1]
   /\ UNCHANGED <<phone, ops, log, messages, task, callbacks, lost>>

\* get_provider_webhook_event_by_idempotency_key.
LookupKey(h) ==
   /\ hd[h].pc = "lookup"
   /\ hd' = [hd EXCEPT ![h].pc = IF Hooked(hd[h].cb) THEN "duplicate" ELSE "persist"]
   /\ UNCHANGED <<phone, ops, log, messages, task, callbacks, hooks, lost>>

AnswerDuplicate(h) ==
   /\ hd[h].pc = "duplicate"
   /\ AddHook(Hook(hd[h].cb, "ignored", "duplicate"))
   /\ Release(h)
   /\ UNCHANGED <<phone, ops, log, messages, task, callbacks, lost>>

Persist(h) ==
   /\ hd[h].pc = "persist"
   /\ AddHook(Hook(hd[h].cb, "received", "none"))
   /\ hd' = [hd EXCEPT ![h].pc = "find", ![h].hook = Len(hooks) + 1]
   /\ UNCHANGED <<phone, ops, log, messages, task, callbacks, lost>>

\* Mutant of FindOperation: the latest text's operation, not the one with the id.
FindOperationLatest(h) ==
   /\ hd[h].pc = "find"
   /\ LET hits == {i \in 1..Len(ops) : ops[i].chan = "sms"}
          last == CHOOSE i \in hits : \A j \in hits : j <= i
      IN  hd' = [hd EXCEPT ![h] =
                   IF hits = {} THEN [@ EXCEPT !.pc = "orphan"]
                   ELSE IF hd[h].cb[2] \notin status_map THEN [@ EXCEPT !.pc = "unsupported"]
                   ELSE [@ EXCEPT !.pc = "apply", !.op = last, !.seen = ops[last].status]]
   /\ UNCHANGED <<phone, ops, log, messages, task, callbacks, hooks, lost>>

\* The operation with the provider's id, and the status it is loaded with.
FindOperation(h) ==
   /\ hd[h].pc = "find"
   /\ LET sid == hd[h].cb[1]
          hits == {i \in 1..Len(ops) : ops[i].sid = sid}
      IN  hd' = [hd EXCEPT ![h] =
                   IF hits = {} THEN [@ EXCEPT !.pc = "orphan"]
                   ELSE IF hd[h].cb[2] \notin status_map THEN [@ EXCEPT !.pc = "unsupported"]
                   ELSE [@ EXCEPT !.pc = "apply", !.op = CHOOSE i \in hits : TRUE,
                                  !.seen = ops[CHOOSE i \in hits : TRUE].status]]
   /\ UNCHANGED <<phone, ops, log, messages, task, callbacks, hooks, lost>>

\* The status is written over whatever the row holds, unless it equals the
\* status the session loaded: then the UPDATE leaves the column out.
Apply(h) ==
   /\ hd[h].pc = "apply"
   /\ ops' = IF hd[h].seen = hd[h].cb[2] THEN ops ELSE [ops EXCEPT ![hd[h].op].status = hd[h].cb[2]]
   /\ hd' = [hd EXCEPT ![h].pc = "settle"]
   /\ UNCHANGED <<phone, log, messages, task, callbacks, hooks, lost>>

Outcome == [pc \in {"settle", "orphan", "unsupported", "refuse"} |->
              CASE pc = "settle"      -> <<"processed", "message_operation_updated">>
                [] pc = "orphan"      -> <<"ignored", "operation_not_found">>
                [] pc = "unsupported" -> <<"ignored", "unsupported_status">>
                [] pc = "refuse"      -> <<"failed", "invalid_signature">>]

\* update_provider_webhook_event, and the answer.
Settle(h) ==
   /\ hd[h].pc \in DOMAIN Outcome
   /\ hooks' = [hooks EXCEPT ![hd[h].hook].status = Outcome[hd[h].pc][1],
                             ![hd[h].hook].outcome = Outcome[hd[h].pc][2]]
   /\ Release(h)
   /\ UNCHANGED <<phone, ops, log, messages, task, callbacks, lost>>

\* The API process is lost; the provider gets no answer and gives up.
HandlerCrash(h) ==
   /\ hd[h].pc # "free"
   /\ Disturb("crash")
   /\ Release(h)
   /\ UNCHANGED <<phone, ops, log, messages, task, callbacks, hooks>>
-----------------------------------------------------------------------------
WorkerStep(w) ==
   \/ Start(w) \/ CreateOperation(w) \/ LookForEarlierSend(w) \/ CloseAsAlreadySent(w)
   \/ Send(w) \/ RecordSent(w) \/ RecordFailed(w) \/ EmitOnceCheck(w) \/ EmitOnceWrite(w)
   \/ Finish(w) \/ FinishFailed(w)

HandlerStep(h) ==
   \/ Reject(h) \/ LookupKey(h) \/ AnswerDuplicate(h) \/ Persist(h) \/ FindOperation(h)
   \/ Apply(h) \/ Settle(h)

Next == /\ \/ SetPhone
           \/ \E w \in Workers : WorkerStep(w) \/ AttemptRaises(w) \/ WorkerCrash(w)
           \/ \E m \in 1..Len(messages) : ProviderProgress(m)
           \/ \E h \in Handlers : \/ \E cb \in callbacks : Receive(h, cb) \/ ReceiveBadSignature(h, cb)
                                  \/ HandlerStep(h) \/ HandlerCrash(h)
        /\ UNCHANGED setting

Spec == Init /\ [][Next]_vars

\* Workers keep consuming their queue and an accepted request is run to its
\* end; nothing obliges the provider, the network or the administrator.
FairSpec == /\ Spec
            /\ \A w \in Workers : WF_vars(WorkerStep(w) /\ UNCHANGED setting)
            /\ \A h \in Handlers : WF_vars(HandlerStep(h) /\ UNCHANGED setting)
-----------------------------------------------------------------------------
(* Properties. *)

TypeOK ==
   /\ setting \in Settings
   /\ phone \in BOOLEAN /\ dead \subseteq Tasks
   /\ ops \in Seq([chan : Channels, status : OpStatuses, sid : 0..Len(messages)])
   /\ log \in Seq([kind : {"sent", "failed"}, chan : Channels, sid : 0..Len(messages)])
   /\ messages \in Seq([chan : Channels, status : OpStatuses \cup {"accepted", "sending"}])
   /\ queue \subseteq [task : Tasks, retries : 0..MaxRetries]
   /\ wk \in [Workers ->
        [pc : {"idle", "create", "look", "already", "send", "record", "fail", "check", "emit", "end"},
         task : Tasks, retries : 0..MaxRetries, numbered : BOOLEAN, todo : SUBSET Channels,
         op : 0..Len(ops), sid : 0..Len(messages), kind : {"sent", "failed"}, failures : 0..2]]
   /\ callbacks \subseteq (1..Len(messages)) \X Reported
   /\ hd \in [Handlers ->
        [pc : {"free", "reject", "lookup", "duplicate", "persist", "find", "apply"} \cup DOMAIN Outcome,
         cb : (0..Len(messages)) \X (Reported \cup {"sent"}), hook : 0..Len(hooks),
         op : 0..Len(ops), seen : OpStatuses]]
   /\ hooks \in Seq([cb : (1..Len(messages)) \X Reported,
                    status : {"received"} \cup {Outcome[pc][1] : pc \in DOMAIN Outcome},
                    outcome : {"none", "duplicate"} \cup {Outcome[pc][2] : pc \in DOMAIN Outcome}])
   /\ lost \in [Disturbances -> Nat]

OfChannel(s, c) == {i \in 1..Len(s) : s[i].chan = c}

(* Every message the provider accepted has an operation row of its own,    *)
(* committed before it was sent, whatever happened to the attempt that     *)
(* sent it: support can account for each text the manager received.        *)
EveryMessageHasOperation ==
   \A c \in Channels : Cardinality(OfChannel(messages, c)) <= Cardinality(OfChannel(ops, c))

(* A task sends a channel's message again only when the record of the      *)
(* earlier one was lost: each extra message is paid for by one lost        *)
(* process, one attempt cut short or one unanswered call.                  *)
ExtraSendsArePaidFor ==
   \A c \in Channels :
      Cardinality(OfChannel(messages, c))
         <= Enqueued + lost["crash"] + lost["raise"] + lost["unanswered"]

(* _emit_once: over all attempts of a task, with their crashes and         *)
(* retries, no notification event is recorded twice for a channel; tasks   *)
(* that overlap record it no more often than the task was enqueued.        *)
EventsOnce ==
   \A kind \in {"sent", "failed"}, c \in Channels :
      Cardinality({i \in OfChannel(log, c) : log[i].kind = kind}) <= Enqueued

(* A SENT or PLACED event names a message its channel's provider accepted, *)
(* and an operation already carries that message's id, so that the         *)
(* message's callbacks find the operation.                                 *)
AnnouncedSendIsTracked ==
   \A i \in 1..Len(log) : log[i].kind = "sent" =>
      /\ log[i].sid \in 1..Len(messages) /\ messages[log[i].sid].chan = log[i].chan
      /\ \E k \in 1..Len(ops) : ops[k].sid = log[i].sid /\ ops[k].chan = log[i].chan

(* Each message has an operation, and there are no more messages than lost *)
(* records explain.                                                        *)
SendsAreAccountedFor == TypeOK /\ EveryMessageHasOperation /\ ExtraSendsArePaidFor

(* The log announces nothing twice and nothing that was not sent.          *)
EventsAreTrue == EventsOnce /\ AnnouncedSendIsTracked

(* What an operation claims about its delivery is what the provider said   *)
(* of the very message it tracks: "delivered" and "undelivered" are never  *)
(* read off another message, an earlier attempt's or a call.               *)
DeliveryClaimsAreTrue ==
   \A k \in 1..Len(ops) : ops[k].status \in {"delivered", "undelivered"} =>
      /\ ops[k].sid # 0
      /\ messages[ops[k].sid].status = ops[k].status

(* The task concludes: the queue drains, and either a task was             *)
(* dead-lettered or each channel has a SENT event.                         *)
Concludes ==
   <>[](/\ queue = {}
        /\ \A w \in Workers : At(w, "idle")
        /\ dead # {} \/ \A c \in Channels : Has("sent", c))

(* While no API process is lost, no webhook row stays "received": each     *)
(* request settles the row it inserted, whatever it found.                 *)
HooksSettle ==
   <>[](\A i \in 1..Len(hooks) : hooks[i].status # "received" \/ lost["crash"] > 0)

(* The task and the callbacks of its messages come to their end.           *)
NotificationSettles == Concludes /\ HooksSettle
=============================================================================
