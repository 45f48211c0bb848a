---------------------- MODULE SafetyNotificationProofs ----------------------
(***************************************************************************)
(* Theorems about SafetyNotification, for any number of workers, webhook   *)
(* requests, settings, retries and disturbances, and for any number of     *)
(* tasks enqueued for the incident.                                        *)
(*                                                                         *)
(* Two invariants.  TrackInv follows a message from the provider's answer  *)
(* to its operation and to the callbacks that report on it.  CountInv      *)
(* counts: an operation is there for every message and every attempt about *)
(* to send; a task that has not sent yet, or has lost the record of it, is *)
(* all that can still send.                                                *)
(***************************************************************************)
EXTENDS SafetyNotification, SequenceTheorems, FiniteSetTheorems, TLAPS

OnChannel == {"create", "look", "already", "send", "record", "fail", "check", "emit"}
HasOwnOp == {"look", "already", "send", "record", "fail"}

Left(todo) == (IF "sms" \in todo THEN 1 ELSE 0) + (IF "voice" \in todo THEN 1 ELSE 0)

(* The types, part by part: the bounds of the numbers stand apart from the *)
(* sets the records come from.                                             *)
OpRecords == [chan : Channels, status : OpStatuses, sid : Nat]
LogRecords == [kind : {"sent", "failed"}, chan : Channels, sid : Nat]
MessageRecords == [chan : Channels, status : OpStatuses \cup {"accepted", "sending"}]
TaskMessages == [task : Tasks, retries : 0..MaxRetries]
WorkerStates ==
   [pc : OnChannel \cup {"idle", "end"}, task : Tasks, retries : 0..MaxRetries,
    numbered : BOOLEAN, todo : SUBSET Channels, op : Nat, sid : Nat,
    kind : {"sent", "failed"}, failures : 0..2]
HandlerStates ==
   [pc : {"free", "reject", "lookup", "duplicate", "persist", "find", "apply"} \cup DOMAIN Outcome,
    cb : Nat \X (Reported \cup {"sent"}), hook : Nat, op : Nat, seen : OpStatuses]
HookRecords ==
   [cb : (Nat \ {0}) \X Reported,
    status : {"received"} \cup {Outcome[pc][1] : pc \in DOMAIN Outcome},
    outcome : {"none", "duplicate"} \cup {Outcome[pc][2] : pc \in DOMAIN Outcome}]

\* A channel at hand, an operation at hand, no more failures than channels done.
WorkerFits(t) ==
   /\ t.op <= Len(ops) /\ t.sid <= Len(messages)
   /\ t.pc \in OnChannel => t.todo # {}
   /\ t.pc \in HasOwnOp => t.op # 0
   /\ t.failures + Left(t.todo) <= 2

HandlerFits(x) ==
   /\ x.cb[1] <= Len(messages) /\ x.hook <= Len(hooks) /\ x.op <= Len(ops)
   /\ x.pc # "free" => x.cb[1] # 0 /\ x.cb[2] \in Reported
   /\ x.pc = "apply" => x.op # 0 /\ x.cb[2] \in OpStatuses

SettingTyped == setting \in Settings /\ phone \in BOOLEAN /\ lost \in [Disturbances -> Nat]

StoreTyped ==
   /\ messages \in Seq(MessageRecords)
   /\ ops \in Seq(OpRecords) /\ \A k \in 1..Len(ops) : ops[k].sid <= Len(messages)
   /\ log \in Seq(LogRecords) /\ \A i \in 1..Len(log) : log[i].sid <= Len(messages)

WorkTyped ==
   /\ queue \subseteq TaskMessages /\ dead \subseteq Tasks
   /\ wk \in [Workers -> WorkerStates]
   /\ \A w \in Workers : WorkerFits(wk[w])

HookTyped ==
   /\ callbacks \subseteq (Nat \ {0}) \X Reported /\ \A cb \in callbacks : cb[1] <= Len(messages)
   /\ hooks \in Seq(HookRecords) /\ \A i \in 1..Len(hooks) : hooks[i].cb[1] <= Len(messages)
   /\ hd \in [Handlers -> HandlerStates]
   /\ \A h \in Handlers : HandlerFits(hd[h])

Typed == SettingTyped /\ StoreTyped /\ WorkTyped /\ HookTyped
-----------------------------------------------------------------------------
(* From the answer to the operation. *)

Busy(w) == wk[w].pc # "idle"

\* No two attempts work on one operation.
OpsApart ==
   \A v, w \in Workers : wk[v].op = wk[w].op /\ wk[w].op # 0 => v = w

\* Until the answer is recorded the operation at hand has no id.
FreshOp(t) ==
   t.pc \in HasOwnOp => ops[t.op].sid = 0 /\ ops[t.op].chan = First(t.todo)
OwnOpIsFresh == \A w \in Workers : FreshOp(wk[w])

Answered(sid, c) == sid \in 1..Len(messages) /\ messages[sid].chan = c
Tracked(sid, c) == \E k \in 1..Len(ops) : ops[k].sid = sid /\ ops[k].chan = c

\* What an attempt is about to record and to announce is so.
Told(t) ==
   /\ t.pc \in HasOwnOp \cup {"create"} => t.kind = "sent"
   /\ t.pc = "record" => Answered(t.sid, First(t.todo))
   /\ t.pc \in {"check", "emit"} /\ t.kind = "sent" =>
         Answered(t.sid, First(t.todo)) /\ Tracked(t.sid, First(t.todo))
AnswersAreKept == \A w \in Workers : Told(wk[w])

Final == {"delivered", "undelivered"}

\* What is said of a message's end is so, on its way and in a handler.
CallbacksAreTrue ==
   /\ \A cb \in callbacks : cb[2] \in Final => messages[cb[1]].status = cb[2]
   /\ \A h \in Handlers :
         /\ hd[h].pc # "free" /\ hd[h].cb[2] \in Final =>
               messages[hd[h].cb[1]].status = hd[h].cb[2]
         /\ hd[h].pc = "apply" => ops[hd[h].op].sid = hd[h].cb[1]

TrackInv == /\ OpsApart /\ OwnOpIsFresh /\ AnswersAreKept /\ CallbacksAreTrue
            /\ AnnouncedSendIsTracked /\ DeliveryClaimsAreTrue
-----------------------------------------------------------------------------
(* Counting. *)

TasksApart ==
   /\ \A m \in queue : /\ \A n \in queue : n.task = m.task => n = m
                       /\ \A w \in Workers : Busy(w) => wk[w].task # m.task
   /\ \A v, w \in Workers : Busy(v) /\ Busy(w) /\ wk[v].task = wk[w].task => v = w

\* The attempts about to send on channel c, or to look whether they shall.
Sending(c) == {w \in Workers : wk[w].pc \in {"look", "send"} /\ Chan(w) = c}

\* May an attempt in state t still send on channel c?  Once the log tells of
\* the channel, only if it has looked before.
SendOpen(t, c, told) ==
   /\ t.pc # "idle"
   /\ IF told THEN t.pc = "send" /\ First(t.todo) = c
              ELSE ~(t.pc \in {"record", "check", "emit"} /\ First(t.todo) = c /\ t.kind = "sent")

\* May it still record the event?
EmitOpen(t, kind, c, told) ==
   t.pc # "idle" /\ (told => t.pc = "emit" /\ First(t.todo) = c /\ t.kind = kind)

\* The tasks that can still do it.
CanSend(c) ==
   {x \in Tasks : \/ ~Has("sent", c) /\ \E m \in queue : m.task = x
                  \/ \E w \in Workers : wk[w].task = x /\ SendOpen(wk[w], c, Has("sent", c))}
CanEmit(kind, c) ==
   {x \in Tasks : \/ ~Has(kind, c) /\ \E m \in queue : m.task = x
                  \/ \E w \in Workers : wk[w].task = x /\ EmitOpen(wk[w], kind, c, Has(kind, c))}

Records(kind, c) == {i \in OfChannel(log, c) : log[i].kind = kind}
Paid == lost["crash"] + lost["raise"] + lost["unanswered"]

OpsSuffice ==
   \A c \in Channels :
      /\ IsFiniteSet(Sending(c))
      /\ Cardinality(OfChannel(messages, c)) + Cardinality(Sending(c))
            <= Cardinality(OfChannel(ops, c))

SendsAreFew ==
   \A c \in Channels :
      Cardinality(OfChannel(messages, c)) + Cardinality(CanSend(c)) <= Enqueued + Paid

EventsAreFew ==
   \A kind \in {"sent", "failed"}, c \in Channels :
      Cardinality(Records(kind, c)) + Cardinality(CanEmit(kind, c)) <= Enqueued

CountInv == TasksApart /\ OpsSuffice /\ SendsAreFew /\ EventsAreFew
-----------------------------------------------------------------------------
(* Sequences and settings. *)

LEMMA SeqWiden ==
   ASSUME NEW S, NEW T, NEW s \in Seq(S), \A i \in 1..Len(s) : s[i] \in T
   PROVE  s \in Seq(T)
OBVIOUS

LEMMA AppendFacts ==
   ASSUME NEW S, NEW s \in Seq(S), NEW x \in S
   PROVE  /\ Append(s, x) \in Seq(S)
          /\ Len(Append(s, x)) = Len(s) + 1
          /\ \A i \in 1..Len(s) : Append(s, x)[i] = s[i]
          /\ Append(s, x)[Len(s) + 1] = x
          /\ Len(s) \in Nat
OBVIOUS

LEMMA ReplaceFacts ==
   ASSUME NEW S, NEW s \in Seq(S), NEW k \in 1..Len(s), NEW x \in S
   PROVE  /\ [s EXCEPT ![k] = x] \in Seq(S)
          /\ Len([s EXCEPT ![k] = x]) = Len(s)
          /\ \A i \in 1..Len(s) : i # k => [s EXCEPT ![k] = x][i] = s[i]
          /\ [s EXCEPT ![k] = x][k] = x
          /\ Len(s) \in Nat
OBVIOUS

LEMMA SettingFacts ==
   ASSUME SettingTyped
   PROVE  /\ Channels # {} /\ Channels \subseteq {"sms", "voice"}
          /\ MaxRetries \in Nat
          /\ \A todo \in SUBSET Channels :
                /\ Left(todo) \in 0..2
                /\ todo # {} => /\ First(todo) \in todo
                                /\ Left(todo \ {First(todo)}) = Left(todo) - 1
          /\ \A d \in Disturbances : lost[d] \in Nat
          /\ Enqueued \in Nat \ {0} /\ 1 \in Tasks
<1>1. Channels # {} /\ Channels \subseteq {"sms", "voice"} /\ MaxRetries \in Nat
      /\ Enqueued \in Nat \ {0}
  BY SettingsAssumption DEF SettingTyped, Channels, MaxRetries
<1>2. ASSUME NEW todo \in SUBSET Channels
      PROVE  /\ Left(todo) \in 0..2
             /\ todo # {} => /\ First(todo) \in todo
                             /\ Left(todo \ {First(todo)}) = Left(todo) - 1
  <2>1. Left(todo) \in 0..2
    BY DEF Left
  <2>2. ASSUME "sms" \in todo
        PROVE  First(todo) \in todo /\ Left(todo \ {First(todo)}) = Left(todo) - 1
    BY <2>2 DEF Left, First
  <2>3. ASSUME "sms" \notin todo, todo # {}
        PROVE  First(todo) \in todo /\ Left(todo \ {First(todo)}) = Left(todo) - 1
    <3>1. todo = {"voice"}
      BY <1>1, <2>3
    <3> QED
      BY <3>1 DEF Left, First
  <2> QED
    BY <2>1, <2>2, <2>3
<1>3. 1 \in Tasks /\ \A d \in Disturbances : lost[d] \in Nat
  BY <1>1 DEF Tasks, SettingTyped
<1> QED
  BY <1>1, <1>2, <1>3

\* The settings never change, nor what is built from them.
LEMMA SettingStays ==
   ASSUME setting' = setting
   PROVE  /\ Channels' = Channels /\ Reported' = Reported /\ MaxRetries' = MaxRetries
          /\ OpRecords' = OpRecords /\ LogRecords' = LogRecords
          /\ MessageRecords' = MessageRecords /\ TaskMessages' = TaskMessages
          /\ WorkerStates' = WorkerStates /\ HandlerStates' = HandlerStates
          /\ HookRecords' = HookRecords
BY DEF Channels, Reported, MaxRetries, OpRecords, LogRecords, MessageRecords, TaskMessages,
       WorkerStates, HandlerStates, HookRecords

LEMMA Numbers ==
   ASSUME Typed
   PROVE  Len(ops) \in Nat /\ Len(log) \in Nat /\ Len(messages) \in Nat /\ Len(hooks) \in Nat
BY DEF Typed, StoreTyped, HookTyped

\* The parts make up the type invariant.
LEMMA TypedMeansTypeOK ==
   ASSUME Typed
   PROVE  TypeOK
<1>1. SettingTyped /\ StoreTyped /\ WorkTyped /\ HookTyped
  BY DEF Typed
<1>2. Len(ops) \in Nat /\ Len(log) \in Nat /\ Len(messages) \in Nat /\ Len(hooks) \in Nat
  BY Numbers
<1>3. ops \in Seq([chan : Channels, status : OpStatuses, sid : 0..Len(messages)])
  <2> DEFINE S == [chan : Channels, status : OpStatuses, sid : 0..Len(messages)]
  <2>1. \A k \in 1..Len(ops) : ops[k] \in OpRecords
    BY <1>1 DEF StoreTyped
  <2>2. \A k \in 1..Len(ops) : ops[k] \in S
    BY <1>1, <1>2, <2>1 DEF StoreTyped, OpRecords
  <2> HIDE DEF S
  <2>3. ops \in Seq(S)
    BY <1>1, <2>2, SeqWiden DEF StoreTyped
  <2> QED
    BY <2>3 DEF S
<1>4. log \in Seq([kind : {"sent", "failed"}, chan : Channels, sid : 0..Len(messages)])
  <2> DEFINE S == [kind : {"sent", "failed"}, chan : Channels, sid : 0..Len(messages)]
  <2>1. \A k \in 1..Len(log) : log[k] \in LogRecords
    BY <1>1 DEF StoreTyped
  <2>2. \A k \in 1..Len(log) : log[k] \in S
    BY <1>1, <1>2, <2>1 DEF StoreTyped, LogRecords
  <2> HIDE DEF S
  <2>3. log \in Seq(S)
    BY <1>1, <2>2, SeqWiden DEF StoreTyped
  <2> QED
    BY <2>3 DEF S
<1>5. hooks \in Seq([cb : (1..Len(messages)) \X Reported,
                     status : {"received"} \cup {Outcome[pc][1] : pc \in DOMAIN Outcome},
                     outcome : {"none", "duplicate"} \cup {Outcome[pc][2] : pc \in DOMAIN Outcome}])
  <2> DEFINE st == {"received"} \cup {Outcome[pc][1] : pc \in DOMAIN Outcome}
             oc == {"none", "duplicate"} \cup {Outcome[pc][2] : pc \in DOMAIN Outcome}
             S == [cb : (1..Len(messages)) \X Reported, status : st, outcome : oc]
             T == [cb : (Nat \ {0}) \X Reported, status : st, outcome : oc]
  <2>0. HookRecords = T
    BY DEF HookRecords
  <2> HIDE DEF st, oc
  <2>1. \A k \in 1..Len(hooks) : hooks[k] \in T
    <3>1. \A k \in 1..Len(hooks) : hooks[k] \in HookRecords
      BY <1>1 DEF HookTyped
    <3> QED
      BY <2>0, <3>1
  <2>2. \A k \in 1..Len(hooks) : hooks[k] \in S
    BY <1>1, <1>2, <2>1 DEF HookTyped
  <2> HIDE DEF S
  <2>3. hooks \in Seq(S)
    BY <1>1, <2>2, SeqWiden DEF HookTyped
  <2> QED
    BY <2>3 DEF S, st, oc
<1>6. wk \in [Workers ->
        [pc : {"idle", "create", "look", "already", "send", "record", "fail", "check", "emit", "end"},
         task : Tasks, retries : 0..MaxRetries, numbered : BOOLEAN, todo : SUBSET Channels,
         op : 0..Len(ops), sid : 0..Len(messages), kind : {"sent", "failed"}, failures : 0..2]]
  <2>1. \A w \in Workers : wk[w] \in WorkerStates /\ wk[w].op <= Len(ops) /\ wk[w].sid <= Len(messages)
    BY <1>1 DEF WorkTyped, WorkerFits
  <2>2. \A w \in Workers : wk[w].op \in 0..Len(ops) /\ wk[w].sid \in 0..Len(messages)
    BY <2>1, <1>2 DEF WorkerStates
  <2> QED
    BY <1>1, <2>1, <2>2 DEF WorkTyped, WorkerStates, OnChannel
<1>7. hd \in [Handlers ->
        [pc : {"free", "reject", "lookup", "duplicate", "persist", "find", "apply"} \cup DOMAIN Outcome,
         cb : (0..Len(messages)) \X (Reported \cup {"sent"}), hook : 0..Len(hooks),
         op : 0..Len(ops), seen : OpStatuses]]
  <2>1. \A h \in Handlers : /\ hd[h] \in HandlerStates /\ hd[h].cb[1] <= Len(messages)
                            /\ hd[h].hook <= Len(hooks) /\ hd[h].op <= Len(ops)
    BY <1>1 DEF HookTyped, HandlerFits
  <2>2. \A h \in Handlers : /\ hd[h].hook \in 0..Len(hooks) /\ hd[h].op \in 0..Len(ops)
                            /\ hd[h].cb \in (0..Len(messages)) \X (Reported \cup {"sent"})
    BY <2>1, <1>2 DEF HandlerStates
  <2> QED
    BY <1>1, <2>1, <2>2 DEF HookTyped, HandlerStates
<1>8. callbacks \subseteq (1..Len(messages)) \X Reported
  BY <1>1, <1>2 DEF HookTyped
<1>9. setting \in Settings /\ phone \in BOOLEAN /\ lost \in [Disturbances -> Nat]
  BY <1>1 DEF SettingTyped
<1>10. dead \subseteq Tasks /\ queue \subseteq [task : Tasks, retries : 0..MaxRetries]
  BY <1>1 DEF WorkTyped, TaskMessages
<1>11. messages \in Seq([chan : Channels, status : OpStatuses \cup {"accepted", "sending"}])
  BY <1>1 DEF StoreTyped, MessageRecords
<1> QED
  BY <1>3, <1>4, <1>5, <1>6, <1>7, <1>8, <1>9, <1>10, <1>11 DEF TypeOK
-----------------------------------------------------------------------------
(* What the steps of a worker do to its own state. *)

\* The state of worker w goes on to t, which keeps the task, the channels and
\* the counts of the attempt.
Onward(w, t) ==
   /\ wk' = [wk EXCEPT ![w] = t]
   /\ t.task = wk[w].task /\ t.retries = wk[w].retries /\ t.todo = wk[w].todo
   /\ t.numbered = wk[w].numbered /\ t.failures = wk[w].failures

\* A new operation, and a row written over.
OpAdded(c) ==
   \E n \in OpRecords : n.chan = c /\ n.sid = 0 /\ n.status = "queued" /\ ops' = Append(ops, n)
OpWritten(k, status, sid) ==
   \E n \in OpRecords :
      /\ n.chan = ops[k].chan /\ n.sid = sid /\ n.status = status
      /\ ops' = [ops EXCEPT ![k] = n]

LEMMA WorkerFacts ==
   ASSUME Typed, NEW w \in Workers
   PROVE  /\ wk[w] \in WorkerStates /\ wk \in [Workers -> WorkerStates]
          /\ wk[w].todo \in SUBSET Channels
          /\ wk[w].pc \in OnChannel => /\ Chan(w) \in wk[w].todo /\ Chan(w) \in Channels
                                       /\ wk[w].todo # {}
          /\ wk[w].pc \in HasOwnOp => wk[w].op \in 1..Len(ops)
          /\ wk[w].op \in Nat /\ wk[w].op <= Len(ops)
          /\ wk[w].sid \in Nat /\ wk[w].sid <= Len(messages)
          /\ wk[w].failures + Left(wk[w].todo) <= 2
<1>1. wk[w] \in WorkerStates /\ wk \in [Workers -> WorkerStates] /\ WorkerFits(wk[w])
  BY DEF Typed, WorkTyped
<1>2. wk[w].todo \in SUBSET Channels /\ wk[w].op \in Nat /\ wk[w].sid \in Nat
  BY <1>1 DEF WorkerStates
<1>3. wk[w].pc \in OnChannel => Chan(w) \in wk[w].todo /\ wk[w].todo # {}
  BY <1>1, <1>2, SettingFacts DEF Typed, WorkerFits, Chan
<1>4. wk[w].pc \in HasOwnOp => wk[w].op \in 1..Len(ops)
  BY <1>1, <1>2, Numbers DEF WorkerFits
<1> QED
  BY <1>1, <1>2, <1>3, <1>4 DEF WorkerFits

LEMMA GotoEffect ==
   ASSUME Typed, NEW w \in Workers, NEW pc \in OnChannel, Goto(w, pc),
          wk[w].pc \in OnChannel, pc \in HasOwnOp => wk[w].op # 0
   PROVE  \E t \in WorkerStates :
             /\ Onward(w, t) /\ WorkerFits(t)
             /\ t.pc = pc /\ t.op = wk[w].op /\ t.sid = wk[w].sid /\ t.kind = wk[w].kind
<1>1. PICK r \in WorkerStates : r = wk[w]
  BY WorkerFacts
<1> DEFINE t == [r EXCEPT !.pc = pc]
<1>2. wk' = [wk EXCEPT ![w] = t]
  BY <1>1, WorkerFacts DEF Goto
<1>3. t \in WorkerStates /\ t.pc = pc /\ t.op = r.op /\ t.sid = r.sid /\ t.kind = r.kind
      /\ t.task = r.task /\ t.retries = r.retries /\ t.todo = r.todo
      /\ t.numbered = r.numbered /\ t.failures = r.failures
  BY DEF WorkerStates
<1> HIDE DEF t
<1>4. WorkerFits(t)
  BY <1>1, <1>3, WorkerFacts DEF WorkerFits
<1> QED
  BY <1>1, <1>2, <1>3, <1>4 DEF Onward

LEMMA AdvanceEffect ==
   ASSUME Typed, NEW w \in Workers, Advance(w), wk[w].pc \in OnChannel
   PROVE  \E t \in WorkerStates :
             /\ wk' = [wk EXCEPT ![w] = t] /\ WorkerFits(t)
             /\ t.task = wk[w].task /\ t.retries = wk[w].retries /\ t.op = 0 /\ t.sid = 0
             /\ \/ t.pc = "create" /\ t.kind = "sent"
                \/ t.pc = "check" /\ t.kind = "failed"
                \/ t.pc = "end"
<1>1. PICK r \in WorkerStates : r = wk[w]
  BY WorkerFacts
<1>2. PICK c : c = Chan(w) /\ c \in r.todo
  BY <1>1, WorkerFacts
<1>3. PICK f : f = r.failures + (IF r.kind = "failed" THEN 1 ELSE 0)
  OBVIOUS
<1>4. PICK rest \in SUBSET Channels : rest = r.todo \ {c}
  BY <1>1, WorkerFacts
<1>5. PICK pc : pc = IF rest = {} THEN "end" ELSE Begin(r.numbered)
  OBVIOUS
<1>6. PICK kind \in {"sent", "failed"} : kind = IF r.numbered THEN "sent" ELSE "failed"
  OBVIOUS
<1> DEFINE t == [r EXCEPT !.todo = rest, !.op = 0, !.sid = 0, !.failures = f,
                          !.kind = kind, !.pc = pc]
<1>7. wk' = [wk EXCEPT ![w] = t]
  BY <1>1, <1>2, <1>3, <1>4, <1>5, <1>6, WorkerFacts DEF Advance
<1>8. /\ f \in Nat /\ f + Left(rest) <= 2 /\ Left(rest) \in 0..2
  <2>1. r.failures \in Nat
    BY DEF WorkerStates
  <2>2. Left(rest) = Left(r.todo) - 1 /\ Left(rest) \in 0..2 /\ Left(r.todo) \in 0..2
    BY <1>1, <1>2, <1>4, SettingFacts, WorkerFacts DEF Typed, Chan
  <2>3. r.failures + Left(r.todo) <= 2
    BY <1>1, WorkerFacts
  <2>4. f \in {r.failures, r.failures + 1}
    BY <1>3, <2>1
  <2> QED
    BY <2>1, <2>2, <2>3, <2>4
<1>9. f \in 0..2
  BY <1>8
<1>10. pc \in {"create", "check", "end"}
       /\ (pc = "create" => kind = "sent") /\ (pc = "check" => kind = "failed")
       /\ (pc # "end" => rest # {})
  BY <1>5, <1>6 DEF Begin
<1>11. pc \in OnChannel \cup {"idle", "end"} /\ pc \notin HasOwnOp
  BY <1>10 DEF OnChannel, HasOwnOp
<1>12. t \in WorkerStates
  BY <1>9, <1>11 DEF WorkerStates
<1>13. t.pc = pc /\ t.op = 0 /\ t.sid = 0 /\ t.kind = kind /\ t.todo = rest /\ t.failures = f
       /\ t.task = r.task /\ t.retries = r.retries
  BY DEF WorkerStates
<1> HIDE DEF t
<1>14. WorkerFits(t)
  BY <1>8, <1>10, <1>11, <1>13, Numbers DEF WorkerFits, OnChannel
<1> QED
  BY <1>1, <1>7, <1>10, <1>12, <1>13, <1>14

LEMMA IdleFits ==
   ASSUME Typed
   PROVE  /\ Idle \in WorkerStates /\ WorkerFits(Idle)
          /\ Idle.pc = "idle" /\ Idle.op = 0 /\ Idle.sid = 0 /\ Idle.kind = "sent" /\ Idle.failures = 0
<1>1. Idle \in WorkerStates
  BY SettingFacts DEF Typed, Idle, WorkerStates
<1>2. Idle.pc = "idle" /\ Idle.op = 0 /\ Idle.sid = 0 /\ Idle.kind = "sent" /\ Idle.todo = {} /\ Idle.failures = 0
  BY DEF Idle
<1> QED
  BY <1>1, <1>2, Numbers DEF WorkerFits, OnChannel, HasOwnOp, Left

LEMMA StartEffect ==
   ASSUME Typed, NEW w \in Workers, Start(w)
   PROVE  \E m \in queue, t \in WorkerStates :
             /\ queue' = queue \ {m} /\ wk' = [wk EXCEPT ![w] = t] /\ WorkerFits(t)
             /\ t.task = m.task /\ t.op = 0 /\ t.sid = 0
             /\ \/ t.pc = "create" /\ t.kind = "sent"
                \/ t.pc = "check" /\ t.kind = "failed"
<1>1. PICK m \in queue :
         /\ queue' = queue \ {m}
         /\ wk' = [wk EXCEPT ![w] =
                     [Idle EXCEPT !.pc = Begin(phone), !.task = m.task, !.retries = m.retries,
                                  !.numbered = phone, !.todo = Channels,
                                  !.kind = IF phone THEN "sent" ELSE "failed"]]
  BY DEF Start
<1>2. m.task \in Tasks /\ m.retries \in 0..MaxRetries /\ phone \in BOOLEAN
  BY DEF Typed, WorkTyped, TaskMessages, SettingTyped
<1>3. PICK kind \in {"sent", "failed"} : kind = IF phone THEN "sent" ELSE "failed"
  OBVIOUS
<1>4. PICK pc \in {"create", "check"} : pc = Begin(phone)
  BY DEF Begin
<1>5. PICK r \in WorkerStates : r = Idle /\ r.op = 0 /\ r.sid = 0 /\ r.failures = 0
  BY IdleFits
<1> DEFINE t == [r EXCEPT !.pc = pc, !.task = m.task, !.retries = m.retries,
                          !.numbered = phone, !.todo = Channels, !.kind = kind]
<1>6. wk' = [wk EXCEPT ![w] = t]
  BY <1>1, <1>3, <1>4, <1>5
<1>7. t \in WorkerStates
  BY <1>2 DEF WorkerStates, OnChannel
<1>8. t.pc = pc /\ t.task = m.task /\ t.op = 0 /\ t.sid = 0 /\ t.kind = kind /\ t.todo = Channels
      /\ t.failures = 0
  BY <1>5 DEF WorkerStates
<1> HIDE DEF t
<1>9. WorkerFits(t)
  <2>1. Channels # {} /\ Left(Channels) \in 0..2
    BY SettingFacts DEF Typed
  <2> QED
    BY <1>8, <2>1, Numbers DEF WorkerFits, HasOwnOp
<1> QED
  BY <1>3, <1>4, <1>1, <1>6, <1>7, <1>8, <1>9 DEF Begin

LEMMA CreateEffect ==
   ASSUME Typed, NEW w \in Workers, CreateOperation(w)
   PROVE  /\ OpAdded(Chan(w))
          /\ \E t \in WorkerStates :
                /\ Onward(w, t) /\ t.pc = "look" /\ t.op = Len(ops) + 1
                /\ t.sid = wk[w].sid /\ t.kind = wk[w].kind
<1>1. PICK r \in WorkerStates : r = wk[w]
  BY WorkerFacts
<1>2. PICK k \in Nat : k = Len(ops) + 1
  BY Numbers
<1> DEFINE t == [r EXCEPT !.op = k, !.pc = "look"]
           n == [chan |-> Chan(w), status |-> "queued", sid |-> 0]
<1>3. wk' = [wk EXCEPT ![w] = t]
  BY <1>1, <1>2, WorkerFacts DEF CreateOperation, WorkerStates
<1>4. t \in WorkerStates /\ t.pc = "look" /\ t.op = k /\ t.sid = r.sid /\ t.kind = r.kind
      /\ t.task = r.task /\ t.retries = r.retries /\ t.todo = r.todo
      /\ t.numbered = r.numbered /\ t.failures = r.failures
  BY <1>2 DEF WorkerStates, OnChannel
<1>5. n \in OpRecords /\ n.chan = Chan(w) /\ n.sid = 0 /\ n.status = "queued"
  BY WorkerFacts DEF OpRecords, OpStatuses, CreateOperation, At, OnChannel
<1>6. ops' = Append(ops, n)
  BY DEF CreateOperation
<1> HIDE DEF t, n
<1> QED
  BY <1>1, <1>2, <1>3, <1>4, <1>5, <1>6 DEF Onward, OpAdded

\* The three outcomes of the call.
LEMMA SendEffect ==
   ASSUME Typed, NEW w \in Workers, Send(w)
   PROVE  /\ UNCHANGED <<ops, log, queue>>
          /\ \E t \in WorkerStates :
                /\ Onward(w, t) /\ t.op = wk[w].op /\ t.kind = wk[w].kind
                /\ \/ /\ Accept(w) /\ UNCHANGED lost
                      /\ t.pc = "record" /\ t.sid = Len(messages) + 1
                   \/ /\ UNCHANGED <<messages, lost>>
                      /\ t.pc = "fail" /\ t.sid = wk[w].sid
                   \/ /\ Accept(w) /\ Disturb("unanswered")
                      /\ t.pc = "fail" /\ t.sid = wk[w].sid
<1>0. wk[w].pc \in OnChannel /\ wk[w].op # 0
  BY WorkerFacts DEF Send, At, OnChannel, HasOwnOp
<1>1. CASE Accept(w) /\ wk' = [wk EXCEPT ![w].pc = "record", ![w].sid = Len(messages) + 1]
           /\ UNCHANGED lost
  <2>1. PICK r \in WorkerStates : r = wk[w]
    BY WorkerFacts
  <2>2. PICK k \in Nat : k = Len(messages) + 1
    BY Numbers
  <2> DEFINE t == [r EXCEPT !.pc = "record", !.sid = k]
  <2>3. wk' = [wk EXCEPT ![w] = t]
    BY <1>1, <2>1, <2>2, WorkerFacts DEF WorkerStates
  <2>4. t \in WorkerStates /\ t.pc = "record" /\ t.op = r.op /\ t.sid = k /\ t.kind = r.kind
        /\ t.task = r.task /\ t.retries = r.retries /\ t.todo = r.todo
        /\ t.numbered = r.numbered /\ t.failures = r.failures
    BY <2>2 DEF WorkerStates, OnChannel
  <2> HIDE DEF t
  <2> QED
    BY <1>1, <2>1, <2>2, <2>3, <2>4 DEF Onward, Send
<1>2. CASE Goto(w, "fail") /\ UNCHANGED <<messages, lost>>
  BY <1>0, <1>2, GotoEffect DEF Send, OnChannel
<1>3. CASE Accept(w) /\ Disturb("unanswered") /\ Goto(w, "fail")
  BY <1>0, <1>3, GotoEffect DEF Send, OnChannel
<1> QED
  BY <1>1, <1>2, <1>3 DEF Send

\* A write to one operation, as the code's updates make it.
LEMMA StatusWritten ==
   ASSUME Typed, NEW k \in 1..Len(ops), NEW s \in OpStatuses, ops' = [ops EXCEPT ![k].status = s]
   PROVE  OpWritten(k, s, ops[k].sid)
<1>1. PICK r \in OpRecords : r = ops[k]
  BY DEF Typed, StoreTyped
<1> DEFINE n == [r EXCEPT !.status = s]
<1>2. n \in OpRecords /\ n.chan = r.chan /\ n.sid = r.sid /\ n.status = s
  BY DEF OpRecords
<1>3. ops' = [ops EXCEPT ![k] = n]
  BY <1>1
<1> HIDE DEF n
<1> QED
  BY <1>1, <1>2, <1>3 DEF OpWritten

LEMMA RecordSentEffect ==
   ASSUME Typed, NEW w \in Workers, RecordSent(w)
   PROVE  OpWritten(wk[w].op, "sent", wk[w].sid)
<1> DEFINE k == wk[w].op
           q == wk[w].sid
<1>1. k \in 1..Len(ops) /\ q \in Nat
  BY WorkerFacts DEF RecordSent, At, HasOwnOp
<1>2. ops' = [ops EXCEPT ![k].status = "sent", ![k].sid = q]
  BY DEF RecordSent
<1>3. PICK r \in OpRecords : r = ops[k]
  BY <1>1 DEF Typed, StoreTyped
<1> HIDE DEF k, q
<1> DEFINE n == [r EXCEPT !.status = "sent", !.sid = q]
<1>4. n \in OpRecords /\ n.chan = r.chan /\ n.sid = q /\ n.status = "sent"
  BY <1>1 DEF OpRecords, OpStatuses
<1>5. ops \in Seq(OpRecords)
  BY DEF Typed, StoreTyped
<1>6. ops' = [ops EXCEPT ![k] = n]
  BY <1>1, <1>2, <1>3, <1>5 DEF OpRecords
<1> HIDE DEF n
<1>7. OpWritten(k, "sent", q)
  BY <1>3, <1>4, <1>6 DEF OpWritten
<1> QED
  BY <1>7 DEF k, q

LEMMA RecordFailedEffect ==
   ASSUME Typed, NEW w \in Workers, RecordFailed(w)
   PROVE  /\ OpWritten(wk[w].op, "failed", ops[wk[w].op].sid)
          /\ \E t \in WorkerStates :
                /\ Onward(w, t) /\ WorkerFits(t)
                /\ t.pc = "check" /\ t.op = wk[w].op /\ t.sid = wk[w].sid /\ t.kind = "failed"
<1>1. wk[w].op \in 1..Len(ops) /\ wk[w].todo # {}
  BY WorkerFacts DEF RecordFailed, At, HasOwnOp, OnChannel
<1>2. OpWritten(wk[w].op, "failed", ops[wk[w].op].sid)
  BY <1>1, StatusWritten DEF RecordFailed, OpStatuses
<1>3. PICK r \in WorkerStates : r = wk[w]
  BY WorkerFacts
<1> DEFINE t == [r EXCEPT !.pc = "check", !.kind = "failed"]
<1>4. wk' = [wk EXCEPT ![w] = t]
  BY <1>3, WorkerFacts DEF RecordFailed, WorkerStates
<1>5. t \in WorkerStates /\ t.pc = "check" /\ t.op = r.op /\ t.sid = r.sid /\ t.kind = "failed"
      /\ t.task = r.task /\ t.retries = r.retries /\ t.todo = r.todo
      /\ t.numbered = r.numbered /\ t.failures = r.failures
  BY DEF WorkerStates, OnChannel
<1> HIDE DEF t
<1>6. WorkerFits(t)
  BY <1>1, <1>3, <1>5, WorkerFacts DEF WorkerFits, HasOwnOp
<1> QED
  BY <1>2, <1>3, <1>4, <1>5, <1>6 DEF Onward
-----------------------------------------------------------------------------
(* What the steps of a webhook request do to its own state. *)

HandlerTurn(h) ==
   \E x \in HandlerStates :
      /\ hd' = [hd EXCEPT ![h] = x]
      /\ x.hook <= Len(hooks') /\ x.op <= Len(ops)
      /\ \/ x.pc = "free" /\ x.cb = <<0, "sent">>
         \/ x.cb \in callbacks
         \/ hd[h].pc # "free" /\ x.cb = hd[h].cb
      /\ x.pc = "apply" => /\ x.op # 0 /\ ops[x.op].sid = x.cb[1] /\ x.cb[2] \in OpStatuses

HooksGoOn ==
   /\ hooks' \in Seq(HookRecords) /\ Len(hooks) <= Len(hooks')
   /\ \A i \in 1..Len(hooks') : hooks'[i].cb[1] <= Len(messages)

LEMMA HandlerFacts ==
   ASSUME Typed, NEW h \in Handlers
   PROVE  /\ hd[h] \in HandlerStates /\ hd \in [Handlers -> HandlerStates]
          /\ hd[h].cb \in Nat \X (Reported \cup {"sent"})
          /\ hd[h].cb[1] <= Len(messages)
          /\ hd[h].pc # "free" => hd[h].cb \in (Nat \ {0}) \X Reported
          /\ hd[h].hook \in Nat /\ hd[h].hook <= Len(hooks)
          /\ hd[h].op \in Nat /\ hd[h].op <= Len(ops)
          /\ hd[h].pc = "apply" => hd[h].op \in 1..Len(ops) /\ hd[h].cb[2] \in OpStatuses
<1>1. hd[h] \in HandlerStates /\ hd \in [Handlers -> HandlerStates] /\ HandlerFits(hd[h])
  BY DEF Typed, HookTyped
<1>2. hd[h].cb \in Nat \X (Reported \cup {"sent"}) /\ hd[h].hook \in Nat /\ hd[h].op \in Nat
  BY <1>1 DEF HandlerStates
<1>3. hd[h].pc # "free" => hd[h].cb \in (Nat \ {0}) \X Reported
  BY <1>1, <1>2 DEF HandlerFits
<1> QED
  BY <1>1, <1>2, <1>3, Numbers DEF HandlerFits

LEMMA HooksStay ==
   ASSUME Typed, UNCHANGED hooks
   PROVE  HooksGoOn
BY Numbers DEF Typed, HookTyped, HooksGoOn

LEMMA TurnTaken ==
   ASSUME Typed, NEW h \in Handlers, NEW x \in HandlerStates,
          hd' = [hd EXCEPT ![h] = x],
          x.hook <= Len(hooks'), x.op <= Len(ops),
          \/ x.pc = "free" /\ x.cb = <<0, "sent">>
          \/ x.cb \in callbacks
          \/ hd[h].pc # "free" /\ x.cb = hd[h].cb,
          x.pc = "apply" => /\ x.op # 0 /\ ops[x.op].sid = x.cb[1] /\ x.cb[2] \in OpStatuses
   PROVE  HandlerTurn(h)
BY DEF HandlerTurn

LEMMA FreeTurn ==
   ASSUME Typed, NEW h \in Handlers, Release(h), HooksGoOn
   PROVE  HandlerTurn(h)
<1>1. PICK x \in HandlerStates : x = Free
  BY DEF Free, HandlerStates, Outcome, OpStatuses
<1>2. x.hook = 0 /\ x.op = 0 /\ x.pc = "free" /\ x.cb = <<0, "sent">>
  BY <1>1 DEF Free
<1>3. hd' = [hd EXCEPT ![h] = x]
  BY <1>1 DEF Release
<1>4. Len(hooks') \in Nat /\ Len(ops) \in Nat
  BY Numbers DEF HooksGoOn
<1>5. x.hook <= Len(hooks') /\ x.op <= Len(ops)
  BY <1>2, <1>4
<1> QED
  BY <1>1, <1>2, <1>3, <1>5, TurnTaken

\* A request arrives.
LEMMA ReceiveEffect ==
   ASSUME Typed, NEW h \in Handlers, NEW cb \in callbacks,
          Receive(h, cb) \/ ReceiveBadSignature(h, cb)
   PROVE  HandlerTurn(h) /\ HooksGoOn
<1>1. PICK pc \in {"lookup", "reject"} : hd' = [hd EXCEPT ![h] = [Free EXCEPT !.pc = pc, !.cb = cb]]
  BY DEF Receive, ReceiveBadSignature
<1>2. PICK r \in HandlerStates : r = Free
  BY DEF Free, HandlerStates, Outcome, OpStatuses
<1>0. r.hook = 0 /\ r.op = 0
  BY <1>2 DEF Free
<1>3. cb \in Nat \X (Reported \cup {"sent"})
  BY DEF Typed, HookTyped
<1> DEFINE x == [r EXCEPT !.pc = pc, !.cb = cb]
<1>4. x \in HandlerStates /\ x.pc = pc /\ x.cb = cb /\ x.hook = 0 /\ x.op = 0
  BY <1>0, <1>3 DEF HandlerStates, Outcome
<1>5. hd' = [hd EXCEPT ![h] = x] /\ UNCHANGED hooks
  BY <1>1, <1>2 DEF Receive, ReceiveBadSignature
<1> HIDE DEF x
<1>6. Len(hooks') \in Nat /\ Len(ops) \in Nat
  BY <1>5, Numbers
<1>7. x.hook <= Len(hooks') /\ x.op <= Len(ops) /\ x.pc # "apply" /\ x.cb \in callbacks
  BY <1>1, <1>4, <1>6
<1>8. HandlerTurn(h)
  BY <1>4, <1>5, <1>7, TurnTaken
<1> QED
  BY <1>5, <1>8, HooksStay

\* A row is inserted for the request.
LEMMA HookAdded ==
   ASSUME Typed, NEW h \in Handlers, hd[h].pc # "free",
          NEW s \in {"received", "ignored"}, NEW o \in {"none", "duplicate"},
          AddHook(Hook(hd[h].cb, s, o))
   PROVE  HooksGoOn /\ Len(hooks') = Len(hooks) + 1
<1>1. PICK cb \in (Nat \ {0}) \X Reported : cb = hd[h].cb /\ cb[1] <= Len(messages)
  BY HandlerFacts
<1> DEFINE n == [cb |-> cb, status |-> s, outcome |-> o]
<1>2. s \in {"received"} \cup {Outcome[pc][1] : pc \in DOMAIN Outcome}
  BY DEF Outcome
<1>3. n \in HookRecords /\ n.cb = cb
  BY <1>2 DEF HookRecords
<1>4. hooks' = Append(hooks, n)
  BY <1>1 DEF AddHook, Hook
<1> HIDE DEF n
<1>5. hooks \in Seq(HookRecords) /\ \A i \in 1..Len(hooks) : hooks[i].cb[1] <= Len(messages)
  BY DEF Typed, HookTyped
<1>6. /\ hooks' \in Seq(HookRecords) /\ Len(hooks') = Len(hooks) + 1 /\ Len(hooks) \in Nat
      /\ \A i \in 1..Len(hooks) : hooks'[i] = hooks[i]
      /\ hooks'[Len(hooks) + 1] = n
  BY <1>3, <1>4, <1>5, AppendFacts
<1>7. ASSUME NEW i \in 1..Len(hooks')
      PROVE  hooks'[i].cb[1] <= Len(messages)
  <2>1. i \in 1..Len(hooks) \/ i = Len(hooks) + 1
    BY <1>6
  <2> QED
    BY <1>1, <1>3, <1>5, <1>6, <2>1
<1> QED
  BY <1>6, <1>7 DEF HooksGoOn

LEMMA InsertEffect ==
   ASSUME Typed, NEW h \in Handlers, Reject(h) \/ Persist(h)
   PROVE  HandlerTurn(h) /\ HooksGoOn
<1>1. PICK pc \in {"refuse", "find"} : hd' = [hd EXCEPT ![h].pc = pc, ![h].hook = Len(hooks) + 1]
  BY DEF Reject, Persist
<1>2. hd[h].pc # "free" /\ AddHook(Hook(hd[h].cb, "received", "none"))
  BY DEF Reject, Persist
<1>3. HooksGoOn /\ Len(hooks') = Len(hooks) + 1
  BY <1>2, HookAdded
<1>4. PICK r \in HandlerStates : r = hd[h]
  BY HandlerFacts
<1>5. PICK k \in Nat : k = Len(hooks) + 1
  BY Numbers
<1> DEFINE x == [r EXCEPT !.pc = pc, !.hook = k]
<1>6. x \in HandlerStates /\ x.pc = pc /\ x.cb = r.cb /\ x.hook = k /\ x.op = r.op
  BY DEF HandlerStates, Outcome
<1>7. hd' = [hd EXCEPT ![h] = x]
  BY <1>1, <1>4, <1>5, HandlerFacts DEF HandlerStates
<1> HIDE DEF x
<1>8. r.op <= Len(ops) /\ k <= Len(hooks')
  BY <1>3, <1>4, <1>5, HandlerFacts
<1>9. HandlerTurn(h)
  BY <1>2, <1>4, <1>6, <1>7, <1>8, TurnTaken
<1> QED
  BY <1>3, <1>9

\* The request goes on without a row.
LEMMA PassEffect ==
   ASSUME Typed, NEW h \in Handlers,
          NEW pc \in {"duplicate", "persist", "orphan", "unsupported", "settle"},
          hd[h].pc # "free", hd' = [hd EXCEPT ![h].pc = pc], UNCHANGED hooks
   PROVE  HandlerTurn(h) /\ HooksGoOn
<1>1. PICK r \in HandlerStates : r = hd[h]
  BY HandlerFacts
<1> DEFINE x == [r EXCEPT !.pc = pc]
<1>2. x \in HandlerStates /\ x.pc = pc /\ x.cb = r.cb /\ x.hook = r.hook /\ x.op = r.op
  BY DEF HandlerStates, Outcome
<1>3. hd' = [hd EXCEPT ![h] = x]
  BY <1>1, HandlerFacts
<1> HIDE DEF x
<1>4. HandlerTurn(h)
  BY <1>1, <1>2, <1>3, HandlerFacts DEF HandlerTurn
<1> QED
  BY <1>4, HooksStay

LEMMA FindEffect ==
   ASSUME Typed, NEW h \in Handlers, FindOperation(h)
   PROVE  HandlerTurn(h) /\ HooksGoOn
<1> DEFINE hits == {i \in 1..Len(ops) : ops[i].sid = hd[h].cb[1]}
<1>1. hd[h].pc # "free" /\ UNCHANGED hooks
  BY DEF FindOperation
<1>2. PICK r \in HandlerStates : r = hd[h]
  BY HandlerFacts
<1>3. hd' = [hd EXCEPT ![h] =
               IF hits = {} THEN [r EXCEPT !.pc = "orphan"]
               ELSE IF r.cb[2] \notin status_map THEN [r EXCEPT !.pc = "unsupported"]
               ELSE [r EXCEPT !.pc = "apply", !.op = CHOOSE i \in hits : TRUE,
                              !.seen = ops[CHOOSE i \in hits : TRUE].status]]
  BY <1>2, HandlerFacts DEF FindOperation
<1>4. CASE hits = {} \/ r.cb[2] \notin status_map
  <2>1. PICK pc \in {"orphan", "unsupported"} : hd' = [hd EXCEPT ![h] = [r EXCEPT !.pc = pc]]
    BY <1>3, <1>4
  <2>2. hd' = [hd EXCEPT ![h].pc = pc]
    BY <1>2, <2>1, HandlerFacts
  <2> QED
    BY <1>1, <2>2, PassEffect
<1>5. CASE hits # {} /\ r.cb[2] \in status_map
  <2>1. PICK k \in hits : k = CHOOSE i \in hits : TRUE
    BY <1>5
  <2>2. k \in 1..Len(ops) /\ ops[k].sid = r.cb[1]
    BY <1>2, <2>1
  <2>3. PICK s \in OpStatuses : s = ops[k].status
    <3>1. ops[k] \in OpRecords
      BY <2>2 DEF Typed, StoreTyped
    <3> QED
      BY <3>1 DEF OpRecords
  <2> DEFINE x == [r EXCEPT !.pc = "apply", !.op = k, !.seen = s]
  <2>4. hd' = [hd EXCEPT ![h] = x]
    BY <1>3, <1>5, <2>1, <2>3
  <2>5. x \in HandlerStates /\ x.pc = "apply" /\ x.cb = r.cb /\ x.hook = r.hook /\ x.op = k
    <3>1. k \in Nat
      BY <2>2, Numbers
    <3> HIDE DEF hits
    <3> QED
      BY <3>1 DEF HandlerStates
  <2> HIDE DEF x, hits
  <2>6. /\ k # 0 /\ k <= Len(ops) /\ r.hook <= Len(hooks') /\ r.cb[2] \in OpStatuses
    BY <1>1, <1>2, <1>5, <2>2, HandlerFacts, Numbers DEF status_map
  <2>7. HandlerTurn(h)
    BY <1>1, <1>2, <2>2, <2>4, <2>5, <2>6, TurnTaken
  <2> QED
    BY <1>1, <2>7, HooksStay
<1> QED
  BY <1>4, <1>5

LEMMA SettleEffect ==
   ASSUME Typed, NEW h \in Handlers, Settle(h)
   PROVE  HandlerTurn(h) /\ HooksGoOn
<1>1. PICK k \in Nat : k = hd[h].hook
  BY HandlerFacts
<1>2. PICK p \in DOMAIN Outcome : p = hd[h].pc
  BY DEF Settle
<1>3. PICK st, oc : st = Outcome[p][1] /\ oc = Outcome[p][2]
  OBVIOUS
<1>4. hooks' = [hooks EXCEPT ![k].status = st, ![k].outcome = oc]
  BY <1>1, <1>2, <1>3 DEF Settle
<1>5. hooks \in Seq(HookRecords) /\ \A i \in 1..Len(hooks) : hooks[i].cb[1] <= Len(messages)
  BY DEF Typed, HookTyped
<1>6. HooksGoOn
  <2>1. CASE k \notin 1..Len(hooks)
    <3>1. hooks' = hooks
      BY <1>4, <1>5, <2>1
    <3> QED
      BY <3>1, HooksStay
  <2>2. CASE k \in 1..Len(hooks)
    <3>1. PICK r \in HookRecords : r = hooks[k] /\ r.cb[1] <= Len(messages)
      BY <1>5, <2>2
    <3> DEFINE n == [r EXCEPT !.status = st, !.outcome = oc]
    <3>2. n \in HookRecords /\ n.cb = r.cb
      <4> DEFINE sts == {"received"} \cup {Outcome[pc][1] : pc \in DOMAIN Outcome}
                 ocs == {"none", "duplicate"} \cup {Outcome[pc][2] : pc \in DOMAIN Outcome}
      <4>1. st \in sts /\ oc \in ocs
        BY <1>3
      <4>2. HookRecords = [cb : (Nat \ {0}) \X Reported, status : sts, outcome : ocs]
        BY DEF HookRecords
      <4> HIDE DEF sts, ocs
      <4> QED
        BY <4>1, <4>2
    <3>3. hooks' = [hooks EXCEPT ![k] = n]
      BY <1>4, <1>5, <2>2, <3>1 DEF HookRecords
    <3> HIDE DEF n
    <3>4. /\ hooks' \in Seq(HookRecords) /\ Len(hooks') = Len(hooks) /\ hooks'[k] = n
          /\ \A i \in 1..Len(hooks) : i # k => hooks'[i] = hooks[i]
      BY <1>5, <2>2, <3>2, <3>3, ReplaceFacts
    <3>5. Len(hooks) <= Len(hooks')
      BY <3>4, Numbers
    <3>6. \A i \in 1..Len(hooks') : hooks'[i].cb[1] <= Len(messages)
      BY <1>5, <3>1, <3>2, <3>4
    <3> QED
      BY <3>4, <3>5, <3>6 DEF HooksGoOn
  <2> QED
    BY <2>1, <2>2
<1> QED
  BY <1>6, FreeTurn DEF Settle

\* Every step of a request.
LEMMA HandlerEffect ==
   ASSUME Typed, NEW h \in Handlers,
          \/ \E cb \in callbacks : Receive(h, cb) \/ ReceiveBadSignature(h, cb)
          \/ HandlerStep(h) \/ HandlerCrash(h)
   PROVE  HandlerTurn(h) /\ HooksGoOn
<1>1. CASE LookupKey(h)
  BY <1>1, PassEffect DEF LookupKey
<1>2. CASE Apply(h)
  BY <1>2, PassEffect DEF Apply
<1>3. CASE AnswerDuplicate(h)
  <2>1. HooksGoOn
    BY <1>3, HookAdded DEF AnswerDuplicate
  <2> QED
    BY <1>3, <2>1, FreeTurn DEF AnswerDuplicate
<1>4. CASE HandlerCrash(h)
  BY <1>4, HooksStay, FreeTurn DEF HandlerCrash
<1> QED
  BY <1>1, <1>2, <1>3, <1>4, ReceiveEffect, InsertEffect, FindEffect, SettleEffect DEF HandlerStep
-----------------------------------------------------------------------------
(* What is written to the tables. *)

LEMMA OpAddedFacts ==
   ASSUME Typed, NEW c, OpAdded(c)
   PROVE  /\ ops' \in Seq(OpRecords) /\ Len(ops') = Len(ops) + 1 /\ Len(ops) \in Nat
          /\ \A k \in 1..Len(ops) : ops'[k] = ops[k]
          /\ ops'[Len(ops) + 1].chan = c /\ ops'[Len(ops) + 1].sid = 0
          /\ ops'[Len(ops) + 1].status = "queued"
          /\ \A k \in 1..Len(ops') : k \in 1..Len(ops) \/ k = Len(ops) + 1
<1>1. PICK n \in OpRecords : n.chan = c /\ n.sid = 0 /\ n.status = "queued" /\ ops' = Append(ops, n)
  BY DEF OpAdded
<1>2. ops \in Seq(OpRecords)
  BY DEF Typed, StoreTyped
<1>3. /\ ops' \in Seq(OpRecords) /\ Len(ops') = Len(ops) + 1 /\ Len(ops) \in Nat
      /\ \A k \in 1..Len(ops) : ops'[k] = ops[k]
      /\ ops'[Len(ops) + 1] = n
  BY <1>1, <1>2, AppendFacts
<1> QED
  BY <1>1, <1>3

LEMMA OpWrittenFacts ==
   ASSUME Typed, NEW k \in 1..Len(ops), NEW status, NEW sid, OpWritten(k, status, sid)
   PROVE  /\ ops' \in Seq(OpRecords) /\ Len(ops') = Len(ops) /\ Len(ops) \in Nat
          /\ \A i \in 1..Len(ops) : i # k => ops'[i] = ops[i]
          /\ ops'[k].chan = ops[k].chan /\ ops'[k].status = status /\ ops'[k].sid = sid
<1>1. PICK n \in OpRecords :
         /\ n.chan = ops[k].chan /\ n.sid = sid /\ n.status = status
         /\ ops' = [ops EXCEPT ![k] = n]
  BY DEF OpWritten
<1>2. ops \in Seq(OpRecords)
  BY DEF Typed, StoreTyped
<1> QED
  BY <1>1, <1>2, ReplaceFacts

LEMMA AcceptFacts ==
   ASSUME Typed, NEW w \in Workers, Accept(w), wk[w].pc \in OnChannel
   PROVE  /\ messages' \in Seq(MessageRecords) /\ Len(messages') = Len(messages) + 1
          /\ Len(messages) \in Nat
          /\ \A m \in 1..Len(messages) : messages'[m] = messages[m]
          /\ messages'[Len(messages) + 1].chan = Chan(w)
          /\ \A m \in 1..Len(messages') : m \in 1..Len(messages) \/ m = Len(messages) + 1
<1> DEFINE n == [chan |-> Chan(w), status |-> "accepted"]
<1>1. n \in MessageRecords /\ n.chan = Chan(w)
  BY WorkerFacts DEF MessageRecords
<1>2. messages \in Seq(MessageRecords) /\ messages' = Append(messages, n)
  BY DEF Typed, StoreTyped, Accept
<1> HIDE DEF n
<1>3. /\ messages' \in Seq(MessageRecords) /\ Len(messages') = Len(messages) + 1
      /\ Len(messages) \in Nat
      /\ \A m \in 1..Len(messages) : messages'[m] = messages[m]
      /\ messages'[Len(messages) + 1] = n
  BY <1>1, <1>2, AppendFacts
<1> QED
  BY <1>1, <1>3

LEMMA ProgressFacts ==
   ASSUME Typed, NEW m \in 1..Len(messages), ProviderProgress(m)
   PROVE  /\ messages[m].status \notin Final
          /\ messages' \in Seq(MessageRecords) /\ Len(messages') = Len(messages)
          /\ \A i \in 1..Len(messages) : i # m => messages'[i] = messages[i]
          /\ messages'[m].chan = messages[m].chan
          /\ callbacks' \subseteq callbacks
                \cup (IF messages'[m].status \in Reported THEN {<<m, messages'[m].status>>} ELSE {})
<1>1. PICK s \in Progress[messages[m].status] :
         /\ messages' = [messages EXCEPT ![m].status = s]
         /\ callbacks' = IF s \in Reported THEN callbacks \cup {<<m, s>>} ELSE callbacks
  BY DEF ProviderProgress
<1>2. messages[m].status \in {"accepted", "sending", "sent"}
  BY DEF ProviderProgress, Progress
<1>3. s \in OpStatuses \cup {"accepted", "sending"}
  BY <1>1, <1>2 DEF Progress, OpStatuses
<1>4. messages \in Seq(MessageRecords)
  BY DEF Typed, StoreTyped
<1>5. PICK r \in MessageRecords : r = messages[m]
  BY <1>4
<1> DEFINE n == [r EXCEPT !.status = s]
<1>6. n \in MessageRecords /\ n.chan = r.chan /\ n.status = s
  BY <1>3 DEF MessageRecords
<1>7. messages' = [messages EXCEPT ![m] = n]
  BY <1>1, <1>5
<1> HIDE DEF n
<1>8. /\ messages' \in Seq(MessageRecords) /\ Len(messages') = Len(messages)
      /\ \A i \in 1..Len(messages) : i # m => messages'[i] = messages[i]
      /\ messages'[m] = n
  BY <1>4, <1>6, <1>7, ReplaceFacts
<1>9. callbacks' \subseteq callbacks \cup (IF s \in Reported THEN {<<m, s>>} ELSE {})
  BY <1>1
<1> QED
  BY <1>2, <1>5, <1>6, <1>8, <1>9 DEF Final

\* The tables only grow; an id, once stored, and an end, once reached, stay.
OpsGrow ==
   /\ Len(ops) <= Len(ops')
   /\ \A k \in 1..Len(ops) :
         /\ ops'[k].chan = ops[k].chan
         /\ ops[k].sid # 0 => ops'[k].sid = ops[k].sid
MessagesGrow ==
   /\ Len(messages) <= Len(messages')
   /\ \A m \in 1..Len(messages) :
         /\ messages'[m].chan = messages[m].chan
         /\ messages[m].status \in Final => messages'[m].status = messages[m].status

\* An operation is written only by the worker whose operation it is, or by a
\* callback, which leaves the id alone.
OpsGoOn ==
   /\ ops' \in Seq(OpRecords) /\ OpsGrow
   /\ \A k \in 1..Len(ops') : ops'[k].sid <= Len(messages')
-----------------------------------------------------------------------------
(* Type correctness. *)

LEMMA OpsStay ==
   ASSUME Typed, UNCHANGED ops, MessagesGrow, Len(messages') \in Nat
   PROVE  OpsGoOn
<1>1. ops \in Seq(OpRecords) /\ \A k \in 1..Len(ops) : ops[k].sid <= Len(messages)
  BY DEF Typed, StoreTyped
<1>2. \A k \in 1..Len(ops) : ops[k].sid \in Nat
  <2>1. \A k \in 1..Len(ops) : ops[k] \in OpRecords
    BY <1>1
  <2> QED
    BY <2>1 DEF OpRecords
<1> QED
  BY <1>1, <1>2, Numbers DEF OpsGoOn, OpsGrow, MessagesGrow

LEMMA OpAddedGoesOn ==
   ASSUME Typed, NEW c, OpAdded(c), UNCHANGED messages
   PROVE  OpsGoOn
<1>1. \A k \in 1..Len(ops) : ops[k].sid <= Len(messages)
  BY DEF Typed, StoreTyped
<1>2. OpsGrow
  BY OpAddedFacts DEF OpsGrow
<1>3. \A k \in 1..Len(ops') : ops'[k].sid <= Len(messages')
  BY <1>1, OpAddedFacts, Numbers
<1> QED
  BY <1>2, <1>3, OpAddedFacts DEF OpsGoOn

LEMMA OpWrittenGoesOn ==
   ASSUME Typed, NEW k \in 1..Len(ops), NEW status, NEW sid, OpWritten(k, status, sid),
          sid = ops[k].sid \/ ops[k].sid = 0, sid <= Len(messages), UNCHANGED messages
   PROVE  OpsGoOn
<1>1. \A i \in 1..Len(ops) : ops[i].sid <= Len(messages)
  BY DEF Typed, StoreTyped
<1>2. OpsGrow
  BY OpWrittenFacts DEF OpsGrow
<1>3. \A i \in 1..Len(ops') : ops'[i].sid <= Len(messages')
  BY <1>1, OpWrittenFacts
<1> QED
  BY <1>2, <1>3, OpWrittenFacts DEF OpsGoOn

LEMMA MessagesStay ==
   ASSUME Typed, UNCHANGED messages
   PROVE  MessagesGrow /\ Len(messages') \in Nat /\ messages' \in Seq(MessageRecords)
BY Numbers DEF MessagesGrow, Typed, StoreTyped

LEMMA AcceptGrows ==
   ASSUME Typed, NEW w \in Workers, Accept(w), wk[w].pc \in OnChannel
   PROVE  MessagesGrow /\ Len(messages') \in Nat
BY AcceptFacts DEF MessagesGrow

LEMMA ProgressGrows ==
   ASSUME Typed, NEW m \in 1..Len(messages), ProviderProgress(m)
   PROVE  MessagesGrow /\ Len(messages') \in Nat
<1>1. Len(messages) \in Nat
  BY Numbers
<1>2. \A i \in 1..Len(messages) :
         /\ messages'[i].chan = messages[i].chan
         /\ messages[i].status \in Final => messages'[i].status = messages[i].status
  BY ProgressFacts
<1>3. Len(messages') = Len(messages)
  BY ProgressFacts
<1> QED
  BY <1>1, <1>2, <1>3 DEF MessagesGrow

\* What each part's types need of a step.
LEMMA StoreTypedStep ==
   ASSUME Typed, setting' = setting, OpsGoOn, MessagesGrow,
          messages' \in Seq(MessageRecords),
          \/ UNCHANGED log
          \/ \E w \in Workers : EmitOnceWrite(w)
   PROVE  StoreTyped'
<1>1. Len(messages) \in Nat /\ Len(messages') \in Nat /\ Len(messages) <= Len(messages')
  BY Numbers DEF MessagesGrow
<1>2. log \in Seq(LogRecords) /\ \A i \in 1..Len(log) : log[i].sid <= Len(messages)
  BY DEF Typed, StoreTyped
<1>3. \A i \in 1..Len(log) : log[i].sid \in Nat
  <2>1. \A i \in 1..Len(log) : log[i] \in LogRecords
    BY <1>2
  <2> QED
    BY <2>1 DEF LogRecords
<1>4. log' \in Seq(LogRecords) /\ \A i \in 1..Len(log') : log'[i].sid <= Len(messages')
  <2>1. CASE UNCHANGED log
    BY <1>1, <1>2, <1>3, <2>1
  <2>2. ASSUME NEW w \in Workers, EmitOnceWrite(w)
        PROVE  log' \in Seq(LogRecords) /\ \A i \in 1..Len(log') : log'[i].sid <= Len(messages')
    <3> DEFINE n == [kind |-> wk[w].kind, chan |-> Chan(w), sid |-> wk[w].sid]
    <3>1. wk[w].kind \in {"sent", "failed"} /\ wk[w].sid \in Nat /\ wk[w].sid <= Len(messages)
          /\ Chan(w) \in Channels
      BY <2>2, WorkerFacts DEF WorkerStates, EmitOnceWrite, At, OnChannel
    <3>2. n \in LogRecords /\ n.sid <= Len(messages) /\ n.sid \in Nat
      BY <3>1 DEF LogRecords
    <3>3. log' = Append(log, n)
      BY <2>2 DEF EmitOnceWrite
    <3> HIDE DEF n
    <3>4. /\ log' \in Seq(LogRecords) /\ Len(log') = Len(log) + 1 /\ Len(log) \in Nat
          /\ \A i \in 1..Len(log) : log'[i] = log[i]
          /\ log'[Len(log) + 1] = n
      BY <1>2, <3>2, <3>3, AppendFacts
    <3>5. ASSUME NEW i \in 1..Len(log')
          PROVE  log'[i].sid <= Len(messages')
      <4>1. i \in 1..Len(log) \/ i = Len(log) + 1
        BY <3>4
      <4> QED
        BY <1>1, <1>2, <1>3, <3>2, <3>4, <4>1
    <3> QED
      BY <3>4, <3>5
  <2> QED
    BY <2>1, <2>2
<1>5. OpRecords' = OpRecords /\ LogRecords' = LogRecords /\ MessageRecords' = MessageRecords
  BY SettingStays
<1>6. messages' \in Seq(MessageRecords')
  BY <1>5
<1>7. ops' \in Seq(OpRecords') /\ \A k \in 1..Len(ops') : ops'[k].sid <= Len(messages')
  BY <1>5 DEF OpsGoOn
<1>8. log' \in Seq(LogRecords') /\ \A i \in 1..Len(log') : log'[i].sid <= Len(messages')
  BY <1>4, <1>5
<1> QED
  BY <1>6, <1>7, <1>8 DEF StoreTyped

LEMMA WorkTypedStep ==
   ASSUME Typed, setting' = setting, OpsGoOn, MessagesGrow, Len(messages') \in Nat,
          queue' \subseteq TaskMessages, dead' \subseteq Tasks,
          \/ UNCHANGED wk
          \/ \E w \in Workers, t \in WorkerStates :
                wk' = [wk EXCEPT ![w] = t] /\ WorkerFits(t)'
   PROVE  WorkTyped'
<1>1. /\ Len(ops) \in Nat /\ Len(ops') \in Nat /\ Len(ops) <= Len(ops')
      /\ Len(messages) \in Nat /\ Len(messages) <= Len(messages')
  BY Numbers DEF OpsGoOn, OpsGrow, MessagesGrow
<1>2. wk' \in [Workers -> WorkerStates] /\ wk \in [Workers -> WorkerStates]
  BY DEF Typed, WorkTyped
<1>3. ASSUME NEW v \in Workers, wk'[v] = wk[v]
      PROVE  WorkerFits(wk[v])'
  <2>1. WorkerFits(wk[v]) /\ wk[v].op \in Nat /\ wk[v].sid \in Nat
    BY WorkerFacts DEF Typed, WorkTyped
  <2> QED
    BY <1>1, <1>3, <2>1 DEF WorkerFits
<1>4. \A v \in Workers : WorkerFits(wk[v])'
  <2>1. CASE UNCHANGED wk
    BY <1>3, <2>1
  <2>2. ASSUME NEW w \in Workers, NEW t \in WorkerStates, wk' = [wk EXCEPT ![w] = t], WorkerFits(t)'
        PROVE  \A v \in Workers : WorkerFits(wk[v])'
    <3>1. wk'[w] = t /\ \A v \in Workers : v # w => wk'[v] = wk[v]
      BY <1>2, <2>2
    <3>2. WorkerFits(wk[w])'
      BY <2>2, <3>1 DEF WorkerFits
    <3> QED
      BY <1>3, <3>1, <3>2
  <2> QED
    BY <2>1, <2>2
<1>5. TaskMessages' = TaskMessages /\ WorkerStates' = WorkerStates
  BY SettingStays
<1> QED
  BY <1>2, <1>4, <1>5 DEF WorkTyped

LEMMA HookTypedStep ==
   ASSUME Typed, setting' = setting, OpsGoOn, MessagesGrow, Len(messages') \in Nat, HooksGoOn,
          callbacks' \subseteq (Nat \ {0}) \X Reported,
          \A cb \in callbacks' : cb[1] <= Len(messages'),
          UNCHANGED hd \/ \E h \in Handlers : HandlerTurn(h)
   PROVE  HookTyped'
<1>1. /\ Len(ops) \in Nat /\ Len(ops') \in Nat /\ Len(ops) <= Len(ops')
      /\ Len(messages) \in Nat /\ Len(messages) <= Len(messages')
      /\ Len(hooks) \in Nat /\ Len(hooks') \in Nat /\ Len(hooks) <= Len(hooks')
  BY Numbers DEF OpsGoOn, OpsGrow, MessagesGrow, HooksGoOn
<1>2. Reported' = Reported /\ HookRecords' = HookRecords /\ HandlerStates' = HandlerStates
  BY SettingStays
<1>3. \A i \in 1..Len(hooks') : hooks'[i].cb[1] <= Len(messages')
  <2>1. ASSUME NEW i \in 1..Len(hooks')
        PROVE  hooks'[i].cb[1] <= Len(messages')
    <3>1. hooks'[i] \in HookRecords /\ hooks'[i].cb[1] <= Len(messages)
      BY DEF HooksGoOn
    <3>2. hooks'[i].cb[1] \in Nat
      BY <3>1 DEF HookRecords
    <3> QED
      BY <1>1, <3>1, <3>2
  <2> QED
    BY <2>1
<1>4. hd' \in [Handlers -> HandlerStates] /\ hd \in [Handlers -> HandlerStates]
  <2>1. hd \in [Handlers -> HandlerStates]
    BY DEF Typed, HookTyped
  <2> QED
    BY <2>1 DEF HandlerTurn
<1>5. ASSUME NEW g \in Handlers, hd'[g] = hd[g]
      PROVE  HandlerFits(hd[g])'
  <2>1. HandlerFits(hd[g])
    BY DEF Typed, HookTyped
  <2>2. hd[g].cb[1] \in Nat /\ hd[g].hook \in Nat /\ hd[g].op \in Nat
    BY HandlerFacts
  <2> QED
    BY <1>1, <1>2, <1>5, <2>1, <2>2 DEF HandlerFits
<1>6. ASSUME NEW h \in Handlers, HandlerTurn(h)
      PROVE  \A g \in Handlers : HandlerFits(hd[g])'
  <2>1. PICK x \in HandlerStates :
         /\ hd' = [hd EXCEPT ![h] = x]
         /\ x.hook <= Len(hooks') /\ x.op <= Len(ops)
         /\ \/ x.pc = "free" /\ x.cb = <<0, "sent">>
            \/ x.cb \in callbacks
            \/ hd[h].pc # "free" /\ x.cb = hd[h].cb
         /\ x.pc = "apply" => x.op # 0 /\ x.cb[2] \in OpStatuses
    BY <1>6 DEF HandlerTurn
  <2>2. hd'[h] = x /\ \A g \in Handlers : g # h => hd'[g] = hd[g]
    BY <1>4, <2>1
  <2>3. x.op \in Nat
    BY DEF HandlerStates
  <2>4. x.cb[1] \in Nat /\ x.cb[1] <= Len(messages) /\ (x.pc # "free" => x.cb[1] # 0 /\ x.cb[2] \in Reported)
    <3>1. CASE x.pc = "free" /\ x.cb = <<0, "sent">>
      BY <3>1, <1>1
    <3>2. CASE x.cb \in callbacks
      BY <3>2 DEF Typed, HookTyped
    <3>3. CASE hd[h].pc # "free" /\ x.cb = hd[h].cb
      BY <3>3, HandlerFacts
    <3> QED
      BY <2>1, <3>1, <3>2, <3>3
  <2>5. HandlerFits(hd[h])'
    BY <1>1, <1>2, <2>1, <2>2, <2>3, <2>4 DEF HandlerFits
  <2> QED
    BY <1>5, <2>2, <2>5
<1>7. \A g \in Handlers : HandlerFits(hd[g])'
  BY <1>5, <1>6
<1>8. hooks' \in Seq(HookRecords')
  BY <1>2 DEF HooksGoOn
<1>9. callbacks' \subseteq (Nat \ {0}) \X Reported'
  BY <1>2
<1>10. hd' \in [Handlers -> HandlerStates']
  BY <1>2, <1>4
<1> QED
  BY <1>3, <1>7, <1>8, <1>9, <1>10 DEF HookTyped

\* Every step leaves the tables well.
LEMMA TablesStep ==
   ASSUME Typed, OwnOpIsFresh, Next
   PROVE  /\ OpsGoOn /\ MessagesGrow /\ Len(messages') \in Nat
          /\ messages' \in Seq(MessageRecords)
<1>0. \A k \in 1..Len(ops) : ops[k].sid <= Len(messages)
  BY DEF Typed, StoreTyped
<1>1. CASE UNCHANGED <<ops, messages>>
  BY <1>1, MessagesStay, OpsStay
<1>2. ASSUME NEW w \in Workers, WorkerStep(w)
      PROVE  /\ OpsGoOn /\ MessagesGrow /\ Len(messages') \in Nat
             /\ messages' \in Seq(MessageRecords)
  <2>1. CASE CreateOperation(w)
    <3>1. OpAdded(Chan(w)) /\ UNCHANGED messages
      BY <2>1, CreateEffect DEF CreateOperation
    <3> QED
      BY <3>1, OpAddedGoesOn, MessagesStay
  <2>2. CASE CloseAsAlreadySent(w)
    <3>1. wk[w].op \in 1..Len(ops) /\ UNCHANGED messages
      BY <2>2, WorkerFacts DEF CloseAsAlreadySent, At, HasOwnOp
    <3>2. OpWritten(wk[w].op, "sent", ops[wk[w].op].sid)
      BY <2>2, <3>1, StatusWritten DEF CloseAsAlreadySent, OpStatuses
    <3> QED
      BY <1>0, <3>1, <3>2, OpWrittenGoesOn, MessagesStay
  <2>3. CASE RecordFailed(w)
    <3>1. wk[w].op \in 1..Len(ops) /\ UNCHANGED messages
      BY <2>3, WorkerFacts DEF RecordFailed, At, HasOwnOp
    <3> QED
      BY <1>0, <2>3, <3>1, RecordFailedEffect, OpWrittenGoesOn, MessagesStay
  <2>4. CASE RecordSent(w)
    <3>1. wk[w].op \in 1..Len(ops) /\ UNCHANGED messages /\ wk[w].sid <= Len(messages)
      BY <2>4, WorkerFacts DEF RecordSent, At, HasOwnOp
    <3>2. ops[wk[w].op].sid = 0
      BY <2>4 DEF RecordSent, At, HasOwnOp, OwnOpIsFresh, FreshOp
    <3> QED
      BY <2>4, <3>1, <3>2, RecordSentEffect, OpWrittenGoesOn, MessagesStay
  <2>5. CASE Send(w)
    <3>1. UNCHANGED ops /\ (UNCHANGED messages \/ Accept(w)) /\ wk[w].pc \in OnChannel
      BY <2>5 DEF Send, At, OnChannel
    <3>2. CASE UNCHANGED messages
      BY <1>1, <3>1, <3>2
    <3>3. CASE Accept(w)
      BY <3>1, <3>3, AcceptGrows, AcceptFacts, OpsStay
    <3> QED
      BY <3>1, <3>2, <3>3
  <2>6. CASE \/ Start(w) \/ LookForEarlierSend(w) \/ EmitOnceCheck(w) \/ EmitOnceWrite(w)
             \/ Finish(w) \/ FinishFailed(w)
    BY <1>1, <2>6 DEF Start, LookForEarlierSend, EmitOnceCheck, EmitOnceWrite, Finish, FinishFailed
  <2> QED
    BY <1>2, <2>1, <2>2, <2>3, <2>4, <2>5, <2>6 DEF WorkerStep
<1>3. ASSUME NEW m \in 1..Len(messages), ProviderProgress(m)
      PROVE  /\ OpsGoOn /\ MessagesGrow /\ Len(messages') \in Nat
             /\ messages' \in Seq(MessageRecords)
  <2>1. UNCHANGED ops
    BY <1>3 DEF ProviderProgress
  <2> QED
    BY <1>3, <2>1, ProgressGrows, ProgressFacts, OpsStay
<1>4. ASSUME NEW h \in Handlers, Apply(h)
      PROVE  /\ OpsGoOn /\ MessagesGrow /\ Len(messages') \in Nat
             /\ messages' \in Seq(MessageRecords)
  <2>1. CASE hd[h].seen = hd[h].cb[2]
    BY <1>1, <1>4, <2>1 DEF Apply
  <2>2. CASE hd[h].seen # hd[h].cb[2]
    <3>1. hd[h].op \in 1..Len(ops) /\ hd[h].cb[2] \in OpStatuses
      BY <1>4, HandlerFacts DEF Apply
    <3>2. UNCHANGED messages /\ ops' = [ops EXCEPT ![hd[h].op].status = hd[h].cb[2]]
      BY <1>4, <2>2 DEF Apply
    <3>3. OpWritten(hd[h].op, hd[h].cb[2], ops[hd[h].op].sid)
      BY <3>1, <3>2, StatusWritten
    <3> QED
      BY <1>0, <3>1, <3>2, <3>3, OpWrittenGoesOn, MessagesStay
  <2> QED
    BY <2>1, <2>2
<1>5. CASE SetPhone
  BY <1>1, <1>5 DEF SetPhone
<1>6. ASSUME NEW w \in Workers, AttemptRaises(w) \/ WorkerCrash(w)
      PROVE  UNCHANGED <<ops, messages>>
  BY <1>6 DEF AttemptRaises, WorkerCrash
<1>7. ASSUME NEW h \in Handlers,
             \/ \E cb \in callbacks : Receive(h, cb) \/ ReceiveBadSignature(h, cb)
             \/ (HandlerStep(h) /\ ~Apply(h)) \/ HandlerCrash(h)
      PROVE  UNCHANGED <<ops, messages>>
  BY <1>7 DEF HandlerStep, Receive, ReceiveBadSignature, HandlerCrash, Reject, LookupKey,
              AnswerDuplicate, Persist, FindOperation, Settle
<1> QED
  BY <1>1, <1>2, <1>3, <1>4, <1>5, <1>6, <1>7 DEF Next

LEMMA DisturbTyped ==
   ASSUME Typed, NEW d \in Disturbances, Disturb(d)
   PROVE  /\ lost' \in [Disturbances -> Nat] /\ lost'[d] = lost[d] + 1
          /\ \A e \in Disturbances : lost'[e] \in Nat /\ lost[e] \in Nat
          /\ \A e \in Disturbances : e # d => lost'[e] = lost[e]
BY DEF Typed, SettingTyped, Disturb

LEMMA SettingTypedStep ==
   ASSUME Typed, Next
   PROVE  SettingTyped'
<1>1. setting' = setting
  BY DEF Next
<1>2. lost' = lost \/ \E d \in Disturbances : Disturb(d)
  <2>1. \A d \in {"crash", "raise", "unanswered", "copy"} : d \in Disturbances
    BY DEF Disturbances
  <2>2. CASE SetPhone
    BY <2>2 DEF SetPhone
  <2>3. ASSUME NEW w \in Workers, WorkerStep(w) \/ AttemptRaises(w) \/ WorkerCrash(w)
        PROVE  lost' = lost \/ \E d \in Disturbances : Disturb(d)
    BY <2>1, <2>3 DEF WorkerStep, AttemptRaises, WorkerCrash, Start, CreateOperation,
         LookForEarlierSend, CloseAsAlreadySent, Send, RecordSent, RecordFailed, EmitOnceCheck,
         EmitOnceWrite, Finish, FinishFailed
  <2>4. ASSUME NEW h \in Handlers,
               \/ \E cb \in callbacks : Receive(h, cb) \/ ReceiveBadSignature(h, cb)
               \/ HandlerStep(h) \/ HandlerCrash(h)
        PROVE  lost' = lost \/ \E d \in Disturbances : Disturb(d)
    BY <2>1, <2>4 DEF Receive, ReceiveBadSignature, HandlerStep, HandlerCrash, Reject, LookupKey,
         AnswerDuplicate, Persist, FindOperation, Apply, Settle
  <2>5. ASSUME NEW m \in 1..Len(messages), ProviderProgress(m)
        PROVE  lost' = lost
    BY <2>5 DEF ProviderProgress
  <2> QED
    BY <2>2, <2>3, <2>4, <2>5 DEF Next
<1>3. lost' \in [Disturbances -> Nat]
  BY <1>2, DisturbTyped DEF Typed, SettingTyped
<1>4. phone' \in BOOLEAN
  <2>1. CASE SetPhone
    BY <2>1 DEF SetPhone
  <2>2. CASE ~SetPhone
    <3>1. UNCHANGED phone
      BY <2>2 DEF Next, WorkerStep, AttemptRaises, WorkerCrash, Start, CreateOperation,
         LookForEarlierSend, CloseAsAlreadySent, Send, RecordSent, RecordFailed, EmitOnceCheck,
         EmitOnceWrite, Finish, FinishFailed, Receive, ReceiveBadSignature, HandlerStep,
         HandlerCrash, Reject, LookupKey, AnswerDuplicate, Persist, FindOperation, Apply, Settle,
         ProviderProgress
    <3> QED
      BY <3>1 DEF Typed, SettingTyped
  <2> QED
    BY <2>1, <2>2
<1> QED
  BY <1>1, <1>3, <1>4 DEF SettingTyped, Typed

LEMMA FitsOn ==
   ASSUME Typed, OpsGoOn, MessagesGrow, Len(messages') \in Nat,
          NEW t \in WorkerStates, WorkerFits(t)
   PROVE  WorkerFits(t)'
<1>1. /\ Len(ops) \in Nat /\ Len(ops') \in Nat /\ Len(ops) <= Len(ops')
      /\ Len(messages) \in Nat /\ Len(messages) <= Len(messages')
  BY Numbers DEF OpsGoOn, OpsGrow, MessagesGrow
<1>2. t.op \in Nat /\ t.sid \in Nat
  BY DEF WorkerStates
<1> QED
  BY <1>1, <1>2 DEF WorkerFits

\* What the end of an attempt does to the queues.
LEMMA FailFacts ==
   ASSUME Typed, NEW w \in Workers, FailAttempt(w)
   PROVE  /\ queue' \subseteq TaskMessages /\ dead' \subseteq Tasks
          /\ wk' = [wk EXCEPT ![w] = Idle]
          /\ \/ queue' = queue
             \/ \E m \in TaskMessages : queue' = queue \cup {m} /\ m.task = wk[w].task
<1>1. PICK r \in WorkerStates : r = wk[w]
  BY WorkerFacts
<1>2. r.task \in Tasks /\ r.retries \in 0..MaxRetries /\ MaxRetries \in Nat
  BY SettingFacts DEF WorkerStates, Typed
<1>3. queue \subseteq TaskMessages /\ dead \subseteq Tasks
  BY DEF Typed, WorkTyped
<1>4. CASE r.retries < MaxRetries
  <2> DEFINE m == [task |-> r.task, retries |-> r.retries + 1]
  <2>1. m \in TaskMessages /\ m.task = r.task
    BY <1>2, <1>4 DEF TaskMessages
  <2>2. queue' = queue \cup {m} /\ dead' = dead /\ wk' = [wk EXCEPT ![w] = Idle]
    BY <1>1, <1>4 DEF FailAttempt
  <2> HIDE DEF m
  <2> QED
    BY <1>1, <1>3, <2>1, <2>2
<1>5. CASE ~(r.retries < MaxRetries)
  BY <1>1, <1>2, <1>3, <1>5 DEF FailAttempt
<1> QED
  BY <1>4, <1>5

LEMMA CrashFacts ==
   ASSUME Typed, NEW w \in Workers, WorkerCrash(w)
   PROVE  /\ queue' \subseteq TaskMessages
          /\ wk' = [wk EXCEPT ![w] = Idle]
          /\ \E m \in TaskMessages : queue' = queue \cup {m} /\ m.task = wk[w].task
<1>1. PICK r \in WorkerStates : r = wk[w]
  BY WorkerFacts
<1> DEFINE m == [task |-> r.task, retries |-> r.retries]
<1>2. m \in TaskMessages /\ m.task = r.task
  BY DEF WorkerStates, TaskMessages
<1>3. queue' = queue \cup {m} /\ wk' = [wk EXCEPT ![w] = Idle]
  BY <1>1 DEF WorkerCrash
<1>4. queue \subseteq TaskMessages
  BY DEF Typed, WorkTyped
<1> HIDE DEF m
<1> QED
  BY <1>1, <1>2, <1>3, <1>4

LEMMA WorkTypedNext ==
   ASSUME Typed, OwnOpIsFresh, Next, OpsGoOn, MessagesGrow, Len(messages') \in Nat
   PROVE  WorkTyped'
<1>0. setting' = setting /\ queue \subseteq TaskMessages /\ dead \subseteq Tasks
  BY DEF Next, Typed, WorkTyped
<1> DEFINE Turned(w) == \E t \in WorkerStates : wk' = [wk EXCEPT ![w] = t] /\ WorkerFits(t)'
           Kept == queue' \subseteq TaskMessages /\ dead' \subseteq Tasks
<1>1. Kept /\ UNCHANGED wk => WorkTyped'
  BY <1>0, WorkTypedStep
<1>2. \A w \in Workers : Kept /\ Turned(w) => WorkTyped'
  BY <1>0, WorkTypedStep
<1>3. ASSUME NEW w \in Workers, WorkerStep(w) PROVE WorkTyped'
  <2>0. CASE UNCHANGED <<queue, dead>> /\ \E t \in WorkerStates : Onward(w, t) /\ WorkerFits(t)
    BY <1>0, <1>2, <2>0, FitsOn DEF Onward
  <2>1. CASE Start(w)
    <3>1. dead' = dead
      BY <2>1 DEF Start
    <3> QED
      BY <1>0, <1>2, <2>1, <3>1, StartEffect, FitsOn
  <2>2. CASE CreateOperation(w)
    <3>1. PICK t \in WorkerStates : /\ Onward(w, t) /\ t.pc = "look" /\ t.op = Len(ops) + 1
                                    /\ t.sid = wk[w].sid
      BY <2>2, CreateEffect
    <3>2. Len(ops') = Len(ops) + 1 /\ Len(ops) \in Nat
      BY <2>2, CreateEffect, OpAddedFacts
    <3>3. t.todo # {} /\ t.sid \in Nat /\ t.sid <= Len(messages) /\ t.failures + Left(t.todo) <= 2
      BY <2>2, <3>1, WorkerFacts DEF Onward, CreateOperation, At, OnChannel
    <3>4. WorkerFits(t)'
      BY <3>1, <3>2, <3>3, Numbers DEF WorkerFits, MessagesGrow
    <3> QED
      BY <1>0, <1>2, <2>2, <3>1, <3>4 DEF Onward, CreateOperation
  <2>3. CASE LookForEarlierSend(w)
    <3>1. PICK pc \in {"already", "send"} : Goto(w, pc)
      BY <2>3 DEF LookForEarlierSend
    <3>2. wk[w].op # 0 /\ wk[w].pc \in OnChannel
      BY <2>3, WorkerFacts DEF LookForEarlierSend, At, HasOwnOp, OnChannel
    <3> QED
      BY <2>0, <2>3, <3>1, <3>2, GotoEffect DEF LookForEarlierSend, OnChannel
  <2>4. CASE CloseAsAlreadySent(w)
    BY <1>0, <1>2, <2>4, AdvanceEffect, FitsOn DEF CloseAsAlreadySent, At, OnChannel
  <2>5. CASE Send(w)
    <3>1. UNCHANGED <<queue, dead>>
      BY <2>5 DEF Send
    <3>2. PICK t \in WorkerStates :
             /\ Onward(w, t) /\ t.op = wk[w].op /\ t.kind = wk[w].kind
             /\ \/ Accept(w) /\ t.pc = "record" /\ t.sid = Len(messages) + 1
                \/ t.pc = "fail" /\ t.sid = wk[w].sid
      BY <2>5, SendEffect
    <3>3. /\ wk[w].pc \in OnChannel /\ wk[w].op \in 1..Len(ops) /\ wk[w].op <= Len(ops)
          /\ wk[w].todo # {} /\ wk[w].sid \in Nat /\ wk[w].sid <= Len(messages)
          /\ wk[w].failures + Left(wk[w].todo) <= 2 /\ Len(ops') = Len(ops)
      BY <2>5, WorkerFacts DEF Send, At, OnChannel, HasOwnOp
    <3>4. t.sid <= Len(messages')
      BY <3>2, <3>3, AcceptFacts, Numbers DEF MessagesGrow
    <3>5. WorkerFits(t)'
      BY <3>2, <3>3, <3>4, Numbers DEF WorkerFits, Onward
    <3> QED
      BY <1>0, <1>2, <3>1, <3>2, <3>5 DEF Onward
  <2>6. CASE RecordSent(w)
    <3>1. wk[w].op # 0 /\ wk[w].pc \in OnChannel
      BY <2>6, WorkerFacts DEF RecordSent, At, HasOwnOp, OnChannel
    <3> QED
      BY <2>0, <2>6, <3>1, GotoEffect DEF RecordSent, OnChannel, HasOwnOp
  <2>7. CASE RecordFailed(w)
    BY <2>0, <2>7, RecordFailedEffect DEF RecordFailed
  <2>8. CASE EmitOnceCheck(w)
    <3>1. wk[w].pc \in OnChannel /\ UNCHANGED <<queue, dead>>
      BY <2>8 DEF EmitOnceCheck, At, OnChannel
    <3>2. CASE Advance(w)
      BY <1>0, <1>2, <3>1, <3>2, AdvanceEffect, FitsOn
    <3>3. CASE Goto(w, "emit")
      BY <2>0, <3>1, <3>3, GotoEffect DEF OnChannel, HasOwnOp
    <3> QED
      BY <2>8, <3>2, <3>3 DEF EmitOnceCheck
  <2>9. CASE EmitOnceWrite(w)
    BY <1>0, <1>2, <2>9, AdvanceEffect, FitsOn DEF EmitOnceWrite, At, OnChannel
  <2>10. CASE Finish(w)
    BY <1>0, <1>2, <2>10, IdleFits, FitsOn DEF Finish
  <2>11. CASE FinishFailed(w)
    BY <1>0, <1>2, <2>11, FailFacts, IdleFits, FitsOn DEF FinishFailed
  <2> QED
    BY <1>3, <2>1, <2>2, <2>3, <2>4, <2>5, <2>6, <2>7, <2>8, <2>9, <2>10, <2>11 DEF WorkerStep
<1>4. ASSUME NEW w \in Workers, AttemptRaises(w) PROVE WorkTyped'
  BY <1>0, <1>2, <1>4, FailFacts, IdleFits, FitsOn DEF AttemptRaises
<1>5. ASSUME NEW w \in Workers, WorkerCrash(w) PROVE WorkTyped'
  BY <1>0, <1>2, <1>5, CrashFacts, IdleFits, FitsOn DEF WorkerCrash
<1>6. ASSUME UNCHANGED task PROVE WorkTyped'
  BY <1>0, <1>1, <1>6 DEF task
<1>7. SetPhone \/ (\E m \in 1..Len(messages) : ProviderProgress(m)) => UNCHANGED task
  BY DEF SetPhone, ProviderProgress
<1>8. ASSUME NEW h \in Handlers,
             \/ \E cb \in callbacks : Receive(h, cb) \/ ReceiveBadSignature(h, cb)
             \/ HandlerStep(h) \/ HandlerCrash(h)
      PROVE  UNCHANGED task
  BY <1>8 DEF HandlerStep, Receive, ReceiveBadSignature, HandlerCrash, Reject, LookupKey,
              AnswerDuplicate, Persist, FindOperation, Apply, Settle
<1> QED
  BY <1>3, <1>4, <1>5, <1>6, <1>7, <1>8 DEF Next

LEMMA HookTypedNext ==
   ASSUME Typed, Next, OpsGoOn, MessagesGrow, Len(messages') \in Nat
   PROVE  HookTyped'
<1>0. /\ setting' = setting
      /\ callbacks \subseteq (Nat \ {0}) \X Reported /\ \A cb \in callbacks : cb[1] <= Len(messages)
      /\ Len(messages) \in Nat /\ Len(messages) <= Len(messages')
  BY Numbers DEF Next, Typed, HookTyped, MessagesGrow
<1>1. ASSUME callbacks' \subseteq callbacks
      PROVE  /\ callbacks' \subseteq (Nat \ {0}) \X Reported
             /\ \A cb \in callbacks' : cb[1] <= Len(messages')
  <2>1. \A cb \in callbacks : cb[1] \in Nat
    BY <1>0
  <2> QED
    BY <1>0, <1>1, <2>1
<1>2. CASE UNCHANGED <<callbacks, webhook>>
  BY <1>0, <1>1, <1>2, HooksStay, HookTypedStep DEF webhook
<1>3. ASSUME NEW m \in 1..Len(messages), ProviderProgress(m) PROVE HookTyped'
  <2>1. UNCHANGED webhook
    BY <1>3 DEF ProviderProgress
  <2>2. \A cb \in callbacks' : \/ cb \in callbacks
                               \/ cb = <<m, messages'[m].status>> /\ messages'[m].status \in Reported
    BY <1>3, ProgressFacts
  <2>3. /\ callbacks' \subseteq (Nat \ {0}) \X Reported
        /\ \A cb \in callbacks' : cb[1] <= Len(messages')
    <3>1. ASSUME NEW cb \in callbacks'
          PROVE  cb \in (Nat \ {0}) \X Reported /\ cb[1] <= Len(messages')
      BY <1>0, <2>2
    <3> QED
      BY <3>1
  <2> QED
    BY <1>0, <2>1, <2>3, HooksStay, HookTypedStep DEF webhook
<1>4. ASSUME NEW h \in Handlers,
             \/ \E cb \in callbacks : Receive(h, cb) \/ ReceiveBadSignature(h, cb)
             \/ HandlerStep(h) \/ HandlerCrash(h)
      PROVE  HookTyped'
  <2>1. callbacks' \subseteq callbacks
    BY <1>4 DEF HandlerStep, Receive, ReceiveBadSignature, HandlerCrash, Reject, LookupKey,
                AnswerDuplicate, Persist, FindOperation, Apply, Settle
  <2>2. HandlerTurn(h) /\ HooksGoOn
    BY <1>4, HandlerEffect
  <2> QED
    BY <1>0, <1>1, <2>1, <2>2, HookTypedStep
<1>5. SetPhone => UNCHANGED <<callbacks, webhook>>
  BY DEF SetPhone
<1>6. ASSUME NEW w \in Workers, WorkerStep(w) \/ AttemptRaises(w) \/ WorkerCrash(w)
      PROVE  UNCHANGED <<callbacks, webhook>>
  BY <1>6 DEF WorkerStep, AttemptRaises, WorkerCrash, Start, CreateOperation,
         LookForEarlierSend, CloseAsAlreadySent, Send, RecordSent, RecordFailed, EmitOnceCheck,
         EmitOnceWrite, Finish, FinishFailed
<1> QED
  BY <1>2, <1>3, <1>4, <1>5, <1>6 DEF Next

LEMMA LogStep ==
   ASSUME Next
   PROVE  UNCHANGED log \/ \E w \in Workers : EmitOnceWrite(w)
BY DEF Next, SetPhone, ProviderProgress, WorkerStep, AttemptRaises, WorkerCrash, Start,
       CreateOperation, LookForEarlierSend, CloseAsAlreadySent, Send, RecordSent, RecordFailed,
       EmitOnceCheck, Finish, FinishFailed, HandlerStep, Receive, ReceiveBadSignature,
       HandlerCrash, Reject, LookupKey, AnswerDuplicate, Persist, FindOperation, Apply, Settle

LEMMA TypedStep ==
   ASSUME Typed, OwnOpIsFresh, Next
   PROVE  Typed'
<1>1. setting' = setting
  BY DEF Next
<1>2. StoreTyped'
  BY <1>1, TablesStep, LogStep, StoreTypedStep
<1> QED
  BY <1>2, SettingTypedStep, TablesStep, WorkTypedNext, HookTypedNext DEF Typed

LEMMA TypedInit ==
   ASSUME Init
   PROVE  Typed
<1>1. SettingTyped
  BY DEF Init, SettingTyped
<1>2. StoreTyped
  BY <1>1 DEF Init, StoreTyped
<1>3. Idle \in WorkerStates /\ Channels # {} /\ MaxRetries \in Nat
  BY <1>1, SettingFacts DEF Idle, WorkerStates
<1>4. WorkTyped
  <2>1. \A t \in Tasks : [task |-> t, retries |-> 0] \in TaskMessages
    BY <1>3 DEF TaskMessages
  <2>2. wk = [w \in Workers |-> Idle] /\ ops = <<>> /\ messages = <<>>
    BY DEF Init
  <2>3. WorkerFits(Idle)
    BY <2>2 DEF WorkerFits, Idle, OnChannel, HasOwnOp, Left
  <2>4. \A w \in Workers : WorkerFits(wk[w])
    BY <2>2, <2>3
  <2> QED
    BY <1>3, <2>1, <2>2, <2>4 DEF Init, WorkTyped
<1>5. HookTyped
  <2>1. Free \in HandlerStates
    BY DEF Free, HandlerStates, Outcome, OpStatuses
  <2>2. hd = [h \in Handlers |-> Free] /\ hooks = <<>> /\ ops = <<>> /\ messages = <<>>
        /\ callbacks = {}
    BY DEF Init
  <2>3. HandlerFits(Free)
    BY <2>2 DEF HandlerFits, Free
  <2>4. \A h \in Handlers : HandlerFits(hd[h])
    BY <2>2, <2>3
  <2> QED
    BY <2>1, <2>2, <2>4 DEF HookTyped
<1> QED
  BY <1>1, <1>2, <1>4, <1>5 DEF Typed
-----------------------------------------------------------------------------
(* From the answer to the operation: the steps. *)

\* A worker's turn keeps what its new state keeps.
LEMMA TrackTurn ==
   ASSUME Typed, TrackInv, OpsGoOn, MessagesGrow, Len(messages') \in Nat,
          NEW w \in Workers, NEW t \in WorkerStates, wk' = [wk EXCEPT ![w] = t],
          t.op \in {0, wk[w].op} \/ t.op = Len(ops) + 1,
          \A k \in 1..Len(ops) : k # wk[w].op => ops'[k].sid = ops[k].sid,
          FreshOp(t)', Told(t)'
   PROVE  OpsApart' /\ OwnOpIsFresh' /\ AnswersAreKept'
<1>0. /\ wk'[w] = t /\ \A v \in Workers : v # w => wk'[v] = wk[v]
      /\ Len(ops) \in Nat /\ Len(ops') \in Nat /\ Len(ops) <= Len(ops')
      /\ Len(messages) \in Nat /\ Len(messages) <= Len(messages')
  BY Numbers DEF Typed, WorkTyped, OpsGoOn, OpsGrow, MessagesGrow
<1>1. \A v \in Workers : wk[v].op \in Nat /\ wk[v].op <= Len(ops)
  BY WorkerFacts
<1>2. OpsApart'
  <2>1. OpsApart
    BY DEF TrackInv
  <2>2. ASSUME NEW u \in Workers, NEW v \in Workers, wk'[u].op = wk'[v].op, wk'[v].op # 0
        PROVE  u = v
    <3>1. CASE u = w /\ v # w
      <4>1. t.op = wk[v].op /\ wk[v].op # 0
        BY <1>0, <2>2, <3>1
      <4>2. t.op = wk[w].op
        BY <1>0, <1>1, <4>1
      <4> QED
        BY <2>1, <3>1, <4>1, <4>2 DEF OpsApart
    <3>2. CASE u # w /\ v = w
      <4>1. t.op = wk[u].op /\ wk[u].op # 0
        BY <1>0, <2>2, <3>2
      <4>2. t.op = wk[w].op
        BY <1>0, <1>1, <4>1
      <4> QED
        BY <2>1, <3>2, <4>1, <4>2 DEF OpsApart
    <3>3. CASE u # w /\ v # w
      BY <1>0, <2>1, <2>2, <3>3 DEF OpsApart
    <3> QED
      BY <3>1, <3>2, <3>3
  <2> QED
    BY <2>2 DEF OpsApart
<1>3. ASSUME NEW v \in Workers, v # w
      PROVE  FreshOp(wk[v])'
  <2>1. FreshOp(wk[v]) /\ OpsApart
    BY DEF TrackInv, OwnOpIsFresh
  <2>2. wk[v].pc \in HasOwnOp => wk[v].op \in 1..Len(ops) /\ wk[v].op # wk[w].op
    BY <1>1, <1>3, <2>1, WorkerFacts DEF OpsApart
  <2> QED
    BY <1>0, <1>3, <2>1, <2>2 DEF FreshOp, OpsGoOn, OpsGrow
<1>4. ASSUME NEW v \in Workers, v # w
      PROVE  Told(wk[v])'
  <2>1. Told(wk[v]) /\ wk'[v] = wk[v]
    BY <1>0, <1>4 DEF TrackInv, AnswersAreKept
  <2>2. \A sid, c : Answered(sid, c) => Answered(sid, c)'
    BY <1>0 DEF Answered, MessagesGrow
  <2>3. \A sid, c : Answered(sid, c) /\ Tracked(sid, c) => Tracked(sid, c)'
    <3>1. ASSUME NEW sid, NEW c, Answered(sid, c), Tracked(sid, c) PROVE Tracked(sid, c)'
      <4>1. PICK k \in 1..Len(ops) : ops[k].sid = sid /\ ops[k].chan = c
        BY <3>1 DEF Tracked
      <4>2. sid # 0
        BY <1>0, <3>1 DEF Answered
      <4>3. k \in 1..Len(ops') /\ ops'[k].sid = sid /\ ops'[k].chan = c
        BY <1>0, <4>1, <4>2 DEF OpsGoOn, OpsGrow
      <4> QED
        BY <4>3 DEF Tracked
    <3> QED
      BY <3>1
  <2> QED
    BY <2>1, <2>2, <2>3 DEF Told
<1>5. FreshOp(wk[w])' /\ Told(wk[w])'
  BY <1>0 DEF FreshOp, Told
<1>6. \A v \in Workers : FreshOp(wk[v])' /\ Told(wk[v])'
  BY <1>3, <1>4, <1>5
<1> QED
  BY <1>2, <1>6 DEF OwnOpIsFresh, AnswersAreKept

\* Nobody's turn: the same, for steps of the others.
LEMMA TrackRest ==
   ASSUME Typed, TrackInv, OpsGoOn, MessagesGrow, Len(messages') \in Nat, UNCHANGED wk,
          \A k \in 1..Len(ops) : ops'[k].sid = ops[k].sid
   PROVE  OpsApart' /\ OwnOpIsFresh' /\ AnswersAreKept'
<1>1. OpsApart'
  BY DEF TrackInv, OpsApart
<1>2. ASSUME NEW w \in Workers PROVE FreshOp(wk[w])' /\ Told(wk[w])'
  <2>1. FreshOp(wk[w]) /\ Told(wk[w]) /\ wk'[w] = wk[w]
    BY DEF TrackInv, OwnOpIsFresh, AnswersAreKept
  <2>2. /\ Len(ops) \in Nat /\ Len(ops') \in Nat /\ Len(ops) <= Len(ops')
        /\ Len(messages) \in Nat /\ Len(messages) <= Len(messages')
    BY Numbers DEF OpsGoOn, OpsGrow, MessagesGrow
  <2>3. FreshOp(wk[w])'
    BY <2>1, WorkerFacts DEF FreshOp, OpsGoOn, OpsGrow
  <2>4. \A sid, c : Answered(sid, c) => Answered(sid, c)'
    BY <2>2 DEF Answered, MessagesGrow
  <2>5. \A sid, c : Tracked(sid, c) => Tracked(sid, c)'
    <3>1. ASSUME NEW sid, NEW c, Tracked(sid, c) PROVE Tracked(sid, c)'
      <4>1. PICK k \in 1..Len(ops) : ops[k].sid = sid /\ ops[k].chan = c
        BY <3>1 DEF Tracked
      <4>2. k \in 1..Len(ops') /\ ops'[k].sid = sid /\ ops'[k].chan = c
        BY <2>2, <4>1 DEF OpsGoOn, OpsGrow
      <4> QED
        BY <4>2 DEF Tracked
    <3> QED
      BY <3>1
  <2> QED
    BY <2>1, <2>3, <2>4, <2>5 DEF Told
<1> QED
  BY <1>1, <1>2 DEF OwnOpIsFresh, AnswersAreKept

LEMMA TrackWorkerStep ==
   ASSUME Typed, TrackInv, Next, NEW w \in Workers, WorkerStep(w)
   PROVE  OpsApart' /\ OwnOpIsFresh' /\ AnswersAreKept'
<1>0. OwnOpIsFresh /\ FreshOp(wk[w]) /\ Told(wk[w])
  BY DEF TrackInv, OwnOpIsFresh, AnswersAreKept
<1>1. OpsGoOn /\ MessagesGrow /\ Len(messages') \in Nat
  BY <1>0, TablesStep
<1> DEFINE OthersKept == \A k \in 1..Len(ops) : k # wk[w].op => ops'[k].sid = ops[k].sid
           Good(t) == /\ wk' = [wk EXCEPT ![w] = t]
                      /\ t.op \in {0, wk[w].op} \/ t.op = Len(ops) + 1
                      /\ FreshOp(t)' /\ Told(t)'
<1>2. ASSUME OthersKept, NEW t \in WorkerStates, Good(t)
      PROVE  OpsApart' /\ OwnOpIsFresh' /\ AnswersAreKept'
  BY <1>1, <1>2, TrackTurn
<1>3. UNCHANGED ops => OthersKept
  OBVIOUS
<1>4. \A status, sid : wk[w].op \in 1..Len(ops) /\ OpWritten(wk[w].op, status, sid) => OthersKept
  BY OpWrittenFacts
<1>5. ASSUME NEW t \in WorkerStates, wk' = [wk EXCEPT ![w] = t], t.op = 0,
             \/ t.pc = "create" /\ t.kind = "sent"
             \/ t.pc = "check" /\ t.kind = "failed"
             \/ t.pc \in {"end", "idle"}
      PROVE  Good(t)
  BY <1>5 DEF FreshOp, Told, HasOwnOp
<1>6. CASE Start(w)
  BY <1>2, <1>3, <1>5, <1>6, StartEffect DEF Start
<1>7. CASE CreateOperation(w)
  <2>1. PICK t \in WorkerStates : /\ Onward(w, t) /\ t.pc = "look" /\ t.op = Len(ops) + 1
                                  /\ t.kind = wk[w].kind
    BY <1>7, CreateEffect
  <2>2. OpAdded(Chan(w)) /\ wk[w].kind = "sent"
    BY <1>0, <1>7, CreateEffect DEF CreateOperation, At, Told
  <2>3. ops'[t.op].sid = 0 /\ ops'[t.op].chan = First(t.todo)
    BY <2>1, <2>2, OpAddedFacts DEF Onward, Chan
  <2>4. FreshOp(t)' /\ Told(t)'
    BY <2>1, <2>2, <2>3 DEF FreshOp, Told
  <2>5. OthersKept
    BY <2>2, OpAddedFacts
  <2> QED
    BY <1>2, <2>1, <2>4, <2>5 DEF Onward
<1>8. CASE LookForEarlierSend(w)
  <2>1. PICK pc \in {"already", "send"} : Goto(w, pc)
    BY <1>8 DEF LookForEarlierSend
  <2>2. wk[w].op # 0 /\ wk[w].pc \in OnChannel /\ wk[w].pc \in HasOwnOp /\ UNCHANGED ops
    BY <1>8, WorkerFacts DEF LookForEarlierSend, At, HasOwnOp, OnChannel
  <2>3. PICK t \in WorkerStates : Onward(w, t) /\ t.pc = pc /\ t.op = wk[w].op /\ t.kind = wk[w].kind
    BY <2>1, <2>2, GotoEffect DEF OnChannel
  <2>4. FreshOp(t)' /\ Told(t)'
    BY <1>0, <2>1, <2>2, <2>3 DEF FreshOp, Told, Onward
  <2> QED
    BY <1>2, <1>3, <2>2, <2>3, <2>4 DEF Onward
<1>9. CASE CloseAsAlreadySent(w)
  <2>1. OthersKept
    BY <1>4, <1>9, WorkerFacts, StatusWritten DEF CloseAsAlreadySent, At, HasOwnOp, OpStatuses
  <2> QED
    BY <1>2, <1>5, <1>9, <2>1, AdvanceEffect DEF CloseAsAlreadySent, At, OnChannel
<1>10. CASE Send(w)
  <2>1. PICK t \in WorkerStates :
           /\ Onward(w, t) /\ t.op = wk[w].op /\ t.kind = wk[w].kind
           /\ \/ Accept(w) /\ t.pc = "record" /\ t.sid = Len(messages) + 1
              \/ t.pc = "fail"
    BY <1>10, SendEffect
  <2>2. wk[w].pc \in OnChannel /\ wk[w].pc \in HasOwnOp /\ UNCHANGED ops
    BY <1>10 DEF Send, At, OnChannel, HasOwnOp
  <2>3. t.pc = "record" => Answered(t.sid, First(t.todo))'
    BY <2>1, <2>2, AcceptFacts DEF Answered, Onward, Chan
  <2>4. FreshOp(t)'
    BY <1>0, <2>1, <2>2 DEF FreshOp, Onward
  <2>5. Told(t)'
    BY <1>0, <2>1, <2>2, <2>3 DEF Told
  <2> QED
    BY <1>2, <1>3, <2>1, <2>2, <2>4, <2>5 DEF Onward
<1>11. CASE RecordSent(w)
  <2>1. wk[w].op # 0 /\ wk[w].pc \in OnChannel /\ wk[w].op \in 1..Len(ops) /\ UNCHANGED messages
        /\ wk[w].pc = "record" /\ wk[w].pc \in HasOwnOp
    BY <1>11, WorkerFacts DEF RecordSent, At, HasOwnOp, OnChannel
  <2>2. PICK t \in WorkerStates : /\ Onward(w, t) /\ t.pc = "check" /\ t.op = wk[w].op
                                  /\ t.kind = wk[w].kind /\ t.sid = wk[w].sid
    BY <1>11, <2>1, GotoEffect DEF RecordSent, OnChannel, HasOwnOp
  <2>3. OpWritten(wk[w].op, "sent", wk[w].sid)
    BY <1>11, RecordSentEffect
  <2>4. ops'[t.op].sid = t.sid /\ ops'[t.op].chan = First(t.todo) /\ t.op \in 1..Len(ops')
    BY <1>0, <2>1, <2>2, <2>3, OpWrittenFacts DEF FreshOp, Onward
  <2>5. Answered(t.sid, First(t.todo))'
    BY <1>0, <2>1, <2>2 DEF Told, Answered, Onward
  <2>6. Tracked(t.sid, First(t.todo))'
    BY <2>4 DEF Tracked
  <2>7. FreshOp(t)' /\ Told(t)'
    BY <2>2, <2>5, <2>6 DEF FreshOp, Told, HasOwnOp
  <2> QED
    BY <1>2, <1>4, <2>1, <2>2, <2>3, <2>7 DEF Onward
<1>12. CASE RecordFailed(w)
  <2>1. PICK t \in WorkerStates : /\ Onward(w, t) /\ t.pc = "check" /\ t.op = wk[w].op
                                  /\ t.kind = "failed"
    BY <1>12, RecordFailedEffect
  <2>2. OthersKept
    BY <1>4, <1>12, WorkerFacts, RecordFailedEffect DEF RecordFailed, At, HasOwnOp
  <2>3. FreshOp(t)' /\ Told(t)'
    BY <2>1 DEF FreshOp, Told, HasOwnOp
  <2> QED
    BY <1>2, <2>1, <2>2, <2>3 DEF Onward
<1>13. CASE EmitOnceCheck(w)
  <2>1. wk[w].pc \in OnChannel /\ UNCHANGED <<ops, messages>> /\ wk[w].pc = "check"
    BY <1>13 DEF EmitOnceCheck, At, OnChannel
  <2>2. CASE Advance(w)
    BY <1>2, <1>3, <1>5, <2>1, <2>2, AdvanceEffect
  <2>3. CASE Goto(w, "emit")
    <3>1. PICK t \in WorkerStates : /\ Onward(w, t) /\ t.pc = "emit" /\ t.op = wk[w].op
                                    /\ t.kind = wk[w].kind /\ t.sid = wk[w].sid
      BY <2>1, <2>3, GotoEffect DEF OnChannel, HasOwnOp
    <3>2. FreshOp(t)'
      BY <3>1 DEF FreshOp, HasOwnOp
    <3>3. Told(t)'
      BY <1>0, <2>1, <3>1 DEF Told, HasOwnOp, Answered, Tracked, Onward
    <3> QED
      BY <1>2, <1>3, <2>1, <3>1, <3>2, <3>3 DEF Onward
  <2> QED
    BY <1>13, <2>2, <2>3 DEF EmitOnceCheck
<1>14. CASE EmitOnceWrite(w)
  BY <1>2, <1>3, <1>5, <1>14, AdvanceEffect DEF EmitOnceWrite, At, OnChannel
<1>15. CASE Finish(w)
  BY <1>2, <1>3, <1>5, <1>15, IdleFits DEF Finish
<1>16. CASE FinishFailed(w)
  BY <1>2, <1>3, <1>5, <1>16, IdleFits, FailFacts DEF FinishFailed
<1> QED
  BY <1>6, <1>7, <1>8, <1>9, <1>10, <1>11, <1>12, <1>13, <1>14, <1>15, <1>16 DEF WorkerStep

LEMMA TrackIdle ==
   ASSUME Typed, TrackInv, Next, NEW w \in Workers, UNCHANGED ops,
          wk' = [wk EXCEPT ![w] = Idle]
   PROVE  OpsApart' /\ OwnOpIsFresh' /\ AnswersAreKept'
<1>1. OpsGoOn /\ MessagesGrow /\ Len(messages') \in Nat
  BY TablesStep DEF TrackInv
<1>2. Idle \in WorkerStates /\ FreshOp(Idle)' /\ Told(Idle)' /\ Idle.op = 0
  <2>1. Idle \in WorkerStates /\ Idle.pc = "idle" /\ Idle.op = 0
    BY IdleFits
  <2> QED
    BY <2>1 DEF FreshOp, Told, HasOwnOp
<1> QED
  BY <1>1, <1>2, TrackTurn

LEMMA WorkersTrackNext ==
   ASSUME Typed, TrackInv, Next
   PROVE  OpsApart' /\ OwnOpIsFresh' /\ AnswersAreKept'
<1>1. OpsGoOn /\ MessagesGrow /\ Len(messages') \in Nat
  BY TablesStep DEF TrackInv
<1>2. ASSUME NEW w \in Workers, WorkerStep(w) \/ AttemptRaises(w) \/ WorkerCrash(w)
      PROVE  OpsApart' /\ OwnOpIsFresh' /\ AnswersAreKept'
  <2>1. CASE WorkerStep(w)
    BY <2>1, TrackWorkerStep
  <2>2. CASE AttemptRaises(w)
    BY <2>2, FailFacts, TrackIdle DEF AttemptRaises
  <2>3. CASE WorkerCrash(w)
    BY <2>3, CrashFacts, TrackIdle DEF WorkerCrash
  <2> QED
    BY <1>2, <2>1, <2>2, <2>3
<1>3. CASE UNCHANGED <<ops, wk>>
  BY <1>1, <1>3, TrackRest
<1>4. ASSUME NEW h \in Handlers, Apply(h)
      PROVE  OpsApart' /\ OwnOpIsFresh' /\ AnswersAreKept'
  <2>1. hd[h].op \in 1..Len(ops) /\ hd[h].cb[2] \in OpStatuses /\ UNCHANGED wk
    BY <1>4, HandlerFacts DEF Apply, task
  <2>2. CASE UNCHANGED ops
    BY <1>3, <2>1, <2>2
  <2>3. CASE ops' = [ops EXCEPT ![hd[h].op].status = hd[h].cb[2]]
    <3>1. OpWritten(hd[h].op, hd[h].cb[2], ops[hd[h].op].sid)
      BY <2>1, <2>3, StatusWritten
    <3>2. \A k \in 1..Len(ops) : ops'[k].sid = ops[k].sid
      BY <2>1, <3>1, OpWrittenFacts
    <3> QED
      BY <1>1, <2>1, <3>2, TrackRest
  <2> QED
    BY <1>4, <2>2, <2>3 DEF Apply
<1>5. SetPhone \/ (\E m \in 1..Len(messages) : ProviderProgress(m)) => UNCHANGED <<ops, wk>>
  BY DEF SetPhone, ProviderProgress, task
<1>6. ASSUME NEW h \in Handlers,
             \/ \E cb \in callbacks : Receive(h, cb) \/ ReceiveBadSignature(h, cb)
             \/ (HandlerStep(h) /\ ~Apply(h)) \/ HandlerCrash(h)
      PROVE  UNCHANGED <<ops, wk>>
  BY <1>6 DEF HandlerStep, Receive, ReceiveBadSignature, HandlerCrash, Reject, LookupKey,
              AnswerDuplicate, Persist, FindOperation, Settle, task
<1> QED
  BY <1>2, <1>3, <1>4, <1>5, <1>6 DEF Next
-----------------------------------------------------------------------------
(* The callbacks, the log and the claims: the steps. *)

LEMMA CallbacksNext ==
   ASSUME Typed, TrackInv, Next
   PROVE  CallbacksAreTrue'
<1>1. OpsGrow /\ MessagesGrow /\ Len(messages) \in Nat /\ Len(ops) \in Nat
  BY TablesStep, Numbers DEF TrackInv, OpsGoOn
<1>2. /\ CallbacksAreTrue
      /\ \A cb \in callbacks : cb[1] \in 1..Len(messages)
  BY <1>1 DEF TrackInv, Typed, HookTyped
<1>3. \A cb \in callbacks : cb[2] \in Final => messages'[cb[1]].status = cb[2]
  BY <1>1, <1>2 DEF CallbacksAreTrue, MessagesGrow
<1>4. \A g \in Handlers : hd[g].pc # "free" /\ hd[g].cb[2] \in Final =>
                             messages'[hd[g].cb[1]].status = hd[g].cb[2]
  <2>1. \A g \in Handlers : hd[g].pc # "free" => hd[g].cb[1] \in 1..Len(messages)
    BY <1>1, HandlerFacts
  <2> QED
    BY <1>1, <1>2, <2>1 DEF CallbacksAreTrue, MessagesGrow
<1>5. \A g \in Handlers : hd[g].pc = "apply" =>
         hd[g].op \in 1..Len(ops) /\ ops[hd[g].op].sid = hd[g].cb[1] /\ ops'[hd[g].op].sid = hd[g].cb[1]
  <2>1. ASSUME NEW g \in Handlers, hd[g].pc = "apply"
        PROVE  /\ hd[g].op \in 1..Len(ops)
               /\ ops[hd[g].op].sid = hd[g].cb[1] /\ ops'[hd[g].op].sid = hd[g].cb[1]
    <3>1. hd[g].op \in 1..Len(ops) /\ hd[g].cb[1] # 0
      BY <2>1, HandlerFacts
    <3> QED
      BY <1>1, <1>2, <2>1, <3>1 DEF CallbacksAreTrue, OpsGrow
  <2> QED
    BY <2>1
<1>6. \A cb \in callbacks' : cb[2] \in Final => messages'[cb[1]].status = cb[2]
  <2>1. CASE callbacks' \subseteq callbacks
    BY <1>3, <2>1
  <2>2. ASSUME NEW m \in 1..Len(messages), ProviderProgress(m)
        PROVE  \A cb \in callbacks' : cb[2] \in Final => messages'[cb[1]].status = cb[2]
    BY <1>3, <2>2, ProgressFacts
  <2>3. callbacks' \subseteq callbacks \/ \E m \in 1..Len(messages) : ProviderProgress(m)
    BY DEF Next, SetPhone, ProviderProgress, WorkerStep, AttemptRaises, WorkerCrash, Start,
       CreateOperation, LookForEarlierSend, CloseAsAlreadySent, Send, RecordSent, RecordFailed,
       EmitOnceCheck, EmitOnceWrite, Finish, FinishFailed, HandlerStep, Receive,
       ReceiveBadSignature, HandlerCrash, Reject, LookupKey, AnswerDuplicate, Persist,
       FindOperation, Apply, Settle
  <2> QED
    BY <2>1, <2>2, <2>3
<1>7. ASSUME NEW g \in Handlers
      PROVE  /\ hd'[g].pc # "free" /\ hd'[g].cb[2] \in Final =>
                   messages'[hd'[g].cb[1]].status = hd'[g].cb[2]
             /\ hd'[g].pc = "apply" => ops'[hd'[g].op].sid = hd'[g].cb[1]
  <2>1. CASE hd'[g] = hd[g]
    BY <1>4, <1>5, <2>1
  <2>2. ASSUME NEW h \in Handlers, HandlerTurn(h), h = g \/ hd'[g] = hd[g]
        PROVE  /\ hd'[g].pc # "free" /\ hd'[g].cb[2] \in Final =>
                     messages'[hd'[g].cb[1]].status = hd'[g].cb[2]
               /\ hd'[g].pc = "apply" => ops'[hd'[g].op].sid = hd'[g].cb[1]
    <3>1. PICK x \in HandlerStates :
         /\ hd' = [hd EXCEPT ![h] = x]
         /\ x.hook <= Len(hooks') /\ x.op <= Len(ops)
         /\ \/ x.pc = "free" /\ x.cb = <<0, "sent">>
            \/ x.cb \in callbacks
            \/ hd[h].pc # "free" /\ x.cb = hd[h].cb
         /\ x.pc = "apply" => x.op # 0 /\ ops[x.op].sid = x.cb[1]
      BY <2>2 DEF HandlerTurn
    <3>2. hd \in [Handlers -> HandlerStates] /\ x.op \in Nat
      BY DEF Typed, HookTyped, HandlerStates
    <3>3. CASE g # h
      BY <2>1, <3>1, <3>2, <3>3
    <3>4. CASE g = h
      <4>1. hd'[g] = x
        BY <3>1, <3>2, <3>4
      <4>2. x.pc # "free" /\ x.cb[2] \in Final => messages'[x.cb[1]].status = x.cb[2]
        BY <1>3, <1>4, <3>1
      <4>3. x.pc = "apply" => x.cb[1] # 0 /\ x.op \in 1..Len(ops)
        <5>1. ASSUME x.pc = "apply" PROVE x.cb[1] # 0
          <6>1. CASE x.cb \in callbacks
            BY <1>2, <6>1
          <6>2. CASE hd[h].pc # "free" /\ x.cb = hd[h].cb
            BY <6>2, HandlerFacts
          <6> QED
            BY <3>1, <5>1, <6>1, <6>2
        <5> QED
          BY <1>1, <3>1, <3>2, <5>1
      <4>4. x.pc = "apply" => ops'[x.op].sid = x.cb[1]
        BY <1>1, <3>1, <4>3 DEF OpsGrow
      <4> QED
        BY <4>1, <4>2, <4>4
    <3> QED
      BY <3>3, <3>4
  <2>3. UNCHANGED hd \/ \E h \in Handlers : HandlerTurn(h) /\ (h = g \/ hd'[g] = hd[g])
    <3>1. UNCHANGED hd \/ \E h \in Handlers : HandlerTurn(h)
      <4>1. CASE \E h \in Handlers : \/ \E cb \in callbacks : Receive(h, cb) \/ ReceiveBadSignature(h, cb)
                                     \/ HandlerStep(h) \/ HandlerCrash(h)
        BY <4>1, HandlerEffect
      <4>2. CASE ~\E h \in Handlers : \/ \E cb \in callbacks : Receive(h, cb) \/ ReceiveBadSignature(h, cb)
                                      \/ HandlerStep(h) \/ HandlerCrash(h)
        BY <4>2 DEF Next, webhook, SetPhone, ProviderProgress, WorkerStep, AttemptRaises, WorkerCrash,
           Start, CreateOperation, LookForEarlierSend, CloseAsAlreadySent, Send, RecordSent,
           RecordFailed, EmitOnceCheck, EmitOnceWrite, Finish, FinishFailed
      <4> QED
        BY <4>1, <4>2
    <3>2. ASSUME NEW h \in Handlers, HandlerTurn(h) PROVE h = g \/ hd'[g] = hd[g]
      BY <3>2 DEF HandlerTurn, Typed, HookTyped
    <3> QED
      BY <3>1, <3>2
  <2> QED
    BY <2>1, <2>2, <2>3
<1> QED
  BY <1>6, <1>7 DEF CallbacksAreTrue

LEMMA AnnouncedNext ==
   ASSUME Typed, TrackInv, Next
   PROVE  AnnouncedSendIsTracked'
<1>1. /\ OpsGrow /\ MessagesGrow /\ Len(messages) \in Nat /\ Len(messages') \in Nat
      /\ Len(ops) \in Nat /\ Len(ops') \in Nat
  BY TablesStep, Numbers DEF TrackInv, OpsGoOn
<1> DEFINE Sound(e) == /\ e.sid \in 1..Len(messages) /\ messages[e.sid].chan = e.chan
                       /\ \E k \in 1..Len(ops) : ops[k].sid = e.sid /\ ops[k].chan = e.chan
           SoundNext(e) == /\ e.sid \in 1..Len(messages') /\ messages'[e.sid].chan = e.chan
                           /\ \E k \in 1..Len(ops') : ops'[k].sid = e.sid /\ ops'[k].chan = e.chan
<1>2. ASSUME NEW e, Sound(e) PROVE SoundNext(e)
  <2>1. PICK k \in 1..Len(ops) : ops[k].sid = e.sid /\ ops[k].chan = e.chan
    BY <1>2
  <2>2. k \in 1..Len(ops') /\ ops'[k].sid = e.sid /\ ops'[k].chan = e.chan
    BY <1>1, <1>2, <2>1 DEF OpsGrow
  <2>3. e.sid \in 1..Len(messages') /\ messages'[e.sid].chan = e.chan
    BY <1>1, <1>2 DEF MessagesGrow
  <2> QED
    BY <2>2, <2>3
<1>3. \A i \in 1..Len(log) : log[i].kind = "sent" => Sound(log[i])
  BY DEF TrackInv, AnnouncedSendIsTracked
<1>4. \A i \in 1..Len(log') : log'[i].kind = "sent" => SoundNext(log'[i])
  <2>1. CASE UNCHANGED log
    BY <1>2, <1>3, <2>1
  <2>2. ASSUME NEW w \in Workers, EmitOnceWrite(w)
        PROVE  \A i \in 1..Len(log') : log'[i].kind = "sent" => SoundNext(log'[i])
    <3>1. PICK n : /\ n = [kind |-> wk[w].kind, chan |-> Chan(w), sid |-> wk[w].sid]
                   /\ log' = Append(log, n)
      BY <2>2 DEF EmitOnceWrite
    <3>2. n.kind = wk[w].kind /\ n.chan = Chan(w) /\ n.sid = wk[w].sid
      BY <3>1
    <3>3. n.kind = "sent" => Sound(n)
      <4>1. n.kind = "sent" => Answered(n.sid, n.chan) /\ Tracked(n.sid, n.chan)
        BY <2>2, <3>2 DEF TrackInv, AnswersAreKept, Told, EmitOnceWrite, At, Chan
      <4> QED
        BY <4>1 DEF Answered, Tracked
    <3>4. PICK S : log \in Seq(S) /\ n \in S
      <4>1. log \in Seq(LogRecords)
        BY DEF Typed, StoreTyped
      <4>2. log \in Seq(LogRecords \cup {n}) /\ n \in LogRecords \cup {n}
        BY <4>1, SeqWiden
      <4> QED
        BY <4>2
    <3>5. /\ Len(log') = Len(log) + 1 /\ Len(log) \in Nat
          /\ \A i \in 1..Len(log) : log'[i] = log[i]
          /\ log'[Len(log) + 1] = n
      BY <3>1, <3>4, AppendFacts
    <3>6. ASSUME NEW i \in 1..Len(log'), log'[i].kind = "sent" PROVE SoundNext(log'[i])
      <4>1. i \in 1..Len(log) \/ i = Len(log) + 1
        BY <3>5
      <4>2. Sound(log'[i])
        BY <1>3, <3>3, <3>5, <3>6, <4>1
      <4> QED
        BY <1>2, <4>2
    <3> QED
      BY <3>6
  <2> QED
    BY <2>1, <2>2, LogStep
<1> QED
  BY <1>4 DEF AnnouncedSendIsTracked

LEMMA ClaimsNext ==
   ASSUME Typed, TrackInv, Next
   PROVE  DeliveryClaimsAreTrue'
<1>1. /\ OpsGrow /\ MessagesGrow /\ Len(messages) \in Nat /\ Len(ops) \in Nat
      /\ \A k \in 1..Len(ops) : ops[k] \in OpRecords /\ ops[k].sid <= Len(messages)
  BY TablesStep, Numbers DEF TrackInv, OpsGoOn, Typed, StoreTyped
<1>2. \A k \in 1..Len(ops) : ops[k].sid \in Nat
  BY <1>1 DEF OpRecords
<1>3. \A k \in 1..Len(ops) : ops[k].status \in Final =>
         ops[k].sid \in 1..Len(messages) /\ messages[ops[k].sid].status = ops[k].status
  BY <1>1, <1>2 DEF TrackInv, DeliveryClaimsAreTrue, Final
<1> DEFINE Kept(k) == k \in 1..Len(ops) /\ ops'[k] = ops[k]
           True(k) == /\ ops'[k].sid \in 1..Len(messages)
                      /\ messages[ops'[k].sid].status = ops'[k].status
<1>4. ASSUME \A k \in 1..Len(ops') : ops'[k].status \in Final => Kept(k) \/ True(k)
      PROVE  DeliveryClaimsAreTrue'
  <2>1. ASSUME NEW k \in 1..Len(ops'), ops'[k].status \in Final
        PROVE  ops'[k].sid # 0 /\ messages'[ops'[k].sid].status = ops'[k].status
    <3>1. True(k)
      BY <1>3, <1>4, <2>1
    <3> QED
      BY <1>1, <2>1, <3>1 DEF MessagesGrow
  <2> QED
    BY <2>1 DEF DeliveryClaimsAreTrue, Final
<1>5. CASE UNCHANGED ops
  BY <1>4, <1>5
<1>6. ASSUME NEW k \in 1..Len(ops), NEW s, NEW sid, OpWritten(k, s, sid), s \in Final => True(k)
      PROVE  DeliveryClaimsAreTrue'
  BY <1>4, <1>6, OpWrittenFacts
<1>7. ASSUME NEW w \in Workers, WorkerStep(w)
      PROVE  DeliveryClaimsAreTrue'
  <2>1. CASE CreateOperation(w)
    <3>1. OpAdded(Chan(w))
      BY <2>1, CreateEffect
    <3>2. ASSUME NEW k \in 1..Len(ops'), ops'[k].status \in Final PROVE Kept(k)
      BY <3>1, <3>2, OpAddedFacts DEF Final
    <3> QED
      BY <1>4, <3>2
  <2>2. CASE CloseAsAlreadySent(w)
    <3>1. wk[w].op \in 1..Len(ops) /\ UNCHANGED messages
      BY <2>2, WorkerFacts DEF CloseAsAlreadySent, At, HasOwnOp
    <3>2. OpWritten(wk[w].op, "sent", ops[wk[w].op].sid)
      BY <2>2, <3>1, StatusWritten DEF CloseAsAlreadySent, OpStatuses
    <3> QED
      BY <1>6, <3>1, <3>2 DEF Final
  <2>3. CASE RecordFailed(w)
    <3>1. wk[w].op \in 1..Len(ops)
      BY <2>3, WorkerFacts DEF RecordFailed, At, HasOwnOp
    <3> QED
      BY <1>6, <2>3, <3>1, RecordFailedEffect DEF Final
  <2>4. CASE RecordSent(w)
    <3>1. wk[w].op \in 1..Len(ops)
      BY <2>4, WorkerFacts DEF RecordSent, At, HasOwnOp
    <3> QED
      BY <1>6, <2>4, <3>1, RecordSentEffect DEF Final
  <2>5. CASE \/ Start(w) \/ LookForEarlierSend(w) \/ EmitOnceCheck(w) \/ EmitOnceWrite(w)
             \/ Send(w) \/ Finish(w) \/ FinishFailed(w)
    BY <1>5, <2>5 DEF Start, LookForEarlierSend, EmitOnceCheck, EmitOnceWrite, Send, Finish, FinishFailed
  <2> QED
    BY <1>7, <2>1, <2>2, <2>3, <2>4, <2>5 DEF WorkerStep
<1>8. ASSUME NEW h \in Handlers, Apply(h)
      PROVE  DeliveryClaimsAreTrue'
  <2>1. CASE hd[h].seen = hd[h].cb[2]
    BY <1>5, <1>8, <2>1 DEF Apply
  <2>2. CASE hd[h].seen # hd[h].cb[2]
    <3>1. /\ hd[h].op \in 1..Len(ops) /\ hd[h].cb[2] \in OpStatuses
          /\ hd[h].cb[1] # 0 /\ hd[h].cb[1] \in Nat /\ hd[h].cb[1] <= Len(messages)
          /\ hd[h].pc = "apply"
      BY <1>8, HandlerFacts DEF Apply
    <3>2. ops' = [ops EXCEPT ![hd[h].op].status = hd[h].cb[2]]
      BY <1>8, <2>2 DEF Apply
    <3>3. OpWritten(hd[h].op, hd[h].cb[2], ops[hd[h].op].sid)
      BY <3>1, <3>2, StatusWritten
    <3>4. ops[hd[h].op].sid = hd[h].cb[1]
      BY <3>1 DEF TrackInv, CallbacksAreTrue
    <3>5. hd[h].cb[2] \in Final => messages[hd[h].cb[1]].status = hd[h].cb[2]
      BY <3>1 DEF TrackInv, CallbacksAreTrue
    <3>6. hd[h].cb[2] \in Final => True(hd[h].op)
      BY <1>1, <3>1, <3>3, <3>4, <3>5, OpWrittenFacts
    <3> HIDE DEF True
    <3> QED
      BY <1>6, <3>1, <3>3, <3>6
  <2> QED
    BY <2>1, <2>2
<1>9. ASSUME NEW w \in Workers, AttemptRaises(w) \/ WorkerCrash(w)
      PROVE  UNCHANGED ops
  BY <1>9 DEF AttemptRaises, WorkerCrash
<1>10. ASSUME NEW h \in Handlers,
             \/ \E cb \in callbacks : Receive(h, cb) \/ ReceiveBadSignature(h, cb)
             \/ (HandlerStep(h) /\ ~Apply(h)) \/ HandlerCrash(h)
      PROVE  UNCHANGED ops
  BY <1>10 DEF HandlerStep, Receive, ReceiveBadSignature, HandlerCrash, Reject, LookupKey,
              AnswerDuplicate, Persist, FindOperation, Settle
<1>11. SetPhone \/ (\E m \in 1..Len(messages) : ProviderProgress(m)) => UNCHANGED ops
  BY DEF SetPhone, ProviderProgress
<1> QED
  BY <1>5, <1>7, <1>8, <1>9, <1>10, <1>11 DEF Next

LEMMA TrackInit ==
   ASSUME Init
   PROVE  TrackInv
BY DEF Init, TrackInv, OpsApart, OwnOpIsFresh, AnswersAreKept, CallbacksAreTrue,
       AnnouncedSendIsTracked, DeliveryClaimsAreTrue, FreshOp, Told, HasOwnOp, Idle, Free

LEMMA TrackStep ==
   ASSUME Typed, TrackInv, Next
   PROVE  TrackInv'
BY WorkersTrackNext, CallbacksNext, AnnouncedNext, ClaimsNext DEF TrackInv
-----------------------------------------------------------------------------
(* Counting: sets and sequences. *)

LEMMA CardSub ==
   ASSUME NEW B, IsFiniteSet(B), NEW A, A \subseteq B
   PROVE  /\ IsFiniteSet(A) /\ Cardinality(A) \in Nat /\ Cardinality(B) \in Nat
          /\ Cardinality(A) <= Cardinality(B)
BY FS_Subset, FS_CardinalityType

LEMMA CardAdd ==
   ASSUME NEW B, IsFiniteSet(B), NEW x, NEW A, A \subseteq B \cup {x}
   PROVE  /\ IsFiniteSet(A) /\ Cardinality(A) \in Nat /\ Cardinality(B) \in Nat
          /\ Cardinality(A) <= Cardinality(B) + 1
<1>1. IsFiniteSet(B \cup {x}) /\ Cardinality(B \cup {x}) <= Cardinality(B) + 1
      /\ Cardinality(B) \in Nat
  <2>1. /\ IsFiniteSet(B \cup {x})
        /\ Cardinality(B \cup {x}) = IF x \in B THEN Cardinality(B) ELSE Cardinality(B) + 1
    BY FS_AddElement
  <2> QED
    BY <2>1, FS_CardinalityType
<1>2. /\ IsFiniteSet(A) /\ Cardinality(A) \in Nat /\ Cardinality(B \cup {x}) \in Nat
      /\ Cardinality(A) <= Cardinality(B \cup {x})
  BY <1>1, CardSub
<1> QED
  BY <1>1, <1>2

LEMMA CardLess ==
   ASSUME NEW B, IsFiniteSet(B), NEW x \in B, NEW A, A \subseteq B \ {x}
   PROVE  /\ IsFiniteSet(A) /\ Cardinality(A) \in Nat /\ Cardinality(B) \in Nat
          /\ Cardinality(A) + 1 <= Cardinality(B)
<1>1. IsFiniteSet(B \ {x}) /\ Cardinality(B \ {x}) = Cardinality(B) - 1 /\ Cardinality(B) \in Nat
  BY FS_RemoveElement, FS_CardinalityType
<1>2. /\ IsFiniteSet(A) /\ Cardinality(A) \in Nat
      /\ Cardinality(A) <= Cardinality(B \ {x})
  BY <1>1, CardSub
<1> QED
  BY <1>1, <1>2

LEMMA CardAddNew ==
   ASSUME NEW B, IsFiniteSet(B), NEW x, x \notin B
   PROVE  IsFiniteSet(B \cup {x}) /\ Cardinality(B \cup {x}) = Cardinality(B) + 1
BY FS_AddElement

LEMMA OfChannelCounts ==
   ASSUME NEW s, Len(s) \in Nat, NEW c
   PROVE  IsFiniteSet(OfChannel(s, c)) /\ Cardinality(OfChannel(s, c)) \in Nat
<1>1. IsFiniteSet(1..Len(s))
  BY FS_Interval
<1>2. OfChannel(s, c) \subseteq 1..Len(s)
  BY DEF OfChannel
<1> QED
  BY <1>1, <1>2, CardSub

LEMMA OfChannelSame ==
   ASSUME NEW s, NEW t, Len(t) = Len(s), \A i \in 1..Len(s) : t[i].chan = s[i].chan, NEW c
   PROVE  OfChannel(t, c) = OfChannel(s, c)
BY DEF OfChannel

LEMMA OfChannelAdd ==
   ASSUME NEW s, NEW t, Len(s) \in Nat, Len(t) = Len(s) + 1,
          \A i \in 1..Len(s) : t[i].chan = s[i].chan, NEW c
   PROVE  Cardinality(OfChannel(t, c))
             = Cardinality(OfChannel(s, c)) + (IF t[Len(s) + 1].chan = c THEN 1 ELSE 0)
<1>1. 1..Len(t) = (1..Len(s)) \cup {Len(s) + 1} /\ Len(s) + 1 \notin 1..Len(s)
  OBVIOUS
<1>2. CASE t[Len(s) + 1].chan = c
  <2>1. OfChannel(t, c) = OfChannel(s, c) \cup {Len(s) + 1}
    BY <1>1, <1>2 DEF OfChannel
  <2>2. Len(s) + 1 \notin OfChannel(s, c)
    BY <1>1 DEF OfChannel
  <2> QED
    BY <1>2, <2>1, <2>2, OfChannelCounts, CardAddNew
<1>3. CASE t[Len(s) + 1].chan # c
  <2>1. OfChannel(t, c) = OfChannel(s, c)
    BY <1>1, <1>3 DEF OfChannel
  <2> QED
    BY <1>3, <2>1, OfChannelCounts
<1> QED
  BY <1>2, <1>3

LEMMA TasksCount ==
   /\ IsFiniteSet(Tasks) /\ Cardinality(Tasks) = Enqueued /\ Enqueued \in Nat
   /\ \A c : IsFiniteSet(CanSend(c)) /\ Cardinality(CanSend(c)) \in Nat
             /\ Cardinality(CanSend(c)) <= Enqueued
   /\ \A kind, c : IsFiniteSet(CanEmit(kind, c)) /\ Cardinality(CanEmit(kind, c)) \in Nat
                   /\ Cardinality(CanEmit(kind, c)) <= Enqueued
<1>1. Enqueued \in Nat
  BY SettingsAssumption
<1>2. IsFiniteSet(Tasks) /\ Cardinality(Tasks) = Enqueued
  BY <1>1, FS_Interval DEF Tasks
<1>3. \A c : CanSend(c) \subseteq Tasks
  BY DEF CanSend
<1>4. \A kind, c : CanEmit(kind, c) \subseteq Tasks
  BY DEF CanEmit
<1> QED
  BY <1>1, <1>2, <1>3, <1>4, CardSub
-----------------------------------------------------------------------------
(* One attempt per task. *)

\* The attempt goes on, or does not start.
LEMMA ApartOn ==
   ASSUME Typed, TasksApart, NEW w \in Workers, NEW t,
          wk' = [wk EXCEPT ![w] = t], UNCHANGED queue,
          Busy(w), t.task = wk[w].task
   PROVE  TasksApart'
<1>1. wk'[w] = t /\ \A v \in Workers : v # w => wk'[v] = wk[v]
  BY DEF Typed, WorkTyped
<1>2. \A v \in Workers : (Busy(v)' => Busy(v)) /\ wk'[v].task = wk[v].task
  BY <1>1 DEF Busy
<1>3. ASSUME NEW m \in queue'
      PROVE  /\ \A n \in queue' : n.task = m.task => n = m
             /\ \A v \in Workers : Busy(v)' => wk'[v].task # m.task
  BY <1>2 DEF TasksApart
<1>4. ASSUME NEW u \in Workers, NEW v \in Workers, Busy(u)', Busy(v)', wk'[u].task = wk'[v].task
      PROVE  u = v
  BY <1>2, <1>4 DEF TasksApart
<1> QED
  BY <1>3, <1>4 DEF TasksApart

LEMMA ApartStart ==
   ASSUME Typed, TasksApart, NEW w \in Workers, NEW t, NEW m \in queue,
          wk' = [wk EXCEPT ![w] = t], queue' = queue \ {m}, t.task = m.task
   PROVE  TasksApart'
<1>1. wk'[w] = t /\ \A v \in Workers : v # w => wk'[v] = wk[v]
  BY DEF Typed, WorkTyped
<1>2. ASSUME NEW v \in Workers, v # w
      PROVE  (Busy(v)' => Busy(v)) /\ wk'[v].task = wk[v].task
  BY <1>1, <1>2 DEF Busy
<1>3. \A n \in queue' : n \in queue /\ n.task # t.task
  BY DEF TasksApart
<1>4. \A v \in Workers : v # w /\ Busy(v)' => wk'[v].task # t.task
  BY <1>2 DEF TasksApart
<1>5. ASSUME NEW n \in queue'
      PROVE  /\ \A k \in queue' : k.task = n.task => k = n
             /\ \A v \in Workers : Busy(v)' => wk'[v].task # n.task
  <2>1. \A k \in queue' : k.task = n.task => k = n
    BY <1>3, <1>5 DEF TasksApart
  <2>2. ASSUME NEW v \in Workers, Busy(v)' PROVE wk'[v].task # n.task
    BY <1>1, <1>2, <1>3, <2>2 DEF TasksApart
  <2> QED
    BY <2>1, <2>2
<1>6. ASSUME NEW u \in Workers, NEW v \in Workers, Busy(u)', Busy(v)', wk'[u].task = wk'[v].task
      PROVE  u = v
  BY <1>1, <1>2, <1>4, <1>6 DEF TasksApart
<1> QED
  BY <1>5, <1>6 DEF TasksApart

\* The attempt ends, and its task may go back to the queue.
LEMMA ApartEnd ==
   ASSUME Typed, TasksApart, NEW w \in Workers, Busy(w),
          wk' = [wk EXCEPT ![w] = Idle],
          \/ queue' = queue
          \/ \E m \in TaskMessages : queue' = queue \cup {m} /\ m.task = wk[w].task
   PROVE  TasksApart'
<1>1. wk'[w] = Idle /\ \A v \in Workers : v # w => wk'[v] = wk[v]
  BY DEF Typed, WorkTyped
<1>2. ~Busy(w)'
  BY <1>1, IdleFits DEF Busy
<1>3. ASSUME NEW v \in Workers, Busy(v)'
      PROVE  v # w /\ Busy(v) /\ wk'[v].task = wk[v].task /\ wk[v].task # wk[w].task
  BY <1>1, <1>2, <1>3 DEF Busy, TasksApart
<1>4. \A m \in queue : m.task # wk[w].task
  BY DEF TasksApart
<1>5. \A m \in queue' : m \in queue \/ m.task = wk[w].task
  OBVIOUS
<1>6. \A m, n \in queue' : m.task = n.task => m = n
  BY <1>4 DEF TasksApart
<1>7. \A m \in queue', v \in Workers : Busy(v)' => wk'[v].task # m.task
  BY <1>3, <1>5 DEF TasksApart
<1>8. \A u, v \in Workers : Busy(u)' /\ Busy(v)' /\ wk'[u].task = wk'[v].task => u = v
  BY <1>3 DEF TasksApart
<1> QED
  BY <1>6, <1>7, <1>8 DEF TasksApart
-----------------------------------------------------------------------------
(* Who can still send, who can still record. *)

LEMMA OpenTask ==
   ASSUME Typed, NEW w \in Workers
   PROVE  /\ \A c : SendOpen(wk[w], c, Has("sent", c)) => wk[w].task \in CanSend(c)
          /\ \A kind, c : EmitOpen(wk[w], kind, c, Has(kind, c)) => wk[w].task \in CanEmit(kind, c)
<1>1. wk[w].task \in Tasks
  BY WorkerFacts DEF WorkerStates
<1> QED
  BY <1>1 DEF CanSend, CanEmit

LEMMA SendersOn ==
   ASSUME Typed, NEW c, NEW D, NEW w \in Workers, NEW t,
          wk' = [wk EXCEPT ![w] = t],
          Has("sent", c) => Has("sent", c)',
          ~Has("sent", c)' => \A m \in queue' : m \in queue \/ m.task \in CanSend(c) \cup D,
          SendOpen(t, c, Has("sent", c)') => t.task \in CanSend(c) \cup D
   PROVE  CanSend(c)' \subseteq CanSend(c) \cup D
<1>1. wk'[w] = t /\ \A v \in Workers : v # w => wk'[v] = wk[v]
  BY DEF Typed, WorkTyped
<1>2. ASSUME NEW x \in CanSend(c)' PROVE x \in CanSend(c) \cup D
  <2>0. x \in Tasks
    BY DEF CanSend
  <2>1. CASE ~Has("sent", c)' /\ \E m \in queue' : m.task = x
    <3>1. PICK m \in queue' : m.task = x
      BY <2>1
    <3>2. CASE m \in queue
      BY <2>0, <2>1, <3>1, <3>2 DEF CanSend
    <3> QED
      BY <2>1, <3>1, <3>2
  <2>2. ASSUME NEW v \in Workers, wk'[v].task = x, SendOpen(wk'[v], c, Has("sent", c)')
        PROVE  x \in CanSend(c) \cup D
    <3>1. CASE v = w
      BY <1>1, <2>2, <3>1
    <3>2. CASE v # w
      <4>1. wk[v].task = x /\ SendOpen(wk[v], c, Has("sent", c)')
        BY <1>1, <2>2, <3>2
      <4>2. SendOpen(wk[v], c, Has("sent", c))
        BY <4>1 DEF SendOpen
      <4> QED
        BY <4>1, <4>2, OpenTask
    <3> QED
      BY <3>1, <3>2
  <2> QED
    BY <2>1, <2>2 DEF CanSend
<1> QED
  BY <1>2

LEMMA EmittersOn ==
   ASSUME Typed, NEW kind, NEW c, NEW w \in Workers, NEW t,
          wk' = [wk EXCEPT ![w] = t],
          Has(kind, c) => Has(kind, c)',
          ~Has(kind, c)' => \A m \in queue' : m \in queue \/ m.task \in CanEmit(kind, c),
          EmitOpen(t, kind, c, Has(kind, c)') => t.task \in CanEmit(kind, c)
   PROVE  CanEmit(kind, c)' \subseteq CanEmit(kind, c)
<1>1. wk'[w] = t /\ \A v \in Workers : v # w => wk'[v] = wk[v]
  BY DEF Typed, WorkTyped
<1>2. ASSUME NEW x \in CanEmit(kind, c)' PROVE x \in CanEmit(kind, c)
  <2>0. x \in Tasks
    BY DEF CanEmit
  <2>1. CASE ~Has(kind, c)' /\ \E m \in queue' : m.task = x
    <3>1. PICK m \in queue' : m.task = x
      BY <2>1
    <3>2. CASE m \in queue
      BY <2>0, <2>1, <3>1, <3>2 DEF CanEmit
    <3> QED
      BY <2>1, <3>1, <3>2
  <2>2. ASSUME NEW v \in Workers, wk'[v].task = x, EmitOpen(wk'[v], kind, c, Has(kind, c)')
        PROVE  x \in CanEmit(kind, c)
    <3>1. CASE v = w
      BY <1>1, <2>2, <3>1
    <3>2. CASE v # w
      <4>1. wk[v].task = x /\ EmitOpen(wk[v], kind, c, Has(kind, c)')
        BY <1>1, <2>2, <3>2
      <4>2. EmitOpen(wk[v], kind, c, Has(kind, c))
        BY <4>1 DEF EmitOpen
      <4> QED
        BY <4>1, <4>2, OpenTask
    <3> QED
      BY <3>1, <3>2
  <2> QED
    BY <2>1, <2>2 DEF CanEmit
<1> QED
  BY <1>2

\* An attempt that is done leaves its task nothing to do.
LEMMA TaskLeaves ==
   ASSUME Typed, TasksApart', NEW w \in Workers, NEW t, NEW c,
          wk' = [wk EXCEPT ![w] = t], t.pc # "idle"
   PROVE  /\ ~SendOpen(t, c, Has("sent", c)') => t.task \notin CanSend(c)'
          /\ \A kind : ~EmitOpen(t, kind, c, Has(kind, c)') => t.task \notin CanEmit(kind, c)'
<1>1. wk'[w] = t
  BY DEF Typed, WorkTyped
<1>2. Busy(w)'
  BY <1>1 DEF Busy
<1>3. \A m \in queue' : m.task # t.task
  BY <1>1, <1>2 DEF TasksApart
<1>4. \A v \in Workers : wk'[v].pc # "idle" /\ wk'[v].task = t.task => v = w
  BY <1>1, <1>2 DEF TasksApart, Busy
<1>5. ~SendOpen(t, c, Has("sent", c)') => t.task \notin CanSend(c)'
  BY <1>1, <1>3, <1>4 DEF CanSend, SendOpen
<1>6. \A kind : ~EmitOpen(t, kind, c, Has(kind, c)') => t.task \notin CanEmit(kind, c)'
  BY <1>1, <1>3, <1>4 DEF CanEmit, EmitOpen
<1> QED
  BY <1>5, <1>6

\* The log as a worker's step leaves it.
LEMMA HasOn ==
   ASSUME Typed, Next
   PROVE  /\ \A kind, c : Has(kind, c) => Has(kind, c)'
          /\ UNCHANGED log => \A kind, c : Has(kind, c)' <=> Has(kind, c)
          /\ \A w \in Workers : \A kind, c :
                EmitOnceWrite(w) /\ kind = wk[w].kind /\ c = Chan(w) => Has(kind, c)'
<1>1. UNCHANGED log => \A kind, c : Has(kind, c)' <=> Has(kind, c)
  BY DEF Has
<1>2. ASSUME NEW w \in Workers, EmitOnceWrite(w)
      PROVE  /\ \A kind, c : Has(kind, c) => Has(kind, c)'
             /\ \A kind, c : kind = wk[w].kind /\ c = Chan(w) => Has(kind, c)'
  <2>1. PICK n : /\ n = [kind |-> wk[w].kind, chan |-> Chan(w), sid |-> wk[w].sid]
                 /\ log' = Append(log, n)
    BY <1>2 DEF EmitOnceWrite
  <2>2. log \in Seq(LogRecords \cup {n}) /\ n \in LogRecords \cup {n}
    <3>1. log \in Seq(LogRecords)
      BY DEF Typed, StoreTyped
    <3> QED
      BY <3>1, SeqWiden
  <2>3. /\ Len(log') = Len(log) + 1 /\ Len(log) \in Nat
        /\ \A i \in 1..Len(log) : log'[i] = log[i]
        /\ log'[Len(log) + 1] = n
    BY <2>1, <2>2, AppendFacts
  <2>4. n.kind = wk[w].kind /\ n.chan = Chan(w) /\ Len(log) + 1 \in 1..Len(log')
    BY <2>1, <2>3
  <2>5. \A i \in 1..Len(log) : i \in 1..Len(log')
    BY <2>3
  <2>6. ASSUME NEW kind, NEW c, Has(kind, c) PROVE Has(kind, c)'
    <3>1. PICK i \in 1..Len(log) : log[i].kind = kind /\ log[i].chan = c
      BY <2>6 DEF Has
    <3>2. i \in 1..Len(log') /\ log'[i].kind = kind /\ log'[i].chan = c
      BY <2>3, <2>5, <3>1
    <3> QED
      BY <3>2 DEF Has
  <2>7. ASSUME NEW kind, NEW c, kind = wk[w].kind, c = Chan(w) PROVE Has(kind, c)'
    <3>1. \E i \in 1..Len(log') : log'[i].kind = kind /\ log'[i].chan = c
      BY <2>3, <2>4, <2>7
    <3> QED
      BY <3>1 DEF Has
  <2> QED
    BY <2>6, <2>7
<1> QED
  BY <1>1, <1>2, LogStep

LEMMA CanSendShrinks ==
   ASSUME Typed, TrackInv, Next, NEW w \in Workers, WorkerStep(w), NEW c
   PROVE  CanSend(c)' \subseteq CanSend(c)
<1>0. /\ Has("sent", c) => Has("sent", c)'
      /\ UNCHANGED log => (Has("sent", c)' <=> Has("sent", c))
  BY HasOn
<1>1. ASSUME NEW t, wk' = [wk EXCEPT ![w] = t], queue' \subseteq queue,
             SendOpen(t, c, Has("sent", c)') => t.task \in CanSend(c)
      PROVE  CanSend(c)' \subseteq CanSend(c)
  BY <1>0, <1>1, SendersOn, \A m \in queue' : m \in queue, CanSend(c) \cup {} = CanSend(c)
<1>2. SendOpen(wk[w], c, Has("sent", c)) => wk[w].task \in CanSend(c)
  BY OpenTask
\* An attempt that goes on may send only if it could before.
<1>3. ASSUME NEW t, wk' = [wk EXCEPT ![w] = t], UNCHANGED queue, t.task = wk[w].task,
             SendOpen(t, c, Has("sent", c)') => SendOpen(wk[w], c, Has("sent", c))
      PROVE  CanSend(c)' \subseteq CanSend(c)
  BY <1>1, <1>2, <1>3
<1>4. CASE Start(w)
  <2>1. PICK m \in queue, t \in WorkerStates :
           /\ queue' = queue \ {m} /\ wk' = [wk EXCEPT ![w] = t]
           /\ t.task = m.task /\ t.pc \in {"create", "check"}
    BY <1>4, StartEffect
  <2>2. m.task \in Tasks /\ UNCHANGED log
    BY <1>4 DEF Start, Typed, WorkTyped, TaskMessages
  <2>3. ~Has("sent", c) => m.task \in CanSend(c)
    BY <2>2 DEF CanSend
  <2>4. SendOpen(t, c, Has("sent", c)') => ~Has("sent", c)
    BY <1>0, <2>1, <2>2 DEF SendOpen
  <2> QED
    BY <1>1, <2>1, <2>3, <2>4
<1>5. CASE CreateOperation(w)
  <2>1. PICK t \in WorkerStates : Onward(w, t) /\ t.pc = "look"
    BY <1>5, CreateEffect
  <2>2. wk[w].pc = "create" /\ UNCHANGED <<queue, log>>
    BY <1>5 DEF CreateOperation, At
  <2>3. SendOpen(t, c, Has("sent", c)') => SendOpen(wk[w], c, Has("sent", c))
    BY <1>0, <2>1, <2>2 DEF SendOpen
  <2> QED
    BY <1>3, <2>1, <2>2, <2>3 DEF Onward
<1>6. CASE LookForEarlierSend(w)
  <2>1. wk[w].pc = "look" /\ UNCHANGED <<queue, log>> /\ wk[w].pc \in OnChannel /\ wk[w].op # 0
    BY <1>6, WorkerFacts DEF LookForEarlierSend, At, HasOwnOp, OnChannel
  <2>2. PICK pc \in {"already", "send"} : Goto(w, pc) /\ (pc = "send" => ~Has("sent", Chan(w)))
    BY <1>6 DEF LookForEarlierSend
  <2>3. PICK t \in WorkerStates : Onward(w, t) /\ t.pc = pc
    BY <2>1, <2>2, GotoEffect DEF OnChannel
  <2>4. SendOpen(t, c, Has("sent", c)') => SendOpen(wk[w], c, Has("sent", c))
    BY <1>0, <2>1, <2>2, <2>3 DEF SendOpen, Onward, Chan
  <2> QED
    BY <1>3, <2>1, <2>3, <2>4 DEF Onward
<1>7. CASE CloseAsAlreadySent(w)
  <2>1. wk[w].pc = "already" /\ UNCHANGED <<queue, log>> /\ wk[w].pc \in OnChannel /\ Advance(w)
    BY <1>7 DEF CloseAsAlreadySent, At, OnChannel
  <2>2. PICK t \in WorkerStates : /\ wk' = [wk EXCEPT ![w] = t] /\ t.task = wk[w].task
                                  /\ t.pc \in {"create", "check", "end"}
    BY <2>1, AdvanceEffect
  <2>3. SendOpen(t, c, Has("sent", c)') => SendOpen(wk[w], c, Has("sent", c))
    BY <1>0, <2>1, <2>2 DEF SendOpen
  <2> QED
    BY <1>3, <2>1, <2>2, <2>3
<1>8. CASE Send(w)
  <2>1. PICK t \in WorkerStates : Onward(w, t) /\ t.pc \in {"record", "fail"}
    BY <1>8, SendEffect
  <2>2. wk[w].pc = "send" /\ UNCHANGED <<queue, log>>
    BY <1>8 DEF Send, At
  <2>3. SendOpen(t, c, Has("sent", c)') => SendOpen(wk[w], c, Has("sent", c))
    BY <1>0, <2>1, <2>2 DEF SendOpen
  <2> QED
    BY <1>3, <2>1, <2>2, <2>3 DEF Onward
<1>9. CASE RecordSent(w)
  <2>1. wk[w].pc = "record" /\ UNCHANGED <<queue, log>> /\ wk[w].pc \in OnChannel /\ wk[w].op # 0
    BY <1>9, WorkerFacts DEF RecordSent, At, HasOwnOp, OnChannel
  <2>2. PICK t \in WorkerStates : Onward(w, t) /\ t.pc = "check" /\ t.kind = wk[w].kind
    BY <1>9, <2>1, GotoEffect DEF RecordSent, OnChannel, HasOwnOp
  <2>3. SendOpen(t, c, Has("sent", c)') => SendOpen(wk[w], c, Has("sent", c))
    BY <1>0, <2>1, <2>2 DEF SendOpen, Onward
  <2> QED
    BY <1>3, <2>1, <2>2, <2>3 DEF Onward
<1>10. CASE RecordFailed(w)
  <2>1. PICK t \in WorkerStates : Onward(w, t) /\ t.pc = "check"
    BY <1>10, RecordFailedEffect
  <2>2. wk[w].pc = "fail" /\ UNCHANGED <<queue, log>>
    BY <1>10 DEF RecordFailed, At
  <2>3. SendOpen(t, c, Has("sent", c)') => SendOpen(wk[w], c, Has("sent", c))
    BY <1>0, <2>1, <2>2 DEF SendOpen
  <2> QED
    BY <1>3, <2>1, <2>2, <2>3 DEF Onward
<1>11. CASE EmitOnceCheck(w)
  <2>1. wk[w].pc = "check" /\ UNCHANGED <<queue, log>> /\ wk[w].pc \in OnChannel
    BY <1>11 DEF EmitOnceCheck, At, OnChannel
  <2>2. CASE Has(wk[w].kind, Chan(w)) /\ Advance(w)
    <3>1. PICK t \in WorkerStates : /\ wk' = [wk EXCEPT ![w] = t] /\ t.task = wk[w].task
                                    /\ t.pc \in {"create", "check", "end"}
      BY <2>1, <2>2, AdvanceEffect
    <3>2. SendOpen(t, c, Has("sent", c)') => SendOpen(wk[w], c, Has("sent", c))
      BY <1>0, <2>1, <2>2, <3>1 DEF SendOpen, Chan
    <3> QED
      BY <1>3, <2>1, <3>1, <3>2
  <2>3. CASE Goto(w, "emit")
    <3>1. PICK t \in WorkerStates : Onward(w, t) /\ t.pc = "emit" /\ t.kind = wk[w].kind
      BY <2>1, <2>3, GotoEffect DEF OnChannel, HasOwnOp
    <3>2. SendOpen(t, c, Has("sent", c)') => SendOpen(wk[w], c, Has("sent", c))
      BY <1>0, <2>1, <3>1 DEF SendOpen, Onward
    <3> QED
      BY <1>3, <2>1, <3>1, <3>2 DEF Onward
  <2> QED
    BY <1>11, <2>2, <2>3 DEF EmitOnceCheck
<1>12. CASE EmitOnceWrite(w)
  <2>1. wk[w].pc = "emit" /\ UNCHANGED queue /\ wk[w].pc \in OnChannel /\ Advance(w)
    BY <1>12 DEF EmitOnceWrite, At, OnChannel
  <2>2. PICK t \in WorkerStates : /\ wk' = [wk EXCEPT ![w] = t] /\ t.task = wk[w].task
                                  /\ t.pc \in {"create", "check", "end"}
    BY <2>1, AdvanceEffect
  <2>3. wk[w].kind = "sent" /\ Chan(w) = c => Has("sent", c)'
    BY <1>12, HasOn
  <2>4. SendOpen(t, c, Has("sent", c)') => SendOpen(wk[w], c, Has("sent", c))
    BY <1>0, <2>1, <2>2, <2>3 DEF SendOpen, Chan
  <2> QED
    BY <1>3, <2>1, <2>2, <2>4
<1>13. CASE Finish(w)
  <2>1. wk' = [wk EXCEPT ![w] = Idle] /\ UNCHANGED queue
    BY <1>13 DEF Finish
  <2>2. ~SendOpen(Idle, c, Has("sent", c)')
    BY IdleFits DEF SendOpen
  <2> QED
    BY <1>1, <2>1, <2>2
<1>14. CASE FinishFailed(w)
  <2>1. /\ wk' = [wk EXCEPT ![w] = Idle] /\ UNCHANGED log /\ wk[w].pc = "end"
        /\ \/ queue' = queue
           \/ \E m \in TaskMessages : queue' = queue \cup {m} /\ m.task = wk[w].task
    BY <1>14, FailFacts DEF FinishFailed, At
  <2>2. ~SendOpen(Idle, c, Has("sent", c)')
    BY IdleFits DEF SendOpen
  <2>3. ~Has("sent", c)' => wk[w].task \in CanSend(c)
    BY <1>0, <1>2, <2>1 DEF SendOpen
  <2>4. ~Has("sent", c)' => \A m \in queue' : m \in queue \/ m.task \in CanSend(c) \cup {}
    BY <2>1, <2>3
  <2>5. CanSend(c)' \subseteq CanSend(c) \cup {}
    BY <1>0, <2>1, <2>2, <2>4, SendersOn
  <2> QED
    BY <2>5
<1> QED
  BY <1>4, <1>5, <1>6, <1>7, <1>8, <1>9, <1>10, <1>11, <1>12, <1>13, <1>14 DEF WorkerStep

LEMMA CanSendRaised ==
   ASSUME Typed, Next, NEW w \in Workers, NEW c, UNCHANGED log,
          wk' = [wk EXCEPT ![w] = Idle],
          \/ queue' = queue
          \/ \E m \in TaskMessages : queue' = queue \cup {m} /\ m.task = wk[w].task
   PROVE  CanSend(c)' \subseteq CanSend(c) \cup {wk[w].task}
<1>1. PICK x : x = wk[w].task
  OBVIOUS
<1>2. ~SendOpen(Idle, c, Has("sent", c)')
  BY IdleFits DEF SendOpen
<1>3. Has("sent", c)' <=> Has("sent", c)
  BY HasOn
<1>4. \A m \in queue' : m \in queue \/ m.task \in CanSend(c) \cup {x}
  BY <1>1
<1>5. CanSend(c)' \subseteq CanSend(c) \cup {x}
  BY <1>2, <1>3, <1>4, SendersOn
<1> QED
  BY <1>1, <1>5

LEMMA CanEmitEnds ==
   ASSUME Typed, Next, NEW w \in Workers, NEW kind, NEW c, UNCHANGED log, Busy(w),
          wk' = [wk EXCEPT ![w] = Idle],
          \/ queue' = queue
          \/ \E m \in TaskMessages : queue' = queue \cup {m} /\ m.task = wk[w].task
   PROVE  CanEmit(kind, c)' \subseteq CanEmit(kind, c)
<1>1. Has(kind, c)' <=> Has(kind, c)
  BY HasOn
<1>2. ~EmitOpen(Idle, kind, c, Has(kind, c)')
  BY IdleFits DEF EmitOpen
<1>3. ~Has(kind, c) => wk[w].task \in CanEmit(kind, c)
  BY OpenTask DEF EmitOpen, Busy
<1>4. ~Has(kind, c)' => \A m \in queue' : m \in queue \/ m.task \in CanEmit(kind, c)
  BY <1>1, <1>3
<1> QED
  BY <1>1, <1>2, <1>4, EmittersOn

LEMMA CanEmitShrinks ==
   ASSUME Typed, TrackInv, Next, NEW w \in Workers, WorkerStep(w), NEW kind, NEW c
   PROVE  CanEmit(kind, c)' \subseteq CanEmit(kind, c)
<1>0. /\ Has(kind, c) => Has(kind, c)'
      /\ UNCHANGED log => (Has(kind, c)' <=> Has(kind, c))
  BY HasOn
<1>1. ASSUME NEW t, wk' = [wk EXCEPT ![w] = t], queue' \subseteq queue,
             EmitOpen(t, kind, c, Has(kind, c)') => t.task \in CanEmit(kind, c)
      PROVE  CanEmit(kind, c)' \subseteq CanEmit(kind, c)
  BY <1>0, <1>1, EmittersOn, \A m \in queue' : m \in queue
<1>2. EmitOpen(wk[w], kind, c, Has(kind, c)) => wk[w].task \in CanEmit(kind, c)
  BY OpenTask
<1>3. ASSUME NEW t, wk' = [wk EXCEPT ![w] = t], UNCHANGED queue, t.task = wk[w].task,
             Busy(w),
             t.pc = "emit" /\ First(t.todo) = c /\ t.kind = kind => ~Has(kind, c)'
      PROVE  CanEmit(kind, c)' \subseteq CanEmit(kind, c)
  <2>1. EmitOpen(t, kind, c, Has(kind, c)') => EmitOpen(wk[w], kind, c, Has(kind, c))
    BY <1>0, <1>3 DEF EmitOpen, Busy
  <2> QED
    BY <1>1, <1>2, <1>3, <2>1
<1>4. CASE Start(w)
  <2>1. PICK m \in queue, t \in WorkerStates :
           /\ queue' = queue \ {m} /\ wk' = [wk EXCEPT ![w] = t]
           /\ t.task = m.task /\ t.pc \in {"create", "check"}
    BY <1>4, StartEffect
  <2>2. m.task \in Tasks /\ UNCHANGED log
    BY <1>4 DEF Start, Typed, WorkTyped, TaskMessages
  <2>3. ~Has(kind, c) => m.task \in CanEmit(kind, c)
    BY <2>2 DEF CanEmit
  <2>4. EmitOpen(t, kind, c, Has(kind, c)') => ~Has(kind, c)
    BY <1>0, <2>1, <2>2 DEF EmitOpen
  <2> QED
    BY <1>1, <2>1, <2>3, <2>4
<1>5. CASE CreateOperation(w) \/ Send(w) \/ RecordFailed(w)
  <2>1. PICK t \in WorkerStates : Onward(w, t) /\ t.pc # "emit"
    BY <1>5, CreateEffect, SendEffect, RecordFailedEffect
  <2>2. UNCHANGED queue /\ Busy(w)
    BY <1>5 DEF CreateOperation, Send, RecordFailed, At, Busy
  <2> QED
    BY <1>3, <2>1, <2>2 DEF Onward
<1>6. CASE LookForEarlierSend(w) \/ RecordSent(w)
  <2>1. UNCHANGED queue /\ wk[w].pc \in OnChannel /\ wk[w].op # 0 /\ Busy(w)
    BY <1>6, WorkerFacts DEF LookForEarlierSend, RecordSent, At, HasOwnOp, OnChannel, Busy
  <2>2. PICK pc \in {"already", "send", "check"} : Goto(w, pc)
    BY <1>6 DEF LookForEarlierSend, RecordSent
  <2>3. PICK t \in WorkerStates : Onward(w, t) /\ t.pc = pc
    BY <2>1, <2>2, GotoEffect DEF OnChannel
  <2> QED
    BY <1>3, <2>1, <2>2, <2>3 DEF Onward
<1>7. ASSUME Advance(w), UNCHANGED queue, wk[w].pc \in OnChannel
      PROVE  CanEmit(kind, c)' \subseteq CanEmit(kind, c)
  <2>1. PICK t \in WorkerStates : /\ wk' = [wk EXCEPT ![w] = t] /\ t.task = wk[w].task
                                  /\ t.pc \in {"create", "check", "end"}
    BY <1>7, AdvanceEffect
  <2> QED
    BY <1>3, <1>7, <2>1 DEF OnChannel, Busy
<1>8. CASE CloseAsAlreadySent(w) \/ EmitOnceWrite(w)
  BY <1>7, <1>8 DEF CloseAsAlreadySent, EmitOnceWrite, At, OnChannel
<1>9. CASE EmitOnceCheck(w)
  <2>1. UNCHANGED <<queue, log>> /\ wk[w].pc \in OnChannel /\ Busy(w)
    BY <1>9 DEF EmitOnceCheck, At, OnChannel, Busy
  <2>2. CASE Advance(w)
    BY <1>7, <2>1, <2>2
  <2>3. CASE ~Has(wk[w].kind, Chan(w)) /\ Goto(w, "emit")
    <3>1. PICK t \in WorkerStates : Onward(w, t) /\ t.pc = "emit" /\ t.kind = wk[w].kind
      BY <2>1, <2>3, GotoEffect DEF OnChannel, HasOwnOp
    <3> QED
      BY <1>0, <1>3, <2>1, <2>3, <3>1 DEF Onward, Chan
  <2> QED
    BY <1>9, <2>2, <2>3 DEF EmitOnceCheck
<1>10. CASE Finish(w)
  <2>1. wk' = [wk EXCEPT ![w] = Idle] /\ UNCHANGED <<queue, log>> /\ Busy(w)
    BY <1>10 DEF Finish, At, Busy
  <2> QED
    BY <2>1, CanEmitEnds
<1>11. CASE FinishFailed(w)
  <2>1. /\ wk' = [wk EXCEPT ![w] = Idle] /\ UNCHANGED log /\ Busy(w)
        /\ \/ queue' = queue
           \/ \E m \in TaskMessages : queue' = queue \cup {m} /\ m.task = wk[w].task
    BY <1>11, FailFacts DEF FinishFailed, At, Busy
  <2> QED
    BY <2>1, CanEmitEnds
<1> QED
  BY <1>4, <1>5, <1>6, <1>8, <1>9, <1>10, <1>11 DEF WorkerStep
-----------------------------------------------------------------------------
(* Counting: the steps. *)

\* A step of another actor: the webhook, the provider, the administrator.
Elsewhere ==
   \/ SetPhone
   \/ \E m \in 1..Len(messages) : ProviderProgress(m)
   \/ \E h \in Handlers : \/ \E cb \in callbacks : Receive(h, cb) \/ ReceiveBadSignature(h, cb)
                          \/ HandlerStep(h) \/ HandlerCrash(h)

LEMMA ElsewhereKeeps ==
   ASSUME Elsewhere
   PROVE  /\ UNCHANGED <<log, queue, wk>>
          /\ lost' = lost \/ Disturb("copy") \/ Disturb("crash")
BY DEF Elsewhere, task, SetPhone, ProviderProgress, HandlerStep, Receive, ReceiveBadSignature,
       HandlerCrash, Reject, LookupKey, AnswerDuplicate, Persist, FindOperation, Apply, Settle

LEMMA TasksApartNext ==
   ASSUME Typed, TrackInv, TasksApart, Next
   PROVE  TasksApart'
<1>1. CASE Elsewhere
  BY <1>1, ElsewhereKeeps DEF TasksApart, Busy
<1>2. ASSUME NEW w \in Workers, WorkerStep(w)
      PROVE  TasksApart'
  <2>0. ASSUME NEW t, wk' = [wk EXCEPT ![w] = t], UNCHANGED queue, Busy(w), t.task = wk[w].task
        PROVE  TasksApart'
    BY <2>0, ApartOn
  <2>1. CASE Start(w)
    BY <2>1, StartEffect, ApartStart
  <2>2. CASE CreateOperation(w) \/ Send(w) \/ RecordFailed(w)
    <3>1. PICK t \in WorkerStates : Onward(w, t)
      BY <2>2, CreateEffect, SendEffect, RecordFailedEffect
    <3>2. UNCHANGED queue /\ Busy(w)
      BY <2>2 DEF CreateOperation, Send, RecordFailed, At, Busy
    <3> QED
      BY <2>0, <3>1, <3>2 DEF Onward
  <2>3. ASSUME NEW pc \in OnChannel, Goto(w, pc), wk[w].pc \in OnChannel,
               wk[w].op # 0 \/ pc \notin HasOwnOp, UNCHANGED queue
        PROVE  TasksApart'
    BY <2>0, <2>3, GotoEffect DEF Onward, Busy, OnChannel
  <2>4. CASE LookForEarlierSend(w) \/ RecordSent(w)
    <3>1. UNCHANGED queue /\ wk[w].pc \in OnChannel /\ wk[w].op # 0
      BY <2>4, WorkerFacts DEF LookForEarlierSend, RecordSent, At, HasOwnOp, OnChannel
    <3>2. PICK pc \in {"already", "send", "check"} : Goto(w, pc)
      BY <2>4 DEF LookForEarlierSend, RecordSent
    <3> QED
      BY <2>3, <3>1, <3>2 DEF OnChannel
  <2>5. ASSUME Advance(w), UNCHANGED queue, wk[w].pc \in OnChannel
        PROVE  TasksApart'
    BY <2>0, <2>5, AdvanceEffect DEF Busy, OnChannel
  <2>6. CASE CloseAsAlreadySent(w) \/ EmitOnceWrite(w) \/ EmitOnceCheck(w)
    <3>1. UNCHANGED queue /\ wk[w].pc \in OnChannel /\ (Advance(w) \/ Goto(w, "emit"))
      BY <2>6 DEF CloseAsAlreadySent, EmitOnceWrite, EmitOnceCheck, At, OnChannel
    <3> QED
      BY <2>3, <2>5, <3>1 DEF OnChannel, HasOwnOp
  <2>7. CASE Finish(w) \/ FinishFailed(w)
    <3>1. /\ wk' = [wk EXCEPT ![w] = Idle] /\ Busy(w)
          /\ \/ queue' = queue
             \/ \E m \in TaskMessages : queue' = queue \cup {m} /\ m.task = wk[w].task
      BY <2>7, FailFacts DEF Finish, FinishFailed, At, Busy
    <3> QED
      BY <3>1, ApartEnd
  <2> QED
    BY <1>2, <2>1, <2>2, <2>4, <2>6, <2>7 DEF WorkerStep
<1>3. ASSUME NEW w \in Workers, AttemptRaises(w) \/ WorkerCrash(w)
      PROVE  TasksApart'
  <2>1. /\ wk' = [wk EXCEPT ![w] = Idle] /\ Busy(w)
        /\ \/ queue' = queue
           \/ \E m \in TaskMessages : queue' = queue \cup {m} /\ m.task = wk[w].task
    BY <1>3, FailFacts, CrashFacts DEF AttemptRaises, WorkerCrash, At, Busy
  <2> QED
    BY <2>1, ApartEnd
<1> QED
  BY <1>1, <1>2, <1>3 DEF Next, Elsewhere

\* The numbers of messages and operations per channel.
Sent(c) == Cardinality(OfChannel(messages, c))
Rows(c) == Cardinality(OfChannel(ops, c))

LEMMA TablesCount ==
   ASSUME Typed, TrackInv, Next, NEW c
   PROVE  /\ Sent(c) \in Nat /\ Rows(c) \in Nat /\ Sent(c)' \in Nat /\ Rows(c)' \in Nat
          /\ Len(messages') = Len(messages) => Sent(c)' = Sent(c)
          /\ \A w \in Workers :
                Accept(w) /\ wk[w].pc \in OnChannel =>
                   Sent(c)' = Sent(c) + (IF Chan(w) = c THEN 1 ELSE 0)
          /\ Len(ops') = Len(ops) => Rows(c)' = Rows(c)
          /\ \A k : OpAdded(k) => Rows(c)' = Rows(c) + (IF k = c THEN 1 ELSE 0)
<1>1. /\ OpsGrow /\ MessagesGrow /\ Len(messages) \in Nat /\ Len(messages') \in Nat
      /\ Len(ops) \in Nat /\ Len(ops') \in Nat
  BY TablesStep, Numbers DEF TrackInv, OpsGoOn
<1>2. Sent(c) \in Nat /\ Rows(c) \in Nat /\ Sent(c)' \in Nat /\ Rows(c)' \in Nat
  BY <1>1, OfChannelCounts DEF Sent, Rows
<1>3. Len(messages') = Len(messages) => Sent(c)' = Sent(c)
  BY <1>1, OfChannelSame DEF Sent, MessagesGrow
<1>4. Len(ops') = Len(ops) => Rows(c)' = Rows(c)
  BY <1>1, OfChannelSame DEF Rows, OpsGrow
<1>5. ASSUME NEW w \in Workers, Accept(w), wk[w].pc \in OnChannel
      PROVE  Sent(c)' = Sent(c) + (IF Chan(w) = c THEN 1 ELSE 0)
  <2>1. Len(messages') = Len(messages) + 1 /\ messages'[Len(messages) + 1].chan = Chan(w)
    BY <1>5, AcceptFacts
  <2>2. \A i \in 1..Len(messages) : messages'[i].chan = messages[i].chan
    BY <1>1 DEF MessagesGrow
  <2> QED
    BY <1>1, <2>1, <2>2, OfChannelAdd DEF Sent
<1>6. ASSUME NEW k, OpAdded(k)
      PROVE  Rows(c)' = Rows(c) + (IF k = c THEN 1 ELSE 0)
  <2>1. Len(ops') = Len(ops) + 1 /\ ops'[Len(ops) + 1].chan = k
    BY <1>6, OpAddedFacts
  <2>2. \A i \in 1..Len(ops) : ops'[i].chan = ops[i].chan
    BY <1>1 DEF OpsGrow
  <2> QED
    BY <1>1, <2>1, <2>2, OfChannelAdd DEF Rows
<1> QED
  BY <1>2, <1>3, <1>4, <1>5, <1>6

\* Which steps change how many rows there are.
LEMMA LengthsKept ==
   ASSUME Typed, TrackInv, Next
   PROVE  /\ Len(messages') = Len(messages) \/ \E w \in Workers : Send(w) /\ Accept(w)
          /\ Len(ops') = Len(ops) \/ \E w \in Workers : CreateOperation(w)
<1>1. Len(messages') = Len(messages) \/ \E w \in Workers : Send(w) /\ Accept(w)
  <2>1. ASSUME NEW m \in 1..Len(messages), ProviderProgress(m)
        PROVE  Len(messages') = Len(messages)
    BY <2>1, ProgressFacts
  <2>2. \/ UNCHANGED messages
        \/ \E w \in Workers : Send(w) /\ Accept(w)
        \/ \E m \in 1..Len(messages) : ProviderProgress(m)
    BY DEF Next, SetPhone, WorkerStep, AttemptRaises, WorkerCrash, Start,
       CreateOperation, LookForEarlierSend, CloseAsAlreadySent, Send, RecordSent, RecordFailed,
       EmitOnceCheck, EmitOnceWrite, Finish, FinishFailed, HandlerStep, Receive,
       ReceiveBadSignature, HandlerCrash, Reject, LookupKey, AnswerDuplicate, Persist,
       FindOperation, Apply, Settle
  <2> QED
    BY <2>1, <2>2
<1>2. Len(ops') = Len(ops) \/ \E w \in Workers : CreateOperation(w)
  <2>0. ops \in Seq(OpRecords)
    BY DEF Typed, StoreTyped
  <2>1. ASSUME NEW w \in Workers, CloseAsAlreadySent(w) \/ RecordFailed(w)
        PROVE  Len(ops') = Len(ops)
    <3>1. wk[w].op \in 1..Len(ops)
      BY <2>1, WorkerFacts DEF CloseAsAlreadySent, RecordFailed, At, HasOwnOp
    <3>2. \E s, sid : OpWritten(wk[w].op, s, sid)
      BY <2>1, <3>1, StatusWritten, RecordFailedEffect DEF CloseAsAlreadySent, OpStatuses
    <3> QED
      BY <3>1, <3>2, OpWrittenFacts
  <2>2. ASSUME NEW w \in Workers, RecordSent(w)
        PROVE  Len(ops') = Len(ops)
    <3>1. wk[w].op \in 1..Len(ops)
      BY <2>2, WorkerFacts DEF RecordSent, At, HasOwnOp
    <3> QED
      BY <2>2, <3>1, RecordSentEffect, OpWrittenFacts
  <2>3. ASSUME NEW h \in Handlers, Apply(h)
        PROVE  Len(ops') = Len(ops)
    <3>1. hd[h].op \in 1..Len(ops) /\ hd[h].cb[2] \in OpStatuses
      BY <2>3, HandlerFacts DEF Apply
    <3>2. ops' = ops \/ OpWritten(hd[h].op, hd[h].cb[2], ops[hd[h].op].sid)
      BY <2>3, <3>1, StatusWritten DEF Apply
    <3> QED
      BY <3>1, <3>2, OpWrittenFacts
  <2>4. \/ UNCHANGED ops
        \/ \E w \in Workers : \/ CreateOperation(w) \/ CloseAsAlreadySent(w)
                              \/ RecordFailed(w) \/ RecordSent(w)
        \/ \E h \in Handlers : Apply(h)
    BY DEF Next, SetPhone, ProviderProgress, WorkerStep, AttemptRaises, WorkerCrash, Start,
       LookForEarlierSend, Send, EmitOnceCheck, EmitOnceWrite, Finish, FinishFailed,
       HandlerStep, Receive, ReceiveBadSignature, HandlerCrash, Reject, LookupKey,
       AnswerDuplicate, Persist, FindOperation, Settle
  <2> QED
    BY <2>1, <2>2, <2>3, <2>4
<1> QED
  BY <1>1, <1>2

LEMMA OpsSufficeNext ==
   ASSUME Typed, TrackInv, OpsSuffice, Next
   PROVE  OpsSuffice'
<1>0. Channels' = Channels
  BY SettingStays DEF Next
<1> SUFFICES ASSUME NEW c \in Channels
             PROVE  /\ IsFiniteSet(Sending(c)')
                    /\ Sent(c)' + Cardinality(Sending(c)') <= Rows(c)'
  BY <1>0 DEF OpsSuffice, Sent, Rows
<1>1. /\ IsFiniteSet(Sending(c)) /\ Cardinality(Sending(c)) \in Nat
      /\ Sent(c) + Cardinality(Sending(c)) <= Rows(c)
      /\ Sent(c) \in Nat /\ Rows(c) \in Nat /\ Sent(c)' \in Nat /\ Rows(c)' \in Nat
  BY FS_CardinalityType, TablesCount DEF OpsSuffice, Sent, Rows
\* The attempt at hand is all that can join or leave.
<1>2. ASSUME NEW w \in Workers, NEW t, wk' = [wk EXCEPT ![w] = t]
      PROVE  /\ Sending(c)' \subseteq Sending(c) \cup {w}
             /\ ~(t.pc \in {"look", "send"} /\ First(t.todo) = c) =>
                   Sending(c)' \subseteq Sending(c) \ {w}
             /\ w \in Sending(c) => Sending(c)' \subseteq Sending(c)
  <2>1. wk'[w] = t /\ \A v \in Workers : v # w => wk'[v] = wk[v]
    BY <1>2 DEF Typed, WorkTyped
  <2> QED
    BY <2>1 DEF Sending, Chan
<1>3. ASSUME Len(messages') = Len(messages), Len(ops') = Len(ops), Sending(c)' \subseteq Sending(c)
      PROVE  /\ IsFiniteSet(Sending(c)')
             /\ Sent(c)' + Cardinality(Sending(c)') <= Rows(c)'
  BY <1>1, <1>3, TablesCount, CardSub
<1>4. ASSUME NEW w \in Workers, CreateOperation(w)
      PROVE  /\ IsFiniteSet(Sending(c)')
             /\ Sent(c)' + Cardinality(Sending(c)') <= Rows(c)'
  <2>1. PICK t \in WorkerStates : Onward(w, t)
    BY <1>4, CreateEffect
  <2>2. OpAdded(Chan(w)) /\ Sent(c)' = Sent(c)
    BY <1>4, CreateEffect DEF CreateOperation, Sent
  <2>3. Rows(c)' = Rows(c) + (IF Chan(w) = c THEN 1 ELSE 0)
    BY <2>2, TablesCount
  <2>4. CASE Chan(w) = c
    <3>1. Sending(c)' \subseteq Sending(c) \cup {w}
      BY <1>2, <2>1 DEF Onward
    <3>2. IsFiniteSet(Sending(c)') /\ Cardinality(Sending(c)') \in Nat
          /\ Cardinality(Sending(c)') <= Cardinality(Sending(c)) + 1
      BY <1>1, <3>1, CardAdd
    <3> QED
      BY <1>1, <2>2, <2>3, <2>4, <3>2
  <2>5. CASE Chan(w) # c
    <3>1. Sending(c)' \subseteq Sending(c)
      BY <1>2, <2>1, <2>5 DEF Onward, Chan
    <3> QED
      BY <1>1, <2>2, <2>3, <2>5, <3>1, CardSub
  <2> QED
    BY <2>4, <2>5
<1>5. ASSUME NEW w \in Workers, Send(w)
      PROVE  /\ IsFiniteSet(Sending(c)')
             /\ Sent(c)' + Cardinality(Sending(c)') <= Rows(c)'
  <2>1. PICK t \in WorkerStates : Onward(w, t) /\ t.pc \in {"record", "fail"}
    BY <1>5, SendEffect
  <2>2. Sending(c)' \subseteq Sending(c) \ {w}
    BY <1>2, <2>1 DEF Onward
  <2>3. UNCHANGED ops /\ wk[w].pc \in OnChannel /\ wk[w].pc = "send" /\ (UNCHANGED messages \/ Accept(w))
    BY <1>5 DEF Send, At, OnChannel
  <2>4. CASE UNCHANGED messages
    BY <1>3, <2>2, <2>3, <2>4
  <2>5. CASE Accept(w) /\ Chan(w) # c
    <3>1. Sent(c)' = Sent(c) /\ Rows(c)' = Rows(c)
      BY <1>1, <2>3, <2>5, TablesCount
    <3> QED
      BY <1>1, <2>2, <3>1, CardSub
  <2>6. CASE Accept(w) /\ Chan(w) = c
    <3>1. Sent(c)' = Sent(c) + 1 /\ Rows(c)' = Rows(c)
      BY <2>3, <2>6, TablesCount
    <3>2. w \in Sending(c)
      BY <2>3, <2>6 DEF Sending
    <3> QED
      BY <1>1, <2>2, <3>1, <3>2, CardLess
  <2> QED
    BY <2>3, <2>4, <2>5, <2>6
<1>6. ASSUME NEW w \in Workers, LookForEarlierSend(w)
      PROVE  Sending(c)' \subseteq Sending(c)
  <2>1. PICK pc \in {"already", "send"} : Goto(w, pc)
    BY <1>6 DEF LookForEarlierSend
  <2>2. wk[w].pc = "look" /\ wk[w].op # 0 /\ wk[w].pc \in OnChannel
    BY <1>6, WorkerFacts DEF LookForEarlierSend, At, HasOwnOp, OnChannel
  <2>3. PICK t \in WorkerStates : Onward(w, t)
    BY <2>1, <2>2, GotoEffect DEF OnChannel
  <2> QED
    BY <1>2, <2>2, <2>3 DEF Onward, Chan, Sending
<1>7. ASSUME NEW w \in Workers, WorkerStep(w), ~CreateOperation(w), ~Send(w), ~LookForEarlierSend(w)
      PROVE  Sending(c)' \subseteq Sending(c)
  <2>0. ASSUME NEW t, wk' = [wk EXCEPT ![w] = t], t.pc \notin {"look", "send"}
        PROVE  Sending(c)' \subseteq Sending(c)
    BY <1>2, <2>0
  <2>1. CASE Start(w)
    BY <2>0, <2>1, StartEffect
  <2>2. CASE RecordFailed(w)
    BY <2>0, <2>2, RecordFailedEffect DEF Onward
  <2>3. CASE RecordSent(w)
    <3>1. wk[w].pc \in OnChannel
      BY <2>3 DEF RecordSent, At, OnChannel
    <3> QED
      BY <2>0, <2>3, <3>1, GotoEffect DEF RecordSent, OnChannel, HasOwnOp, Onward
  <2>4. ASSUME Advance(w), wk[w].pc \in OnChannel
        PROVE  Sending(c)' \subseteq Sending(c)
    BY <2>0, <2>4, AdvanceEffect
  <2>5. CASE CloseAsAlreadySent(w) \/ EmitOnceWrite(w)
    BY <2>4, <2>5 DEF CloseAsAlreadySent, EmitOnceWrite, At, OnChannel
  <2>6. CASE EmitOnceCheck(w)
    <3>1. wk[w].pc \in OnChannel /\ (Advance(w) \/ Goto(w, "emit"))
      BY <2>6 DEF EmitOnceCheck, At, OnChannel
    <3> QED
      BY <2>0, <2>4, <3>1, GotoEffect DEF OnChannel, HasOwnOp, Onward
  <2>7. CASE Finish(w) \/ FinishFailed(w)
    BY <2>0, <2>7, IdleFits, FailFacts DEF Finish, FinishFailed
  <2> QED
    BY <1>7, <2>1, <2>2, <2>3, <2>5, <2>6, <2>7 DEF WorkerStep
<1>8. ASSUME NEW w \in Workers, AttemptRaises(w) \/ WorkerCrash(w)
      PROVE  Sending(c)' \subseteq Sending(c)
  BY <1>2, <1>8, IdleFits, FailFacts, CrashFacts DEF AttemptRaises, WorkerCrash
<1>9. ASSUME Elsewhere
      PROVE  Sending(c)' \subseteq Sending(c)
  <2>1. UNCHANGED wk
    BY <1>9, ElsewhereKeeps
  <2> QED
    BY <2>1 DEF Sending, Chan
<1>10. CASE \E w \in Workers : CreateOperation(w) \/ Send(w)
  BY <1>4, <1>5, <1>10
<1>11. CASE ~\E w \in Workers : CreateOperation(w) \/ Send(w)
  <2>1. Len(messages') = Len(messages) /\ Len(ops') = Len(ops)
    BY <1>11, LengthsKept
  <2>2. Sending(c)' \subseteq Sending(c)
    <3>1. \/ Elsewhere
          \/ \E w \in Workers : WorkerStep(w) \/ AttemptRaises(w) \/ WorkerCrash(w)
      BY DEF Next, Elsewhere
    <3> QED
      BY <1>6, <1>7, <1>8, <1>9, <1>11, <3>1
  <2> QED
    BY <1>3, <2>1, <2>2
<1> QED
  BY <1>10, <1>11

\* What a step costs: a lost record is paid for.
LEMMA PaidOn ==
   ASSUME Typed
   PROVE  /\ Paid \in Nat
          /\ UNCHANGED lost \/ Disturb("copy") => Paid' = Paid
          /\ \A d \in {"crash", "raise", "unanswered"} : Disturb(d) => Paid' = Paid + 1
<1>1. /\ lost \in [Disturbances -> Nat]
      /\ \A d \in {"crash", "raise", "unanswered", "copy"} : lost[d] \in Nat
  BY DEF Typed, SettingTyped, Disturbances
<1>2. \A d \in {"crash", "raise", "unanswered", "copy"} :
         Disturb(d) => lost' = [lost EXCEPT ![d] = lost[d] + 1]
  BY DEF Disturb
<1>3. Paid \in Nat
  BY <1>1 DEF Paid
<1>4. UNCHANGED lost \/ Disturb("copy") => Paid' = Paid
  BY <1>1, <1>2 DEF Paid, Disturbances
<1>5. Disturb("crash") => Paid' = Paid + 1
  BY <1>1, <1>2 DEF Paid, Disturbances
<1>6. Disturb("raise") => Paid' = Paid + 1
  BY <1>1, <1>2 DEF Paid, Disturbances
<1>7. Disturb("unanswered") => Paid' = Paid + 1
  BY <1>1, <1>2 DEF Paid, Disturbances
<1> QED
  BY <1>3, <1>4, <1>5, <1>6, <1>7

LEMMA SendsAreFewNext ==
   ASSUME Typed, TrackInv, TasksApart, SendsAreFew, Next
   PROVE  SendsAreFew'
<1>0. Channels' = Channels /\ Typed' /\ TasksApart'
  BY SettingStays, TypedStep, TasksApartNext DEF Next, TrackInv
<1> SUFFICES ASSUME NEW c \in Channels
             PROVE  Sent(c)' + Cardinality(CanSend(c)') <= Enqueued + Paid'
  BY <1>0 DEF SendsAreFew, Sent
<1>1. /\ Sent(c) + Cardinality(CanSend(c)) <= Enqueued + Paid
      /\ IsFiniteSet(CanSend(c)) /\ Cardinality(CanSend(c)) \in Nat
      /\ Sent(c) \in Nat /\ Sent(c)' \in Nat /\ Enqueued \in Nat /\ Paid \in Nat
  BY TasksCount, TablesCount, PaidOn DEF SendsAreFew, Sent
<1>2. ASSUME NEW w \in Workers, Send(w)
      PROVE  Sent(c)' + Cardinality(CanSend(c)') <= Enqueued + Paid'
  <2>1. CanSend(c)' \subseteq CanSend(c)
    BY <1>2, CanSendShrinks DEF WorkerStep
  <2>2. Cardinality(CanSend(c)') \in Nat /\ Cardinality(CanSend(c)') <= Cardinality(CanSend(c))
    BY <1>1, <2>1, CardSub
  <2>3. /\ wk[w].pc \in OnChannel /\ wk[w].pc = "send" /\ wk[w].kind = "sent"
        /\ wk[w].pc # "idle" /\ UNCHANGED log
    BY <1>2 DEF Send, At, OnChannel, TrackInv, AnswersAreKept, Told, HasOwnOp
  <2>4. PICK t \in WorkerStates :
           /\ Onward(w, t) /\ t.kind = wk[w].kind
           /\ \/ Accept(w) /\ UNCHANGED lost /\ t.pc = "record"
              \/ UNCHANGED <<messages, lost>>
              \/ Accept(w) /\ Disturb("unanswered")
    BY <1>2, SendEffect
  <2>5. CASE UNCHANGED <<messages, lost>>
    <3>1. Sent(c)' = Sent(c) /\ Paid' = Paid
      BY <2>5, PaidOn DEF Sent
    <3> QED
      BY <1>1, <2>2, <3>1
  <2>6. CASE Accept(w) /\ Disturb("unanswered")
    <3>1. Sent(c)' <= Sent(c) + 1 /\ Paid' = Paid + 1
      BY <1>1, <2>3, <2>6, TablesCount, PaidOn
    <3> QED
      BY <1>1, <2>2, <3>1
  <2>7. CASE Accept(w) /\ UNCHANGED lost /\ t.pc = "record"
    <3>1. Paid' = Paid
      BY <2>7, PaidOn
    <3>2. CASE Chan(w) # c
      <4>1. Sent(c)' = Sent(c)
        BY <1>1, <2>3, <2>7, <3>2, TablesCount
      <4> QED
        BY <1>1, <2>2, <3>1, <4>1
    <3>3. CASE Chan(w) = c
      <4>1. Sent(c)' = Sent(c) + 1
        BY <2>3, <2>7, <3>3, TablesCount
      <4>2. wk[w].task \in CanSend(c)
        <5>1. SendOpen(wk[w], c, Has("sent", c))
          BY <2>3, <3>3 DEF SendOpen, Chan
        <5> QED
          BY <5>1, OpenTask
      <4>3. t.task \notin CanSend(c)'
        <5>1. ~SendOpen(t, c, Has("sent", c)')
          BY <2>3, <2>4, <2>7, <3>3 DEF SendOpen, Onward, Chan
        <5> QED
          BY <1>0, <2>4, <2>7, <5>1, TaskLeaves DEF Onward
      <4>4. CanSend(c)' \subseteq CanSend(c) \ {wk[w].task}
        BY <2>1, <2>4, <4>3 DEF Onward
      <4>5. Cardinality(CanSend(c)') \in Nat /\ Cardinality(CanSend(c)') + 1 <= Cardinality(CanSend(c))
        BY <1>1, <4>2, <4>4, CardLess
      <4> QED
        BY <1>1, <3>1, <4>1, <4>5
    <3> QED
      BY <3>2, <3>3
  <2> QED
    BY <2>4, <2>5, <2>6, <2>7
<1>3. ASSUME NEW w \in Workers, WorkerStep(w), ~\E v \in Workers : Send(v)
      PROVE  Sent(c)' + Cardinality(CanSend(c)') <= Enqueued + Paid'
  <2>1. CanSend(c)' \subseteq CanSend(c)
    BY <1>3, CanSendShrinks
  <2>2. Cardinality(CanSend(c)') \in Nat /\ Cardinality(CanSend(c)') <= Cardinality(CanSend(c))
    BY <1>1, <2>1, CardSub
  <2>3. UNCHANGED lost
    BY <1>3 DEF WorkerStep, Start, CreateOperation, LookForEarlierSend, CloseAsAlreadySent,
         RecordSent, RecordFailed, EmitOnceCheck, EmitOnceWrite, Finish, FinishFailed
  <2>4. Sent(c)' = Sent(c) /\ Paid' = Paid
    BY <1>3, <2>3, LengthsKept, TablesCount, PaidOn
  <2> QED
    BY <1>1, <2>2, <2>4
<1>4. ASSUME NEW w \in Workers, AttemptRaises(w) \/ WorkerCrash(w)
      PROVE  Sent(c)' + Cardinality(CanSend(c)') <= Enqueued + Paid'
  <2>1. CanSend(c)' \subseteq CanSend(c) \cup {wk[w].task}
    BY <1>4, FailFacts, CrashFacts, CanSendRaised DEF AttemptRaises, WorkerCrash
  <2>2. Cardinality(CanSend(c)') \in Nat /\ Cardinality(CanSend(c)') <= Cardinality(CanSend(c)) + 1
    BY <1>1, <2>1, CardAdd
  <2>3. UNCHANGED messages /\ (Disturb("raise") \/ Disturb("crash"))
    BY <1>4 DEF AttemptRaises, WorkerCrash
  <2>4. Sent(c)' = Sent(c) /\ Paid' = Paid + 1
    BY <2>3, PaidOn DEF Sent
  <2> QED
    BY <1>1, <2>2, <2>4
<1>5. ASSUME Elsewhere, ~\E v \in Workers : Send(v)
      PROVE  Sent(c)' + Cardinality(CanSend(c)') <= Enqueued + Paid'
  <2>1. UNCHANGED <<log, queue, wk>> /\ (lost' = lost \/ Disturb("copy") \/ Disturb("crash"))
    BY <1>5, ElsewhereKeeps
  <2>2. CanSend(c)' = CanSend(c)
    BY <2>1 DEF CanSend, Has
  <2>3. Sent(c)' = Sent(c)
    BY <1>5, LengthsKept, TablesCount
  <2>4. Paid' \in {Paid, Paid + 1}
    BY <2>1, PaidOn
  <2> QED
    BY <1>1, <2>2, <2>3, <2>4
<1> QED
  <2>1. \/ Elsewhere
        \/ \E w \in Workers : WorkerStep(w) \/ AttemptRaises(w) \/ WorkerCrash(w)
    BY DEF Next, Elsewhere
  <2> QED
    BY <1>2, <1>3, <1>4, <1>5, <2>1
-----------------------------------------------------------------------------
LEMMA RecordsCount ==
   ASSUME Typed, NEW kind, NEW c
   PROVE  /\ IsFiniteSet(Records(kind, c)) /\ Cardinality(Records(kind, c)) \in Nat
          /\ UNCHANGED log => Records(kind, c)' = Records(kind, c)
          /\ \A w \in Workers :
                EmitOnceWrite(w) =>
                   /\ Cardinality(Records(kind, c)') \in Nat
                   /\ Cardinality(Records(kind, c)')
                      <= Cardinality(Records(kind, c))
                         + (IF wk[w].kind = kind /\ Chan(w) = c THEN 1 ELSE 0)
<1>1. log \in Seq(LogRecords) /\ Len(log) \in Nat
  BY Numbers DEF Typed, StoreTyped
<1>2. IsFiniteSet(Records(kind, c)) /\ Cardinality(Records(kind, c)) \in Nat
  <2>1. IsFiniteSet(OfChannel(log, c)) /\ Records(kind, c) \subseteq OfChannel(log, c)
    BY <1>1, OfChannelCounts DEF Records
  <2> QED
    BY <2>1, CardSub
<1>3. UNCHANGED log => Records(kind, c)' = Records(kind, c)
  BY DEF Records, OfChannel
<1>4. ASSUME NEW w \in Workers, EmitOnceWrite(w)
      PROVE  /\ Cardinality(Records(kind, c)') \in Nat
             /\ Cardinality(Records(kind, c)')
                <= Cardinality(Records(kind, c))
                   + (IF wk[w].kind = kind /\ Chan(w) = c THEN 1 ELSE 0)
  <2>1. PICK n : /\ n = [kind |-> wk[w].kind, chan |-> Chan(w), sid |-> wk[w].sid]
                 /\ log' = Append(log, n)
    BY <1>4 DEF EmitOnceWrite
  <2>2. n.kind = wk[w].kind /\ n.chan = Chan(w)
    BY <2>1
  <2>3. log \in Seq(LogRecords \cup {n}) /\ n \in LogRecords \cup {n}
    BY <1>1, SeqWiden
  <2>4. /\ Len(log') = Len(log) + 1
        /\ \A i \in 1..Len(log) : log'[i] = log[i]
        /\ log'[Len(log) + 1] = n
    BY <2>1, <2>3, AppendFacts
  <2>5. 1..Len(log') = (1..Len(log)) \cup {Len(log) + 1}
    BY <1>1, <2>4
  <2>6. CASE wk[w].kind = kind /\ Chan(w) = c
    <3>1. Records(kind, c)' \subseteq Records(kind, c) \cup {Len(log) + 1}
      BY <2>4, <2>5 DEF Records, OfChannel
    <3> QED
      BY <1>2, <2>6, <3>1, CardAdd
  <2>7. CASE ~(wk[w].kind = kind /\ Chan(w) = c)
    <3>1. Records(kind, c)' \subseteq Records(kind, c)
      BY <2>2, <2>4, <2>5, <2>7 DEF Records, OfChannel
    <3> QED
      BY <1>2, <2>7, <3>1, CardSub
  <2> QED
    BY <2>6, <2>7
<1> QED
  BY <1>2, <1>3, <1>4

LEMMA EventsAreFewNext ==
   ASSUME Typed, TrackInv, TasksApart, EventsAreFew, Next
   PROVE  EventsAreFew'
<1>0. Channels' = Channels /\ Typed' /\ TasksApart'
  BY SettingStays, TypedStep, TasksApartNext DEF Next, TrackInv
<1> SUFFICES ASSUME NEW kind \in {"sent", "failed"}, NEW c \in Channels
             PROVE  Cardinality(Records(kind, c)') + Cardinality(CanEmit(kind, c)') <= Enqueued
  BY <1>0 DEF EventsAreFew
<1>1. /\ Cardinality(Records(kind, c)) + Cardinality(CanEmit(kind, c)) <= Enqueued
      /\ IsFiniteSet(CanEmit(kind, c)) /\ Cardinality(CanEmit(kind, c)) \in Nat
      /\ Cardinality(Records(kind, c)) \in Nat /\ Enqueued \in Nat
  BY TasksCount, RecordsCount DEF EventsAreFew
<1>2. CanEmit(kind, c)' \subseteq CanEmit(kind, c)
  <2>1. CASE Elsewhere
    <3>1. UNCHANGED <<log, queue, wk>>
      BY <2>1, ElsewhereKeeps
    <3> QED
      BY <3>1 DEF CanEmit, Has
  <2>2. ASSUME NEW w \in Workers, WorkerStep(w)
        PROVE  CanEmit(kind, c)' \subseteq CanEmit(kind, c)
    BY <2>2, CanEmitShrinks
  <2>3. ASSUME NEW w \in Workers, AttemptRaises(w) \/ WorkerCrash(w)
        PROVE  CanEmit(kind, c)' \subseteq CanEmit(kind, c)
    BY <2>3, FailFacts, CrashFacts, CanEmitEnds DEF AttemptRaises, WorkerCrash, At, Busy
  <2>4. \/ Elsewhere
        \/ \E w \in Workers : WorkerStep(w) \/ AttemptRaises(w) \/ WorkerCrash(w)
    BY DEF Next, Elsewhere
  <2> QED
    BY <2>1, <2>2, <2>3, <2>4
<1>3. Cardinality(CanEmit(kind, c)') \in Nat /\ Cardinality(CanEmit(kind, c)') <= Cardinality(CanEmit(kind, c))
  BY <1>1, <1>2, CardSub
<1>4. CASE UNCHANGED log
  BY <1>1, <1>3, <1>4, RecordsCount
<1>5. ASSUME NEW w \in Workers, EmitOnceWrite(w)
      PROVE  Cardinality(Records(kind, c)') + Cardinality(CanEmit(kind, c)') <= Enqueued
  <2>1. CASE ~(wk[w].kind = kind /\ Chan(w) = c)
    BY <1>1, <1>3, <1>5, <2>1, RecordsCount
  <2>2. CASE wk[w].kind = kind /\ Chan(w) = c
    <3>1. /\ Cardinality(Records(kind, c)') \in Nat
          /\ Cardinality(Records(kind, c)') <= Cardinality(Records(kind, c)) + 1
      BY <1>5, <2>2, RecordsCount
    <3>2. wk[w].task \in CanEmit(kind, c)
      <4>1. EmitOpen(wk[w], kind, c, Has(kind, c))
        BY <1>5, <2>2 DEF EmitOpen, Chan, EmitOnceWrite, At
      <4> QED
        BY <4>1, OpenTask
    <3>3. PICK t \in WorkerStates : /\ wk' = [wk EXCEPT ![w] = t] /\ t.task = wk[w].task
                                    /\ t.pc \in {"create", "check", "end"}
      BY <1>5, AdvanceEffect DEF EmitOnceWrite, At, OnChannel
    <3>4. Has(kind, c)'
      BY <1>5, <2>2, HasOn
    <3>5. t.task \notin CanEmit(kind, c)'
      <4>1. ~EmitOpen(t, kind, c, Has(kind, c)')
        BY <3>3, <3>4 DEF EmitOpen
      <4> QED
        BY <1>0, <3>3, <4>1, TaskLeaves
    <3>6. CanEmit(kind, c)' \subseteq CanEmit(kind, c) \ {wk[w].task}
      BY <1>2, <3>3, <3>5
    <3>7. Cardinality(CanEmit(kind, c)') + 1 <= Cardinality(CanEmit(kind, c))
      BY <1>1, <3>2, <3>6, CardLess
    <3> QED
      BY <1>1, <1>3, <3>1, <3>7
  <2> QED
    BY <2>1, <2>2
<1> QED
  BY <1>4, <1>5, LogStep
-----------------------------------------------------------------------------
(* The theorems. *)

AccountInv == Typed /\ TrackInv /\ CountInv

LEMMA CountInit ==
   ASSUME Init
   PROVE  CountInv
<1>0. ops = <<>> /\ log = <<>> /\ messages = <<>> /\ \A w \in Workers : wk[w].pc = "idle"
  BY DEF Init, Idle
<1>1. TasksApart
  BY <1>0 DEF Init, TasksApart, Busy
<1>2. \A c : OfChannel(<<>>, c) = {}
  BY DEF OfChannel
<1>3. IsFiniteSet({}) /\ Cardinality({}) = 0
  BY FS_EmptySet
<1>4. OpsSuffice
  <2>1. \A c : Sending(c) = {}
    BY <1>0 DEF Sending
  <2>2. \A c : OfChannel(messages, c) = {} /\ OfChannel(ops, c) = {}
    BY <1>0, <1>2
  <2> QED
    BY <1>3, <2>1, <2>2 DEF OpsSuffice
<1>5. Paid = 0 /\ Enqueued \in Nat
  BY SettingsAssumption DEF Init, Paid, Disturbances
<1>6. SendsAreFew
  BY <1>0, <1>2, <1>3, <1>5, TasksCount DEF SendsAreFew
<1>7. EventsAreFew
  <2>1. \A kind, c : Records(kind, c) = {}
    BY <1>0, <1>2 DEF Records
  <2> QED
    BY <1>3, <1>5, <2>1, TasksCount DEF EventsAreFew
<1> QED
  BY <1>1, <1>4, <1>6, <1>7 DEF CountInv

LEMMA AccountStep ==
   ASSUME AccountInv, [Next]_vars
   PROVE  AccountInv'
<1>1. CASE Next
  BY <1>1, TypedStep, TrackStep, TasksApartNext, OpsSufficeNext, SendsAreFewNext,
     EventsAreFewNext DEF AccountInv, CountInv, TrackInv
<1>2. CASE UNCHANGED vars
  <2>1. Typed' /\ TrackInv'
    BY <1>2 DEF AccountInv, vars, Typed, SettingTyped, StoreTyped, WorkTyped, HookTyped, TrackInv,
       OpsApart, OwnOpIsFresh, AnswersAreKept, CallbacksAreTrue, AnnouncedSendIsTracked,
       DeliveryClaimsAreTrue, FreshOp, Told, Answered, Tracked, WorkerFits, HandlerFits,
       Chan, Channels, Reported, MaxRetries, OpRecords, LogRecords, MessageRecords,
       TaskMessages, WorkerStates, HandlerStates, HookRecords
  <2>2. CountInv'
    <3>0. UNCHANGED <<setting, ops, log, messages, queue, wk, lost>> /\ CountInv
      BY <1>2 DEF vars, AccountInv
    <3>1. TasksApart'
      BY <3>0 DEF CountInv, TasksApart, Busy
    <3>2. /\ Channels' = Channels /\ Paid' = Paid
          /\ \A c : Sending(c)' = Sending(c) /\ CanSend(c)' = CanSend(c)
          /\ \A kind, c : CanEmit(kind, c)' = CanEmit(kind, c) /\ Records(kind, c)' = Records(kind, c)
      BY <3>0 DEF Channels, Paid, Sending, Chan, CanSend, CanEmit, Has, Records, OfChannel
    <3>3. OpsSuffice'
      BY <3>0, <3>2 DEF CountInv, OpsSuffice
    <3>4. SendsAreFew'
      BY <3>0, <3>2 DEF CountInv, SendsAreFew
    <3>5. EventsAreFew'
      BY <3>0, <3>2 DEF CountInv, EventsAreFew
    <3> QED
      BY <3>1, <3>3, <3>4, <3>5 DEF CountInv
  <2> QED
    BY <2>1, <2>2 DEF AccountInv
<1> QED
  BY <1>1, <1>2

LEMMA AccountHolds == Spec => []AccountInv
<1>1. Init => AccountInv
  BY TypedInit, TrackInit, CountInit DEF AccountInv
<1>2. AccountInv /\ [Next]_vars => AccountInv'
  BY AccountStep
<1> QED
  BY <1>1, <1>2, PTL DEF Spec

LEMMA AccountMeans ==
   ASSUME AccountInv
   PROVE  SendsAreAccountedFor /\ EventsAreTrue /\ DeliveryClaimsAreTrue
<1>1. Typed /\ TrackInv /\ OpsSuffice /\ SendsAreFew /\ EventsAreFew
  BY DEF AccountInv, CountInv
<1>2. TypeOK
  BY <1>1, TypedMeansTypeOK
<1>3. Len(messages) \in Nat /\ Len(ops) \in Nat
  BY <1>1, Numbers
<1>4. EveryMessageHasOperation
  <2>1. ASSUME NEW c \in Channels
        PROVE  Cardinality(OfChannel(messages, c)) <= Cardinality(OfChannel(ops, c))
    <3>1. /\ Cardinality(OfChannel(messages, c)) \in Nat /\ Cardinality(OfChannel(ops, c)) \in Nat
          /\ Cardinality(Sending(c)) \in Nat
          /\ Cardinality(OfChannel(messages, c)) + Cardinality(Sending(c))
                <= Cardinality(OfChannel(ops, c))
      BY <1>1, <1>3, OfChannelCounts, FS_CardinalityType DEF OpsSuffice
    <3> QED
      BY <3>1
  <2> QED
    BY <2>1 DEF EveryMessageHasOperation
<1>5. ExtraSendsArePaidFor
  <2>1. ASSUME NEW c \in Channels
        PROVE  Cardinality(OfChannel(messages, c))
                  <= Enqueued + lost["crash"] + lost["raise"] + lost["unanswered"]
    <3>1. /\ Cardinality(OfChannel(messages, c)) \in Nat /\ Cardinality(CanSend(c)) \in Nat
          /\ Cardinality(OfChannel(messages, c)) + Cardinality(CanSend(c)) <= Enqueued + Paid
          /\ Enqueued \in Nat
      BY <1>1, <1>3, OfChannelCounts, TasksCount DEF SendsAreFew
    <3>2. \A d \in {"crash", "raise", "unanswered"} : lost[d] \in Nat
      BY <1>1 DEF Typed, SettingTyped, Disturbances
    <3> QED
      BY <3>1, <3>2 DEF Paid
  <2> QED
    BY <2>1 DEF ExtraSendsArePaidFor
<1>6. EventsOnce
  <2>1. ASSUME NEW kind \in {"sent", "failed"}, NEW c \in Channels
        PROVE  Cardinality(Records(kind, c)) <= Enqueued
    <3>1. /\ Cardinality(Records(kind, c)) + Cardinality(CanEmit(kind, c)) <= Enqueued
          /\ Cardinality(CanEmit(kind, c)) \in Nat /\ Cardinality(Records(kind, c)) \in Nat
          /\ Enqueued \in Nat
      BY <1>1, TasksCount, RecordsCount DEF EventsAreFew
    <3> QED
      BY <3>1
  <2> QED
    BY <2>1 DEF EventsOnce, Records
<1> QED
  BY <1>1, <1>2, <1>4, <1>5, <1>6 DEF SendsAreAccountedFor, EventsAreTrue, TrackInv

(* Each message has an operation of its own, and there are no more         *)
(* messages on a channel than tasks and lost records.                      *)
THEOREM SendsAccounted == Spec => []SendsAreAccountedFor
BY AccountHolds, AccountMeans, PTL

(* The log announces nothing more often than the task was enqueued, and    *)
(* nothing that was not sent.                                              *)
THEOREM EventsTrue == Spec => []EventsAreTrue
BY AccountHolds, AccountMeans, PTL

(* What an operation says of its delivery is what the provider said of the *)
(* message it tracks, whatever callbacks overlap, come again or come late. *)
THEOREM ClaimsAreTheProviders == Spec => []DeliveryClaimsAreTrue
BY AccountHolds, AccountMeans, PTL
=============================================================================
