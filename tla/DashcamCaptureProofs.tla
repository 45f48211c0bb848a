------------------------ MODULE DashcamCaptureProofs ------------------------
(***************************************************************************)
(* Theorems about DashcamCapture, for any clips, any bound on faults and   *)
(* any settings.                                                           *)
(*                                                                         *)
(* The invariant has three layers.  AnyInv holds whatever fails and        *)
(* whoever runs; LoneInv while the two messages of the task have not been  *)
(* worked on at once; QuietInv while, besides, no run was broken off.      *)
(***************************************************************************)
EXTENDS DashcamCapture, FiniteSetTheorems, TLAPS

NoReq == <<NoOperation, 1, 1>>

RunRecords ==
   [pc : {"none", "queued", "over", "dead"} \cup Running, try : Nat,
    carried : Operations \cup {NoOperation}, op : Operations \cup {NoOperation},
    stream : Streams, req : Requests \cup {NoReq}, clip : Clips \cup {None}, captured : Nat]
EventRecords ==
   [kind : {"recorded", "hashed", "unavailable", "succeeded", "failed"},
    stream : 0..2, clip : Clips \cup {None}]
RequestRecords ==
   [status : {"none", "in_progress", "fulfilled", "failed"}, op : Operations \cup {NoOperation}]

WithClip == {"put", "record", "hash", "save"}

\* A run within a stream works on a request of the stream and for an operation,
\* both of which exist, and it has captured fewer streams than it has come to.
RunFits(x) ==
   /\ x.try <= lost
   /\ x.pc \in InStream =>
         x.req \in Requests /\ x.req[2] = x.stream /\ request[x.req].status # "none"
   /\ x.pc \in InGap => x.req = NoReq \/
         (x.req \in Requests /\ x.req[2] = x.stream /\ request[x.req].status # "none")
   /\ x.pc \notin InStream \cup InGap => x.req = NoReq
   /\ x.pc \in Running \ {"open"} => x.op \in Operations /\ operation[x.op] # "none"
   /\ x.pc \in {"none", "queued", "open"} => x.stream = 1 /\ x.captured = 0
   /\ x.pc \in {"poll"} \cup InStream \cup InGap => x.captured < x.stream
   /\ x.captured <= 2
   /\ x.pc \in WithClip => x.clip \in Clips

RunsTyped == run \in [Messages -> RunRecords] /\ \A m \in Messages : RunFits(run[m])

OperationsTyped ==
   operation \in [Operations -> {"none", "requested", "processing", "available"} \cup Final]

RequestsTyped ==
   /\ request \in [Requests -> RequestRecords]
   /\ \A q \in Requests : request[q].status = "none" <=> request[q].op = NoOperation

ArtifactsTyped ==
   /\ row \in [Streams -> Clips \cup {None}] /\ object \in [Streams -> Clips \cup {None}]
   /\ gap \in [Streams -> BOOLEAN]

\* The retry publishes its message last, and once.
OperatorTyped ==
   /\ operator \in [pc : {"idle", "move", "reopen", "publish", "over"}, chosen : SUBSET Requests]
   /\ \A q \in operator.chosen : request[q].status # "none"
   /\ operator.pc # "over" => run["retry"].pc = "none"

HistoryTyped ==
   /\ setting \in Settings /\ log \subseteq EventRecords
   /\ overlapped \in BOOLEAN /\ skipped \subseteq Messages /\ untold \subseteq Requests
   /\ lost \in Nat /\ errors \in Nat /\ lost + errors <= setting.faults

Typed == /\ RunsTyped /\ OperationsTyped /\ RequestsTyped /\ ArtifactsTyped
         /\ OperatorTyped /\ HistoryTyped
-----------------------------------------------------------------------------
(* What holds whatever fails and whoever runs. *)

\* The streams the run is through with.
Done(x, s) == s < x.stream \/ x.pc \in {"succeed", "finalize"}

Documented(s) == row[s] # None \/ gap[s]
Announced(s) == HashedEvents(s) # {}

AnyRun(x) ==
   x.pc \in Running =>
      /\ \A s \in Streams : Done(x, s) => Documented(s)
      /\ x.pc = "fulfil" => row[x.stream] # None
      /\ x.pc \in {"hash", "save"} => Event("recorded", x.stream, None) \in log
      /\ x.pc = "save" => Announced(x.stream)
      /\ x.captured > 0 => \E s \in Streams : row[s] # None
      /\ x.pc = "finalize" => Succeeded \in log

RowsHaveEvents ==
   \A s \in Streams : row[s] # None => Event("recorded", s, None) \in log /\ Announced(s)

DownloadsBroughtFootage ==
   \A o \in Operations : operation[o] = "downloaded" => \E s \in Streams : row[s] # None

AnyInv == /\ \A m \in Messages : AnyRun(run[m])
          /\ SucceededIsDocumented /\ RowsHaveEvents
          /\ RequestsAnswerTruly /\ DownloadsBroughtFootage
-----------------------------------------------------------------------------
(* What holds while one run at most is under way. *)

Busy == {m \in Messages : run[m].pc \in Running}

LoneRun(x) ==
   /\ x.pc \in WithClip => row[x.stream] = None
   /\ x.pc \in WithClip \ {"put"} => object[x.stream] = x.clip

LoneInv ==
   ~overlapped =>
      /\ \A m, n \in Messages : m \in Busy /\ n \in Busy => m = n
      /\ \A m \in Messages : LoneRun(run[m])
      /\ \A s \in Streams : row[s] # None => object[s] = row[s]
-----------------------------------------------------------------------------
(* What holds while, besides, no run was broken off. *)

Quiet == ~overlapped /\ ~Crashed

Untouched(s) == row[s] = None /\ ~gap[s] /\ ~Announced(s)

QuietRun(x) ==
   x.pc \in Running =>
      /\ x.pc # "finalize" => Succeeded \notin log
      /\ \A s \in Streams : ~Done(x, s) =>
            Untouched(s) \/ (s = x.stream /\ x.pc \in {"save", "fulfil"})
      /\ x.pc = "save" =>
            /\ ~gap[x.stream]
            /\ HashedEvents(x.stream) = {Event("hashed", x.stream, x.clip)}
      /\ \A s \in Streams : row[s] # None =>
            x.captured > 0 \/ (x.pc = "fulfil" /\ s = x.stream)

QuietInv ==
   Quiet =>
      /\ \A m \in Messages : QuietRun(run[m])
      /\ (Busy = {} /\ Succeeded \notin log) => \A s \in Streams : Untouched(s)
      /\ \A s \in Streams : row[s] # None =>
            ~gap[s] /\ HashedEvents(s) = {Event("hashed", s, row[s])}
      /\ \A o \in Operations : operation[o] \in Final => Succeeded \in log /\ Busy = {}
      /\ \A o \in Operations : operation[o] = "unavailable" => \A s \in Streams : row[s] = None
-----------------------------------------------------------------------------
(* Names and bounds. *)

LEMMA Names ==
   /\ NoOperation \notin Operations /\ NoReq \notin Requests
   /\ First \in Operations /\ Retry \in Operations
   /\ None \notin Clips /\ MaxFaults \in Nat
   /\ \A q \in Requests : q[1] \in Operations /\ q[2] \in Streams
<1>1. None \notin Clips /\ MaxFaults \in Nat
  BY DashcamAssumption
<1>2. NoOperation \notin Operations
  BY DEF NoOperation, Operations, Messages
<1>3. First \in Operations /\ Retry \in Operations
  BY <1>1 DEF First, Retry, Operations, Messages
<1>4. \A q \in Requests : q[1] \in Operations /\ q[2] \in Streams
  BY DEF Requests
<1>5. NoReq \notin Requests
  BY <1>2 DEF NoReq, Requests
<1> QED
  BY <1>1, <1>2, <1>3, <1>4, <1>5

LEMMA SettingFacts ==
   ASSUME Typed
   PROVE  /\ setting.faults \in 0..MaxFaults
          /\ \A s \in Streams : setting.footage[s] \subseteq Clips
          /\ lost \in Nat /\ errors \in Nat /\ lost + errors <= setting.faults
BY DashcamAssumption DEF Typed, HistoryTyped, Streams

LEMMA RunFacts ==
   ASSUME Typed, NEW m \in Messages
   PROVE  run[m] \in RunRecords /\ RunFits(run[m])
BY DEF Typed, RunsTyped

LEMMA RequestFacts ==
   ASSUME Typed, NEW q \in Requests
   PROVE  /\ request[q] \in RequestRecords
          /\ request[q].status = "none" <=> request[q].op = NoOperation
          /\ request[q] = NoRequest <=> request[q].status = "none"
<1>1. /\ request[q] \in RequestRecords
      /\ request[q].status = "none" <=> request[q].op = NoOperation
  BY DEF Typed, RequestsTyped
<1>2. request[q].status = "none" => request[q] = NoRequest
  BY <1>1 DEF RequestRecords, NoRequest
<1>3. request[q] = NoRequest => request[q].status = "none"
  BY DEF NoRequest
<1> QED
  BY <1>1, <1>2, <1>3
-----------------------------------------------------------------------------
(* What a step does to its run. *)

Becomes(m, t) == t \in RunRecords /\ run' = [run EXCEPT ![m] = t]

LEMMA Replaced ==
   ASSUME Typed, NEW m \in Messages, NEW t, Becomes(m, t)
   PROVE  /\ run' \in [Messages -> RunRecords]
          /\ run'[m] = t
          /\ \A n \in Messages : n # m => run'[n] = run[n]
BY DEF Typed, RunsTyped, Becomes

\* It moves on within its stream.
Moves(m, t) ==
   /\ Becomes(m, t)
   /\ t.try = run[m].try /\ t.carried = run[m].carried /\ t.op = run[m].op
   /\ t.stream = run[m].stream /\ t.req = run[m].req /\ t.clip = run[m].clip
   /\ t.captured = run[m].captured

\* It goes to the next stream, or on to its end.
Advances(m, t) ==
   /\ Becomes(m, t)
   /\ t.pc = IF run[m].stream = 2 THEN "succeed" ELSE "poll"
   /\ t.try = run[m].try /\ t.carried = run[m].carried /\ t.op = run[m].op
   /\ t.stream = 2 /\ t.req = NoReq /\ t.clip = None

\* It forgets what it did.
Forgets(m, t) ==
   /\ Becomes(m, t) /\ t.op = NoOperation
   /\ t.stream = 1 /\ t.req = NoReq /\ t.clip = None /\ t.captured = 0

Pcs == {"none", "queued", "over", "dead"} \cup Running

LEMMA GotoEffect ==
   ASSUME Typed, NEW m \in Messages, NEW pc \in Pcs, Goto(m, pc)
   PROVE  \E t : Moves(m, t) /\ t.pc = pc
<1>1. PICK x \in RunRecords : x = run[m]
  BY RunFacts
<1> DEFINE t == [x EXCEPT !.pc = pc]
<1>2. run' = [run EXCEPT ![m] = t]
  BY <1>1 DEF Goto, Typed, RunsTyped
<1>3. /\ t \in RunRecords /\ t.pc = pc /\ t.try = x.try /\ t.carried = x.carried /\ t.op = x.op
      /\ t.stream = x.stream /\ t.req = x.req /\ t.clip = x.clip /\ t.captured = x.captured
  BY <1>1 DEF RunRecords, Pcs
<1> HIDE DEF t
<1> QED
  BY <1>1, <1>2, <1>3 DEF Moves, Becomes

LEMMA AdvanceRecord ==
   ASSUME Typed, NEW m \in Messages, run[m].pc \in Running
   PROVE  /\ NextStream(m) \in RunRecords
          /\ NextStream(m).pc = IF run[m].stream = 2 THEN "succeed" ELSE "poll"
          /\ NextStream(m).try = run[m].try /\ NextStream(m).carried = run[m].carried
          /\ NextStream(m).op = run[m].op /\ NextStream(m).stream = 2
          /\ NextStream(m).req = NoReq /\ NextStream(m).clip = None
          /\ NextStream(m).captured = run[m].captured
<1>1. PICK x \in RunRecords : x = run[m]
  BY RunFacts
<1> DEFINE pc == IF x.stream = 2 THEN "succeed" ELSE "poll"
<1>2. pc \in Running
  BY DEF Running
<1>3. NextStream(m) = [x EXCEPT !.pc = pc, !.stream = 2, !.req = NoReq, !.clip = None]
  BY <1>1 DEF NextStream, Stream, Unpublished, NoReq
<1>4. pc = IF x.stream = 2 THEN "succeed" ELSE "poll"
  OBVIOUS
<1> HIDE DEF pc
<1>5. NoReq \in Requests \cup {NoReq} /\ None \in Clips \cup {None} /\ 2 \in Streams
  BY DEF Streams
<1> HIDE DEF NoReq
<1> QED
  BY <1>1, <1>2, <1>3, <1>4, <1>5 DEF RunRecords

LEMMA AdvanceEffect ==
   ASSUME Typed, NEW m \in Messages, run[m].pc \in Running,
          run' = [run EXCEPT ![m] = NextStream(m)]
   PROVE  \E t : Advances(m, t) /\ t.captured = run[m].captured
BY AdvanceRecord DEF Advances, Becomes

LEMMA FulfilEffect ==
   ASSUME Typed, NEW m \in Messages, Fulfil(m)
   PROVE  \E t : Advances(m, t) /\ t.captured = run[m].captured + 1
<1>1. PICK x \in RunRecords : x = NextStream(m)
  BY AdvanceRecord DEF Fulfil, At, Running, InStream
<1>2. PICK k \in Nat : k = x.captured + 1
  BY <1>1 DEF RunRecords
<1> DEFINE t == [x EXCEPT !.captured = k]
<1>3. run' = [run EXCEPT ![m] = t]
  BY <1>1, <1>2 DEF Fulfil
<1>4. /\ t \in RunRecords /\ t.pc = x.pc /\ t.try = x.try /\ t.carried = x.carried
      /\ t.op = x.op /\ t.stream = x.stream /\ t.req = x.req /\ t.clip = x.clip
      /\ t.captured = k
  BY <1>1, <1>2 DEF RunRecords
<1> HIDE DEF t
<1>5. run[m].pc \in Running
  BY DEF Fulfil, At, Running, InStream
<1>6. Advances(m, t) /\ t.captured = run[m].captured + 1
  BY <1>1, <1>2, <1>3, <1>4, <1>5, AdvanceRecord DEF Advances, Becomes
<1> QED
  BY <1>6

LEMMA UnpublishedFacts ==
   /\ Unpublished \in RunRecords /\ Unpublished.try = 0 /\ Unpublished.op = NoOperation
   /\ Unpublished.carried = NoOperation /\ Unpublished.stream = 1 /\ Unpublished.req = NoReq
   /\ Unpublished.clip = None /\ Unpublished.captured = 0
<1>1. 1 \in Streams
  BY DEF Streams
<1>2. Unpublished = [pc |-> "none", try |-> 0, carried |-> NoOperation, op |-> NoOperation,
                     stream |-> 1, req |-> NoReq, clip |-> None, captured |-> 0]
  BY DEF Unpublished, NoReq
<1> HIDE DEF NoReq
<1> QED
  BY <1>1, <1>2 DEF RunRecords

LEMMA EndEffect ==
   ASSUME Typed, NEW m \in Messages, NEW pc \in Pcs, End(m, pc)
   PROVE  \E t : Forgets(m, t) /\ t.pc = pc /\ t.try = 0
<1>1. PICK u \in RunRecords : u = Unpublished
  BY UnpublishedFacts
<1> DEFINE t == [u EXCEPT !.pc = pc]
<1>2. run' = [run EXCEPT ![m] = t]
  BY <1>1 DEF End
<1>3. /\ t \in RunRecords /\ t.pc = pc /\ t.try = u.try /\ t.op = u.op
      /\ t.stream = u.stream /\ t.req = u.req /\ t.clip = u.clip /\ t.captured = u.captured
  BY <1>1 DEF RunRecords, Pcs
<1> HIDE DEF t
<1> QED
  BY <1>1, <1>2, <1>3, UnpublishedFacts DEF Forgets, Becomes

LEMMA OpenEffect ==
   ASSUME Typed, NEW m \in Messages, OpenOperation(m)
   PROVE  \E t : \E o \in Operations :
             /\ operation' = [operation EXCEPT ![o] = "processing"]
             /\ Becomes(m, t) /\ t.pc = "poll" /\ t.op = o
             /\ t.try = run[m].try /\ t.carried = run[m].carried
             /\ t.stream = run[m].stream /\ t.req = run[m].req /\ t.clip = run[m].clip
             /\ t.captured = run[m].captured
<1>1. PICK x \in RunRecords : x = run[m]
  BY RunFacts
<1>2. PICK o \in Operations : o = IF x.carried = NoOperation THEN <<m, x.try>> ELSE x.carried
  <2>1. x.try \in 0..MaxFaults
    BY <1>1, RunFacts, SettingFacts, Names DEF RunFits, RunRecords
  <2>2. <<m, x.try>> \in Operations
    BY <2>1 DEF Operations
  <2> QED
    BY <2>2 DEF RunRecords
<1> DEFINE t == [x EXCEPT !.op = o, !.pc = "poll"]
<1>3. /\ operation' = [operation EXCEPT ![o] = "processing"]
      /\ run' = [run EXCEPT ![m].op = o, ![m].pc = "poll"]
  BY <1>1, <1>2 DEF OpenOperation
<1>4. run' = [run EXCEPT ![m] = t]
  BY <1>1, <1>3 DEF Typed, RunsTyped
<1>5. /\ t \in RunRecords /\ t.pc = "poll" /\ t.op = o /\ t.try = x.try /\ t.carried = x.carried
      /\ t.stream = x.stream /\ t.req = x.req /\ t.clip = x.clip /\ t.captured = x.captured
  BY <1>1, <1>2 DEF RunRecords, Running
<1> HIDE DEF t
<1>6. /\ operation' = [operation EXCEPT ![o] = "processing"]
      /\ Becomes(m, t) /\ t.pc = "poll" /\ t.op = o
      /\ t.try = run[m].try /\ t.carried = run[m].carried
      /\ t.stream = run[m].stream /\ t.req = run[m].req /\ t.clip = run[m].clip
      /\ t.captured = run[m].captured
  BY <1>1, <1>3, <1>4, <1>5 DEF Becomes
<1> QED
  BY <1>6

\* A request of the operation and the stream, which is there or made.
LEMMA PollEffect ==
   ASSUME Typed, NEW m \in Messages, Poll(m)
   PROVE  \E t : \E q \in Requests :
             /\ operation' = [operation EXCEPT ![run[m].op] = "processing"]
             /\ Becomes(m, t) /\ t.pc = "fetch" /\ t.req = q /\ q[2] = t.stream
             /\ t.op = run[m].op /\ t.try = run[m].try /\ t.carried = run[m].carried
             /\ t.stream = run[m].stream /\ t.clip = run[m].clip
             /\ t.captured = run[m].captured
             /\ \/ request' = request /\ request[q].status # "none"
                \/ request' = [request EXCEPT ![q] = [status |-> "in_progress", op |-> run[m].op]]
<1>1. PICK x \in RunRecords : x = run[m]
  BY RunFacts
<1>2. x.op \in Operations /\ x.stream \in Streams
  BY <1>1, RunFacts DEF Poll, At, RunFits, RunRecords, Running
<1> DEFINE own == {q \in Requests : request[q].op = x.op /\ q[2] = x.stream}
           new == <<x.op, x.stream, IF request[<<x.op, x.stream, 1>>] = NoRequest THEN 1 ELSE 2>>
<1>3. new \in Requests /\ new[1] = x.op /\ new[2] = x.stream
  BY <1>2 DEF Requests
<1>4. /\ operation' = [operation EXCEPT ![x.op] = "processing"]
      /\ \/ \E q \in own : run' = [run EXCEPT ![m].req = q, ![m].pc = "fetch"] /\ UNCHANGED request
         \/ /\ run' = [run EXCEPT ![m].req = new, ![m].pc = "fetch"]
            /\ request' = [request EXCEPT ![new] = [status |-> "in_progress", op |-> new[1]]]
  BY <1>1 DEF Poll, Operation, Stream
<1> HIDE DEF new
<1>5. PICK q \in Requests :
         /\ q[2] = x.stream /\ run' = [run EXCEPT ![m].req = q, ![m].pc = "fetch"]
         /\ \/ request' = request /\ request[q].status # "none"
            \/ request' = [request EXCEPT ![q] = [status |-> "in_progress", op |-> x.op]]
  <2>1. CASE \E q \in own : run' = [run EXCEPT ![m].req = q, ![m].pc = "fetch"] /\ UNCHANGED request
    <3>1. PICK q \in own : run' = [run EXCEPT ![m].req = q, ![m].pc = "fetch"] /\ UNCHANGED request
      BY <2>1
    <3>2. q \in Requests /\ request[q].op = x.op /\ q[2] = x.stream
      OBVIOUS
    <3>3. request[q].status # "none"
      BY <1>2, <3>2, RequestFacts, Names
    <3> QED
      BY <3>1, <3>2, <3>3
  <2>2. CASE /\ run' = [run EXCEPT ![m].req = new, ![m].pc = "fetch"]
             /\ request' = [request EXCEPT ![new] = [status |-> "in_progress", op |-> new[1]]]
    BY <1>3, <2>2
  <2> QED
    BY <1>4, <2>1, <2>2
<1> DEFINE t == [x EXCEPT !.req = q, !.pc = "fetch"]
<1>6. run' = [run EXCEPT ![m] = t]
  BY <1>1, <1>5 DEF Typed, RunsTyped
<1>7. /\ t \in RunRecords /\ t.pc = "fetch" /\ t.op = x.op /\ t.try = x.try
      /\ t.carried = x.carried /\ t.stream = x.stream /\ t.req = q /\ t.clip = x.clip
      /\ t.captured = x.captured
  BY <1>1, <1>5 DEF RunRecords, Running, InStream
<1> HIDE DEF t
<1>8. /\ operation' = [operation EXCEPT ![run[m].op] = "processing"]
      /\ Becomes(m, t) /\ t.pc = "fetch" /\ t.req = q /\ q[2] = t.stream
      /\ t.op = run[m].op /\ t.try = run[m].try /\ t.carried = run[m].carried
      /\ t.stream = run[m].stream /\ t.clip = run[m].clip
      /\ t.captured = run[m].captured
      /\ \/ request' = request /\ request[q].status # "none"
         \/ request' = [request EXCEPT ![q] = [status |-> "in_progress", op |-> run[m].op]]
  BY <1>1, <1>4, <1>5, <1>6, <1>7 DEF Becomes
<1> QED
  BY <1>8

\* The stream's artifact is there already, or a clip is fetched.
LEMMA FetchEffect ==
   ASSUME Typed, NEW m \in Messages, FetchClip(m)
   PROVE  \E t :
             \/ row[run[m].stream] # None /\ Advances(m, t) /\ t.captured = run[m].captured
             \/ /\ row[run[m].stream] = None
                /\ Becomes(m, t) /\ t.pc = "put" /\ t.clip \in Clips
                /\ t.op = run[m].op /\ t.try = run[m].try /\ t.carried = run[m].carried
                /\ t.stream = run[m].stream /\ t.req = run[m].req
                /\ t.captured = run[m].captured
<1>1. PICK x \in RunRecords : x = run[m]
  BY RunFacts
<1>2. run[m].pc \in Running
  BY DEF FetchClip, At, Running, InStream
<1>3. CASE row[x.stream] # None /\ run' = [run EXCEPT ![m] = NextStream(m)]
  BY <1>1, <1>2, <1>3, AdvanceEffect
<1>4. ASSUME NEW c \in setting.footage[x.stream], row[x.stream] = None,
             run' = [run EXCEPT ![m].clip = c, ![m].pc = "put"]
      PROVE  \E t : /\ Becomes(m, t) /\ t.pc = "put" /\ t.clip \in Clips
                    /\ t.op = x.op /\ t.try = x.try /\ t.carried = x.carried
                    /\ t.stream = x.stream /\ t.req = x.req /\ t.captured = x.captured
  <2> DEFINE t == [x EXCEPT !.clip = c, !.pc = "put"]
  <2>1. run' = [run EXCEPT ![m] = t]
    BY <1>1, <1>4 DEF Typed, RunsTyped
  <2>2. c \in Clips
    BY SettingFacts DEF RunRecords
  <2>3. /\ t \in RunRecords /\ t.pc = "put" /\ t.op = x.op /\ t.try = x.try
        /\ t.carried = x.carried /\ t.stream = x.stream /\ t.req = x.req /\ t.clip = c
        /\ t.captured = x.captured
    BY <1>1, <2>2 DEF RunRecords, Running, InStream
  <2> HIDE DEF t
  <2> QED
    BY <2>1, <2>2, <2>3 DEF Becomes
<1>5. \/ row[x.stream] # None /\ run' = [run EXCEPT ![m] = NextStream(m)]
      \/ \E c \in setting.footage[x.stream] :
            row[x.stream] = None /\ run' = [run EXCEPT ![m].clip = c, ![m].pc = "put"]
  BY <1>1 DEF FetchClip, Stream
<1> QED
  BY <1>1, <1>3, <1>4, <1>5

LEMMA LostEffect ==
   ASSUME Typed, NEW m \in Messages, WorkerLost(m)
   PROVE  \E t : Forgets(m, t) /\ t.pc = "queued" /\ t.try = run[m].try + 1
<1>1. PICK u \in RunRecords : u = Unpublished
  BY UnpublishedFacts
<1>2. PICK x \in RunRecords : x = run[m]
  BY RunFacts
<1>3. PICK k \in Nat : k = x.try + 1
  BY DEF RunRecords
<1>4. PICK c \in Operations \cup {NoOperation} : c = x.carried
  BY DEF RunRecords
<1> DEFINE t == [u EXCEPT !.pc = "queued", !.try = k, !.carried = c]
<1>5. run' = [run EXCEPT ![m] = t]
  BY <1>1, <1>2, <1>3, <1>4 DEF WorkerLost
<1>6. /\ t \in RunRecords /\ t.pc = "queued" /\ t.try = k /\ t.op = u.op
      /\ t.stream = u.stream /\ t.req = u.req /\ t.clip = u.clip /\ t.captured = u.captured
  BY <1>1, <1>3, <1>4 DEF RunRecords
<1> HIDE DEF t
<1> QED
  BY <1>1, <1>2, <1>3, <1>5, <1>6, UnpublishedFacts DEF Forgets, Becomes

LEMMA PublishEffect ==
   ASSUME Typed, PublishRetry
   PROVE  \E t : Forgets("retry", t) /\ t.pc = "queued" /\ t.try = 0
<1>1. PICK u \in RunRecords : u = Unpublished
  BY UnpublishedFacts
<1>2. PICK c \in Operations \cup {NoOperation} : c = Retry
  BY Names
<1> DEFINE t == [u EXCEPT !.pc = "queued", !.carried = c]
<1>3. run' = [run EXCEPT !["retry"] = t]
  BY <1>1, <1>2 DEF PublishRetry
<1>4. /\ t \in RunRecords /\ t.pc = "queued" /\ t.try = u.try /\ t.op = u.op
      /\ t.stream = u.stream /\ t.req = u.req /\ t.clip = u.clip /\ t.captured = u.captured
  BY <1>1, <1>2 DEF RunRecords
<1> HIDE DEF t
<1> QED
  BY <1>1, <1>3, <1>4, UnpublishedFacts DEF Forgets, Becomes

-----------------------------------------------------------------------------
(* The types are kept. *)

\* What exists goes on existing.
Persists ==
   /\ lost' \in Nat /\ lost <= lost'
   /\ \A q \in Requests : request[q].status # "none" => request'[q].status # "none"
   /\ \A o \in Operations : operation[o] # "none" => operation'[o] # "none"

LEMMA FitsStill ==
   ASSUME Typed, NEW t \in RunRecords, RunFits(t), Persists PROVE RunFits(t)'
<1>1. t.try \in Nat /\ lost \in Nat
  BY SettingFacts DEF RunRecords
<1> QED
  BY <1>1 DEF RunFits, Persists

\* Where a run that moves within its stream may get to.
MovesWell(m, t) ==
   /\ Moves(m, t)
   /\ \/ run[m].pc = "queued" /\ t.pc = "open"
      \/ run[m].pc \in InStream \cup {"poll"} /\ t.pc = "fail"
      \/ run[m].pc = "put" /\ t.pc = "record"
      \/ run[m].pc = "record" /\ t.pc \in {"hash", "save"}
      \/ run[m].pc = "hash" /\ t.pc = "save"
      \/ run[m].pc = "save" /\ t.pc = "fulfil"
      \/ run[m].pc = "fail" /\ t.pc = "tell"
      \/ run[m].pc = "tell" /\ t.pc = "document"
      \/ run[m].pc = "succeed" /\ t.pc = "finalize"

LEMMA MoveFits ==
   ASSUME Typed, NEW m \in Messages, NEW t, MovesWell(m, t), Persists
   PROVE  RunFits(t)' /\ run[m].pc # "none"
<1>1. PICK x \in RunRecords : x = run[m] /\ RunFits(x)
  BY RunFacts
<1>2. RunFits(x)'
  BY <1>1, FitsStill
<1>3. /\ t.try = x.try /\ t.op = x.op /\ t.stream = x.stream /\ t.req = x.req
      /\ t.clip = x.clip /\ t.captured = x.captured
      /\ \/ x.pc = "queued" /\ t.pc = "open"
         \/ x.pc \in InStream \cup {"poll"} /\ t.pc = "fail"
         \/ x.pc = "put" /\ t.pc = "record"
         \/ x.pc = "record" /\ t.pc \in {"hash", "save"}
         \/ x.pc = "hash" /\ t.pc = "save"
         \/ x.pc = "save" /\ t.pc = "fulfil"
         \/ x.pc = "fail" /\ t.pc = "tell"
         \/ x.pc = "tell" /\ t.pc = "document"
         \/ x.pc = "succeed" /\ t.pc = "finalize"
  BY <1>1 DEF MovesWell, Moves
<1> QED
  BY <1>1, <1>2, <1>3 DEF RunFits, Running, InStream, InGap, WithClip

LEMMA AdvanceFits ==
   ASSUME Typed, NEW m \in Messages, NEW t, Advances(m, t), Persists,
          run[m].pc \in {"fetch", "fulfil", "tell", "document"},
          t.captured \in {run[m].captured, run[m].captured + 1}
   PROVE  RunFits(t)'
<1>1. PICK x \in RunRecords : x = run[m] /\ RunFits(x)
  BY RunFacts
<1>2. RunFits(x)'
  BY <1>1, FitsStill
<1>3. /\ t.try = x.try /\ t.op = x.op /\ t.stream = 2 /\ t.req = NoReq
      /\ t.captured \in {x.captured, x.captured + 1}
      /\ t.pc = IF x.stream = 2 THEN "succeed" ELSE "poll"
      /\ x.pc \in {"fetch", "fulfil", "tell", "document"}
  BY <1>1 DEF Advances
<1>4. x.stream \in {1, 2} /\ x.captured \in Nat
  BY DEF RunRecords, Streams
<1> HIDE DEF NoReq
<1> QED
  BY <1>2, <1>3, <1>4 DEF RunFits, Running, InStream, InGap, WithClip

LEMMA ForgetFits ==
   ASSUME Typed, NEW m \in Messages, NEW t, Forgets(m, t),
          t.pc \in {"over", "dead", "queued"}, t.try <= lost'
   PROVE  RunFits(t)'
<1>1. /\ t.stream = 1 /\ t.req = NoReq /\ t.captured = 0
      /\ t.pc \in {"over", "dead", "queued"} /\ t.try <= lost'
  BY DEF Forgets
<1> HIDE DEF NoReq
<1> QED
  BY <1>1 DEF RunFits, Running, InStream, InGap, WithClip

\* A step of a run that has been published.
LEMMA RunStepTyped ==
   ASSUME Typed, NEW m \in Messages, run[m].pc # "none", NEW t, Becomes(m, t), RunFits(t)',
          Persists, OperationsTyped', RequestsTyped', ArtifactsTyped', HistoryTyped',
          UNCHANGED operator
   PROVE  Typed'
<1>1. /\ run' \in [Messages -> RunRecords]
      /\ run'[m] = t
      /\ \A n \in Messages : n # m => run'[n] = run[n]
  BY Replaced
<1>2. ASSUME NEW n \in Messages PROVE RunFits(run[n])'
  <2>1. CASE n = m
    BY <1>1, <2>1 DEF RunFits
  <2>2. CASE n # m
    <3>1. PICK x \in RunRecords : x = run[n] /\ RunFits(x)
      BY RunFacts
    <3>2. RunFits(x)' /\ run'[n] = x
      BY <1>1, <2>2, <3>1, FitsStill
    <3> QED
      BY <3>2 DEF RunFits
  <2> QED
    BY <2>1, <2>2
<1>3. OperatorTyped'
  BY <1>1 DEF Typed, OperatorTyped, Persists, Messages
<1> QED
  BY <1>1, <1>2, <1>3 DEF Typed, RunsTyped

LEMMA PersistsPlain ==
   ASSUME Typed, UNCHANGED <<lost, request, operation>> PROVE Persists
BY SettingFacts DEF Persists

\* A request is set to a status after its creation.
LEMMA SettleEffect ==
   ASSUME Typed, NEW m \in Messages, NEW st \in {"fulfilled", "failed"}, Settle(m, st),
          run[m].req \in Requests => request[run[m].req].status # "none"
   PROVE  /\ RequestsTyped'
          /\ \A q \in Requests : request[q].status # "none" => request'[q].status # "none"
          /\ \A q \in Requests : q # run[m].req => request'[q] = request[q]
          /\ run[m].req \in Requests => request'[run[m].req].status = st
<1> SUFFICES ASSUME NEW q \in Requests
             PROVE  /\ request'[q] \in RequestRecords
                    /\ request'[q].status = "none" <=> request'[q].op = NoOperation
                    /\ request[q].status # "none" => request'[q].status # "none"
                    /\ q # run[m].req => request'[q] = request[q]
                    /\ q = run[m].req => request'[q].status = st
  <2>1. request' = [q \in Requests |-> request'[q]]
    BY DEF Settle
  <2> QED
    BY <2>1 DEF RequestsTyped
<1>1. PICK y \in RequestRecords : y = request[q] /\ (y.status = "none" <=> y.op = NoOperation)
  BY RequestFacts
<1>2. CASE q = run[m].req
  <2>1. request'[q] = [y EXCEPT !.status = st]
    BY <1>1, <1>2 DEF Settle
  <2> QED
    BY <1>1, <1>2, <2>1 DEF RequestRecords
<1>3. CASE q # run[m].req
  BY <1>1, <1>3 DEF Settle
<1> QED
  BY <1>2, <1>3

\* The status of an operation is set.
LEMMA OperationSet ==
   ASSUME Typed, NEW o \in Operations,
          NEW st \in {"requested", "processing", "available", "downloaded", "unavailable", "failed"},
          operation' = [operation EXCEPT ![o] = st]
   PROVE  /\ OperationsTyped' /\ operation'[o] = st
          /\ \A p \in Operations : p # o => operation'[p] = operation[p]
          /\ \A p \in Operations : operation[p] # "none" => operation'[p] # "none"
BY DEF Typed, OperationsTyped, Final

LEMMA EventFacts ==
   ASSUME NEW s \in 0..2, NEW c \in Clips \cup {None},
          NEW k \in {"recorded", "hashed", "unavailable", "succeeded", "failed"}
   PROVE  /\ Event(k, s, c) \in EventRecords
          /\ Event(k, s, c).kind = k /\ Event(k, s, c).stream = s /\ Event(k, s, c).clip = c
BY DEF Event, EventRecords

\* The events of a run's stream.
LEMMA StreamEvents ==
   ASSUME Typed, NEW m \in Messages
   PROVE  /\ Event("recorded", Stream(m), None) \in EventRecords
          /\ Event("hashed", Stream(m), run[m].clip) \in EventRecords
          /\ Event("unavailable", Stream(m), None) \in EventRecords
          /\ Succeeded \in EventRecords /\ Failed \in EventRecords
<1>1. PICK x \in RunRecords : x = run[m]
  BY RunFacts
<1>2. x.stream \in 0..2 /\ x.clip \in Clips \cup {None}
  BY DEF RunRecords, Streams
<1> QED
  BY <1>1, <1>2, EventFacts DEF Stream, Succeeded, Failed

\* The parts of Typed a step leaves alone.
LEMMA TypedPlain ==
   ASSUME Typed, UNCHANGED setting
   PROVE  /\ UNCHANGED operation => OperationsTyped'
          /\ UNCHANGED request => RequestsTyped'
          /\ UNCHANGED artifacts => ArtifactsTyped'
          /\ log' \subseteq EventRecords /\ UNCHANGED <<overlapped, skipped, untold, lost, errors>> => HistoryTyped'
          /\ log' \subseteq EventRecords /\ UNCHANGED <<overlapped, skipped>> /\ untold' \subseteq Requests /\ MayFail
             /\ \/ lost' = lost + 1 /\ errors' = errors
                \/ lost' = lost /\ errors' = errors + 1
             => HistoryTyped' /\ lost' \in Nat /\ lost <= lost'
<1>1. lost \in Nat /\ errors \in Nat /\ setting.faults \in Nat
  BY SettingFacts
<1>2. HistoryTyped
  BY DEF Typed
<1>3. UNCHANGED operation => OperationsTyped'
  BY DEF Typed, OperationsTyped
<1>4. UNCHANGED request => RequestsTyped'
  BY DEF Typed, RequestsTyped
<1>5. UNCHANGED artifacts => ArtifactsTyped'
  BY DEF Typed, ArtifactsTyped, artifacts
<1>6. log' \subseteq EventRecords /\ UNCHANGED <<overlapped, skipped, untold, lost, errors>> => HistoryTyped'
  BY <1>2 DEF HistoryTyped
<1>7. ASSUME log' \subseteq EventRecords, UNCHANGED <<overlapped, skipped>>,
             untold' \subseteq Requests, MayFail,
             \/ lost' = lost + 1 /\ errors' = errors
             \/ lost' = lost /\ errors' = errors + 1
      PROVE  HistoryTyped' /\ lost' \in Nat /\ lost <= lost'
  <2>1. lost' \in Nat /\ errors' \in Nat /\ lost' + errors' <= setting.faults /\ lost <= lost'
    BY <1>1, <1>7 DEF MayFail
  <2> QED
    BY <1>2, <1>7, <2>1 DEF HistoryTyped
<1> QED
  BY <1>3, <1>4, <1>5, <1>6, <1>7

\* The steps that leave requests and operations alone and go on in the stream.
LEMMA MovingTyped ==
   ASSUME Typed, NEW m \in Messages, UNCHANGED setting,
          \/ Start(m) \/ StreamUnavailable(m) \/ Put(m) \/ RecordArtifact(m)
          \/ EmitHash(m) \/ SaveArtifact(m) \/ Succeed(m) \/ TimeLimitInStream(m)
   PROVE  Typed'
<1> DEFINE Moving(pc) == Goto(m, pc) /\ pc \in Pcs /\ \A t : Moves(m, t) /\ t.pc = pc => MovesWell(m, t)
<1>1. ASSUME NEW pc, Moving(pc), UNCHANGED <<request, operation, operator>>,
             ArtifactsTyped', HistoryTyped', lost' = lost
      PROVE  Typed'
  <2>1. PICK t : MovesWell(m, t)
    BY <1>1, GotoEffect
  <2>2. Persists
    BY <1>1, PersistsPlain
  <2>3. RunFits(t)' /\ run[m].pc # "none"
    BY <2>1, <2>2, MoveFits
  <2>4. Becomes(m, t)
    BY <2>1 DEF MovesWell, Moves
  <2> QED
    BY <1>1, <2>2, <2>3, <2>4, TypedPlain, RunStepTyped
<1> HIDE DEF Moving
<1>2. CASE Start(m)
  <2>1. Moving("open")
    BY <1>2 DEF Start, At, MovesWell, Moving, Pcs, Running
  <2>2. HistoryTyped'
    BY <1>2 DEF Typed, HistoryTyped, Start, faults
  <2> QED
    BY <1>1, <1>2, <2>1, <2>2, TypedPlain DEF Start, faults
<1>3. CASE StreamUnavailable(m)
  <2>1. Moving("fail")
    BY <1>3 DEF StreamUnavailable, MovesWell, Moving, Pcs, Running, InGap, InStream
  <2>2. HistoryTyped'
    BY <1>3 DEF Typed, HistoryTyped, StreamUnavailable, faults, history
  <2> QED
    BY <1>1, <1>3, <2>1, <2>2, TypedPlain DEF StreamUnavailable, faults
<1>4. CASE Put(m)
  <2>1. Moving("record")
    BY <1>4 DEF Put, At, MovesWell, Moving, Pcs, Running, InStream
  <2>2. HistoryTyped'
    BY <1>4 DEF Typed, HistoryTyped, Put, faults, history
  <2>3. ArtifactsTyped'
    <3>1. run[m].clip \in Clips \cup {None} /\ Stream(m) \in Streams
      BY RunFacts DEF RunRecords, Stream
    <3> QED
      BY <1>4, <3>1 DEF Put, Typed, ArtifactsTyped
  <2> QED
    BY <1>1, <1>4, <2>1, <2>2, <2>3 DEF Put, faults
<1>5. CASE RecordArtifact(m)
  <2>1. Moving(IF HashedEvents(Stream(m)) = {} THEN "hash" ELSE "save")
    BY <1>5 DEF RecordArtifact, At, MovesWell, Moving, Pcs, Running, InStream
  <2>2. HistoryTyped'
    BY <1>5, StreamEvents DEF Typed, HistoryTyped, RecordArtifact, faults, history
  <2> QED
    BY <1>1, <1>5, <2>1, <2>2, TypedPlain DEF RecordArtifact, faults
<1>6. CASE EmitHash(m)
  <2>1. Moving("save")
    BY <1>6 DEF EmitHash, At, MovesWell, Moving, Pcs, Running, InStream
  <2>2. HistoryTyped'
    BY <1>6, StreamEvents DEF Typed, HistoryTyped, EmitHash, faults, history
  <2> QED
    BY <1>1, <1>6, <2>1, <2>2, TypedPlain DEF EmitHash, faults
<1>7. CASE SaveArtifact(m)
  <2>1. Moving("fulfil")
    BY <1>7 DEF SaveArtifact, At, MovesWell, Moving, Pcs, Running, InStream
  <2>2. HistoryTyped'
    BY <1>7 DEF Typed, HistoryTyped, SaveArtifact, faults, history
  <2>3. ArtifactsTyped'
    <3>1. run[m].clip \in Clips \cup {None} /\ Stream(m) \in Streams
      BY RunFacts DEF RunRecords, Stream
    <3> QED
      BY <1>7, <3>1 DEF SaveArtifact, Typed, ArtifactsTyped
  <2> QED
    BY <1>1, <1>7, <2>1, <2>2, <2>3 DEF SaveArtifact, faults
<1>8. CASE Succeed(m)
  <2>1. Moving("finalize")
    BY <1>8 DEF Succeed, At, MovesWell, Moving, Pcs, Running
  <2>2. HistoryTyped'
    BY <1>8, StreamEvents DEF Typed, HistoryTyped, Succeed, faults, history
  <2> QED
    BY <1>1, <1>8, <2>1, <2>2, TypedPlain DEF Succeed, faults
<1>9. CASE TimeLimitInStream(m)
  <2>1. Moving("fail")
    BY <1>9 DEF TimeLimitInStream, MovesWell, Moving, Pcs, Running, InGap
  <2>2. HistoryTyped'
    BY <1>9, TypedPlain DEF TimeLimitInStream, history, Typed, HistoryTyped
  <2> QED
    BY <1>1, <1>9, <2>1, <2>2, TypedPlain DEF TimeLimitInStream
<1> QED
  BY <1>2, <1>3, <1>4, <1>5, <1>6, <1>7, <1>8, <1>9

\* The steps that end a run, or send its message back.
LEMMA EndingTyped ==
   ASSUME Typed, NEW m \in Messages, UNCHANGED setting,
          \/ SkipDuplicate(m) \/ SaveConflict(m) \/ DocumentConflict(m) \/ Finalize(m)
          \/ RunRaises(m) \/ DatabaseFails(m) \/ WorkerLost(m)
   PROVE  Typed'
<1>1. ASSUME NEW pc \in {"over", "dead"}, End(m, pc), run[m].pc # "none",
             Persists, OperationsTyped', UNCHANGED <<request, artifacts, operator>>, HistoryTyped'
      PROVE  Typed'
  <2>1. PICK t : Forgets(m, t) /\ t.pc = pc /\ t.try = 0
    BY <1>1, EndEffect DEF Pcs
  <2>2. RunFits(t)'
    BY <1>1, <2>1, ForgetFits DEF Persists
  <2> QED
    BY <1>1, <2>1, <2>2, TypedPlain, RunStepTyped DEF Forgets
<1>2. CASE SkipDuplicate(m)
  <2>1. HistoryTyped'
    BY <1>2 DEF SkipDuplicate, Typed, HistoryTyped, faults
  <2> QED
    BY <1>1, <1>2, <2>1, TypedPlain, PersistsPlain DEF SkipDuplicate, At, faults
<1>3. CASE SaveConflict(m) \/ DocumentConflict(m)
  <2>1. HistoryTyped'
    BY <1>3 DEF SaveConflict, DocumentConflict, Typed, HistoryTyped, faults, history
  <2>2. /\ End(m, "dead") /\ run[m].pc # "none"
        /\ UNCHANGED <<operation, request, artifacts, operator, lost>>
    BY <1>3 DEF SaveConflict, DocumentConflict, At, faults
  <2> QED
    BY <1>1, <2>1, <2>2, TypedPlain, PersistsPlain
<1>4. CASE Finalize(m)
  <2>1. run[m].op \in Operations
    BY <1>4, RunFacts DEF Finalize, At, RunFits, Running
  <2>2. OperationsTyped' /\ \A o \in Operations : operation[o] # "none" => operation'[o] # "none"
    BY <1>4, <2>1, OperationSet DEF Finalize, Operation, Verdict
  <2>3. Persists
    BY <1>4, <2>2, SettingFacts DEF Persists, Finalize, faults
  <2>4. HistoryTyped'
    BY <1>4 DEF Finalize, Typed, HistoryTyped, faults, history
  <2> QED
    BY <1>1, <1>4, <2>2, <2>3, <2>4 DEF Finalize, At
<1>5. CASE RunRaises(m)
  <2>1. OperationsTyped' /\ \A o \in Operations : operation[o] # "none" => operation'[o] # "none"
    <3>1. CASE run[m].op = NoOperation
      BY <1>5, <3>1, TypedPlain DEF RunRaises, Operation
    <3>2. CASE run[m].op # NoOperation
      <4>1. run[m].op \in Operations
        BY <3>2, RunFacts DEF RunRecords
      <4> QED
        BY <1>5, <3>2, <4>1, OperationSet DEF RunRaises, Operation
    <3> QED
      BY <3>1, <3>2
  <2>2. HistoryTyped' /\ lost' \in Nat /\ lost <= lost'
    <3>1. log' \subseteq EventRecords
      BY <1>5, StreamEvents DEF RunRaises, Typed, HistoryTyped
    <3> QED
      BY <1>5, <3>1, TypedPlain DEF RunRaises, BreaksOff, Typed, HistoryTyped
  <2>3. Persists
    BY <1>5, <2>1, <2>2 DEF Persists, RunRaises, BreaksOff
  <2> QED
    BY <1>1, <1>5, <2>1, <2>2, <2>3 DEF RunRaises, BreaksOff, Running, InStream, InGap
<1>6. CASE DatabaseFails(m)
  <2>1. HistoryTyped' /\ lost' \in Nat /\ lost <= lost'
    <3>1. log' \subseteq EventRecords
      BY <1>6 DEF DatabaseFails, Typed, HistoryTyped
    <3> QED
      BY <1>6, <3>1, TypedPlain DEF DatabaseFails, BreaksOff, Typed, HistoryTyped
  <2> QED
    BY <1>1, <1>6, <2>1, TypedPlain, PersistsPlain
    DEF DatabaseFails, BreaksOff, Running, InStream, InGap
<1>7. CASE WorkerLost(m)
  <2>1. HistoryTyped' /\ lost' \in Nat /\ lost <= lost'
    <3>1. log' \subseteq EventRecords
      BY <1>7 DEF WorkerLost, Typed, HistoryTyped
    <3> QED
      BY <1>7, <3>1, TypedPlain DEF WorkerLost, BreaksOff, Typed, HistoryTyped
  <2>2. PICK t : Forgets(m, t) /\ t.pc = "queued" /\ t.try = run[m].try + 1
    BY <1>7, LostEffect
  <2>3. Persists
    BY <1>7, <2>1 DEF Persists, WorkerLost, BreaksOff
  <2>4. t.try <= lost'
    <3>1. PICK x \in RunRecords : x = run[m] /\ x.try <= lost
      BY RunFacts DEF RunFits
    <3> QED
      BY <1>7, <2>2, <3>1, SettingFacts DEF RunRecords, WorkerLost
  <2>5. RunFits(t)'
    BY <2>2, <2>4, ForgetFits
  <2>6. Becomes(m, t) /\ run[m].pc # "none"
    BY <1>7, <2>2 DEF Forgets, WorkerLost, Running, InStream, InGap
  <2> QED
    BY <1>7, <2>1, <2>3, <2>5, <2>6, TypedPlain, RunStepTyped DEF WorkerLost, BreaksOff
<1> QED
  BY <1>2, <1>3, <1>4, <1>5, <1>6, <1>7

\* A gap's request exists, if the run has come to know one.
LEMMA SettlesExisting ==
   ASSUME Typed, NEW m \in Messages, run[m].pc \in {"fail", "fulfil"}
   PROVE  run[m].req \in Requests =>
             run[m].req[2] = run[m].stream /\ request[run[m].req].status # "none"
BY RunFacts, Names DEF RunFits, InStream, InGap

\* The steps that end a stream.
LEMMA AdvancingTyped ==
   ASSUME Typed, NEW m \in Messages, UNCHANGED setting,
          Fulfil(m) \/ FailRequest(m) \/ TellGap(m) \/ DocumentGap(m)
   PROVE  Typed'
<1>1. CASE Fulfil(m)
  <2>1. PICK t : Advances(m, t) /\ t.captured = run[m].captured + 1
    BY <1>1, FulfilEffect
  <2>2. /\ RequestsTyped'
        /\ \A q \in Requests : request[q].status # "none" => request'[q].status # "none"
    BY <1>1, SettlesExisting, SettleEffect DEF Fulfil, At
  <2>3. Persists
    BY <1>1, <2>2, SettingFacts DEF Persists, Fulfil, faults
  <2>4. RunFits(t)'
    BY <1>1, <2>1, <2>3, AdvanceFits DEF Fulfil, At
  <2>5. HistoryTyped'
    BY <1>1 DEF Fulfil, Typed, HistoryTyped, faults, history
  <2> QED
    BY <1>1, <2>1, <2>2, <2>3, <2>4, <2>5, TypedPlain, RunStepTyped DEF Fulfil, At, Advances
<1>2. CASE FailRequest(m)
  <2>1. /\ RequestsTyped'
        /\ \A q \in Requests : request[q].status # "none" => request'[q].status # "none"
    BY <1>2, SettlesExisting, SettleEffect DEF FailRequest, At
  <2>2. Persists
    BY <1>2, <2>1, SettingFacts DEF Persists, FailRequest, faults
  <2>3. HistoryTyped'
    BY <1>2 DEF FailRequest, Typed, HistoryTyped, faults, history
  <2>4. PICK t : Moves(m, t) /\ t.pc = "tell"
    BY <1>2, GotoEffect DEF FailRequest, Pcs, Running, InGap
  <2>5. Becomes(m, t) /\ RunFits(t)'
    BY <1>2, <2>2, <2>4, MoveFits DEF FailRequest, At, Moves, MovesWell
  <2> QED
    BY <1>2, <2>1, <2>2, <2>3, <2>5, TypedPlain, RunStepTyped DEF FailRequest, At
<1>4. CASE TellGap(m)
  <2>1. Persists
    BY <1>4, PersistsPlain DEF TellGap, faults
  <2>2. HistoryTyped'
    BY <1>4, StreamEvents DEF TellGap, Typed, HistoryTyped, faults, history
  <2>3. \E t : Becomes(m, t) /\ RunFits(t)'
    <3>1. CASE gap[Stream(m)]
      <4>1. run' = [run EXCEPT ![m] = NextStream(m)] /\ run[m].pc = "tell"
        BY <1>4, <3>1 DEF TellGap, At
      <4>2. PICK t : Advances(m, t) /\ t.captured = run[m].captured
        BY <4>1, AdvanceEffect DEF Running, InGap
      <4> QED
        BY <2>1, <4>1, <4>2, AdvanceFits DEF Advances
    <3>2. CASE ~gap[Stream(m)]
      <4>1. Goto(m, "document") /\ run[m].pc = "tell"
        BY <1>4, <3>2 DEF TellGap, At, Goto, Typed, RunsTyped
      <4>2. PICK t : Moves(m, t) /\ t.pc = "document"
        BY <4>1, GotoEffect DEF Pcs, Running, InGap
      <4> QED
        BY <2>1, <4>1, <4>2, MoveFits DEF Moves, MovesWell
    <3> QED
      BY <3>1, <3>2
  <2> QED
    BY <1>4, <2>1, <2>2, <2>3, TypedPlain, RunStepTyped DEF TellGap, At
<1>3. CASE DocumentGap(m)
  <2>1. PICK t : Advances(m, t) /\ t.captured = run[m].captured
    BY <1>3, AdvanceEffect DEF DocumentGap, At, Running, InGap
  <2>2. Persists
    BY <1>3, PersistsPlain DEF DocumentGap, faults
  <2>3. RunFits(t)'
    BY <1>3, <2>1, <2>2, AdvanceFits DEF DocumentGap, At
  <2>4. HistoryTyped'
    BY <1>3 DEF DocumentGap, Typed, HistoryTyped, faults, history
  <2>5. ArtifactsTyped'
    BY <1>3 DEF DocumentGap, Typed, ArtifactsTyped
  <2> QED
    BY <1>3, <2>1, <2>2, <2>3, <2>4, <2>5, TypedPlain, RunStepTyped DEF DocumentGap, At, Advances
<1> QED
  BY <1>1, <1>2, <1>3, <1>4

\* The steps that open the operation and look for the stream's clip.
LEMMA OpeningTyped ==
   ASSUME Typed, NEW m \in Messages, UNCHANGED setting,
          OpenOperation(m) \/ Poll(m) \/ FetchClip(m)
   PROVE  Typed'
<1> USE DEF Running, InStream, InGap
<1>0. PICK x \in RunRecords : x = run[m] /\ RunFits(x)
  BY RunFacts
<1>1. CASE OpenOperation(m)
  <2>1. PICK t : \E o \in Operations :
             /\ operation' = [operation EXCEPT ![o] = "processing"]
             /\ Becomes(m, t) /\ t.pc = "poll" /\ t.op = o
             /\ t.try = run[m].try /\ t.carried = run[m].carried
             /\ t.stream = run[m].stream /\ t.req = run[m].req /\ t.clip = run[m].clip
             /\ t.captured = run[m].captured
    BY <1>1, OpenEffect
  <2>2. OperationsTyped' /\ \A p \in Operations : operation[p] # "none" => operation'[p] # "none"
    BY <2>1, OperationSet
  <2>3. Persists
    BY <1>1, <2>2, SettingFacts DEF Persists, OpenOperation, faults
  <2>4. RunFits(x)' /\ x.pc = "open" /\ operation'[t.op] # "none"
    BY <1>0, <1>1, <2>1, <2>3, FitsStill, OperationSet DEF OpenOperation, At
  <2>5. RunFits(t)'
    BY <1>0, <2>1, <2>4 DEF RunFits, WithClip
  <2>6. HistoryTyped'
    BY <1>1 DEF OpenOperation, Typed, HistoryTyped, faults, history
  <2> QED
    BY <1>1, <2>1, <2>2, <2>3, <2>5, <2>6, TypedPlain, RunStepTyped DEF OpenOperation, At
<1>2. CASE Poll(m)
  <2>1. PICK t : \E q \in Requests :
             /\ operation' = [operation EXCEPT ![run[m].op] = "processing"]
             /\ Becomes(m, t) /\ t.pc = "fetch" /\ t.req = q /\ q[2] = t.stream
             /\ t.op = run[m].op /\ t.try = run[m].try /\ t.carried = run[m].carried
             /\ t.stream = run[m].stream /\ t.clip = run[m].clip
             /\ t.captured = run[m].captured
             /\ \/ request' = request /\ request[q].status # "none"
                \/ request' = [request EXCEPT ![q] = [status |-> "in_progress", op |-> run[m].op]]
    BY <1>2, PollEffect
  <2>2. PICK q \in Requests :
             /\ operation' = [operation EXCEPT ![x.op] = "processing"]
             /\ t.pc = "fetch" /\ t.req = q /\ q[2] = t.stream
             /\ t.op = x.op /\ t.try = x.try
             /\ t.stream = x.stream /\ t.captured = x.captured
             /\ \/ request' = request /\ request[q].status # "none"
                \/ request' = [request EXCEPT ![q] = [status |-> "in_progress", op |-> x.op]]
    BY <1>0, <2>1
  <2>3. x.pc = "poll" /\ x.op \in Operations
    BY <1>0, <1>2 DEF Poll, At, RunFits
  <2>4. OperationsTyped' /\ \A p \in Operations : operation[p] # "none" => operation'[p] # "none"
    BY <2>2, <2>3, OperationSet
  <2>5. /\ RequestsTyped' /\ request'[q].status # "none"
        /\ \A p \in Requests : request[p].status # "none" => request'[p].status # "none"
    <3>1. CASE request' = request /\ request[q].status # "none"
      BY <3>1, TypedPlain DEF Typed
    <3>2. CASE request' = [request EXCEPT ![q] = [status |-> "in_progress", op |-> x.op]]
      <4>1. [status |-> "in_progress", op |-> x.op] \in RequestRecords
        BY <2>3 DEF RequestRecords
      <4> QED
        BY <2>3, <3>2, <4>1, Names DEF Typed, RequestsTyped
    <3> QED
      BY <2>2, <3>1, <3>2
  <2>6. Persists
    BY <1>2, <2>4, <2>5, SettingFacts DEF Persists, Poll, faults
  <2>7. RunFits(x)'
    BY <1>0, <2>6, FitsStill
  <2>8. RunFits(t)'
    BY <2>2, <2>3, <2>5, <2>7 DEF RunFits, WithClip
  <2>9. HistoryTyped'
    BY <1>2 DEF Poll, Typed, HistoryTyped, faults, history
  <2> QED
    BY <1>2, <2>1, <2>4, <2>5, <2>6, <2>8, <2>9, TypedPlain, RunStepTyped DEF Poll, At
<1>3. CASE FetchClip(m)
  <2>1. x.pc = "fetch" /\ x.op \in Operations
    BY <1>0, <1>3 DEF FetchClip, At, RunFits
  <2>2. OperationsTyped' /\ \A p \in Operations : operation[p] # "none" => operation'[p] # "none"
    BY <1>0, <1>3, <2>1, OperationSet DEF FetchClip, Operation
  <2>3. Persists
    BY <1>3, <2>2, SettingFacts DEF Persists, FetchClip, faults
  <2>4. HistoryTyped'
    BY <1>3 DEF FetchClip, Typed, HistoryTyped, faults, history
  <2>5. RunFits(x)'
    BY <1>0, <2>3, FitsStill
  <2>6. PICK t :
             \/ Advances(m, t) /\ t.captured = run[m].captured
             \/ /\ Becomes(m, t) /\ t.pc = "put" /\ t.clip \in Clips
                /\ t.op = run[m].op /\ t.try = run[m].try /\ t.carried = run[m].carried
                /\ t.stream = run[m].stream /\ t.req = run[m].req
                /\ t.captured = run[m].captured
    BY <1>3, FetchEffect
  <2>7. Becomes(m, t) /\ RunFits(t)'
    <3>1. CASE Advances(m, t) /\ t.captured = run[m].captured
      BY <1>0, <2>1, <2>3, <3>1, AdvanceFits DEF Advances
    <3>2. CASE /\ Becomes(m, t) /\ t.pc = "put" /\ t.clip \in Clips
               /\ t.op = run[m].op /\ t.try = run[m].try /\ t.carried = run[m].carried
               /\ t.stream = run[m].stream /\ t.req = run[m].req
               /\ t.captured = run[m].captured
      BY <1>0, <2>1, <2>5, <3>2 DEF RunFits, WithClip
    <3> QED
      BY <2>6, <3>1, <3>2
  <2> QED
    BY <1>0, <1>3, <2>1, <2>2, <2>3, <2>4, <2>7, TypedPlain, RunStepTyped DEF FetchClip
<1> QED
  BY <1>1, <1>2, <1>3

\* The steps of the operator's retry.
LEMMA OperatorStepTyped ==
   ASSUME Typed, UNCHANGED setting,
          ChooseRequests \/ MoveRequests \/ ReopenRequest \/ PublishRetry \/ RetryAbandoned
   PROVE  Typed'
<1>1. ASSUME Persists, UNCHANGED run PROVE RunsTyped'
  <2> SUFFICES ASSUME NEW n \in Messages PROVE RunFits(run[n])'
    BY <1>1 DEF Typed, RunsTyped
  <2>1. PICK x \in RunRecords : x = run[n] /\ RunFits(x)
    BY RunFacts
  <2>2. RunFits(x)'
    BY <1>1, <2>1, FitsStill
  <2> QED
    BY <1>1, <2>1, <2>2 DEF RunFits
<1>2. Retry \in Operations /\ Retry # NoOperation
  BY Names
<1> HIDE DEF Retry
<1>3. ASSUME UNCHANGED <<log, overlapped, skipped, untold, lost, errors>> PROVE HistoryTyped'
  BY <1>3 DEF Typed, HistoryTyped
<1>4. CASE ChooseRequests
  <2>1. OperationsTyped' /\ \A p \in Operations : operation[p] # "none" => operation'[p] # "none"
    BY <1>2, <1>4, OperationSet DEF ChooseRequests
  <2>2. Persists
    BY <1>4, <2>1, SettingFacts DEF Persists, ChooseRequests, faults
  <2>3. OperatorTyped'
    <3>1. PICK chosen \in SUBSET {q \in Requests : request[q] # NoRequest} :
             operator' = [pc |-> "move", chosen |-> chosen]
      BY <1>4 DEF ChooseRequests
    <3>2. chosen \in SUBSET Requests /\ \A q \in chosen : request[q].status # "none"
      BY RequestFacts
    <3> QED
      BY <1>4, <3>1, <3>2 DEF ChooseRequests, Typed, OperatorTyped
  <2>4. HistoryTyped'
    BY <1>3, <1>4 DEF ChooseRequests, history, faults
  <2> QED
    BY <1>1, <1>4, <2>1, <2>2, <2>3, <2>4, TypedPlain DEF ChooseRequests, Typed
<1>5. CASE MoveRequests
  <2>1. \A q \in operator.chosen : q \in Requests /\ request[q].status # "none"
    BY DEF Typed, OperatorTyped
  <2>2. ASSUME NEW q \in Requests
        PROVE  /\ request'[q] \in RequestRecords
               /\ request'[q].status = "none" <=> request'[q].op = NoOperation
               /\ request'[q].status = request[q].status
    <3>1. PICK y \in RequestRecords : y = request[q] /\ (y.status = "none" <=> y.op = NoOperation)
      BY RequestFacts
    <3>2. CASE q \in operator.chosen
      <4>1. request'[q] = [y EXCEPT !.op = Retry] /\ y.status # "none"
        BY <1>5, <2>1, <3>1, <3>2 DEF MoveRequests
      <4> QED
        BY <1>2, <3>1, <4>1 DEF RequestRecords
    <3>3. CASE q \notin operator.chosen
      BY <1>5, <3>1, <3>3 DEF MoveRequests
    <3> QED
      BY <3>2, <3>3
  <2>3. RequestsTyped'
    <3>1. request' = [q \in Requests |-> request'[q]]
      BY <1>5 DEF MoveRequests
    <3> QED
      BY <2>2, <3>1 DEF RequestsTyped
  <2>4. Persists
    BY <1>5, <2>2, SettingFacts DEF Persists, MoveRequests, faults
  <2>5. OperatorTyped'
    BY <1>5, <2>1, <2>2 DEF MoveRequests, Typed, OperatorTyped
  <2>6. HistoryTyped'
    BY <1>3, <1>5 DEF MoveRequests, history, faults
  <2> QED
    BY <1>1, <1>5, <2>3, <2>4, <2>5, <2>6, TypedPlain DEF MoveRequests, Typed
<1>6. CASE ReopenRequest
  <2>1. PICK q \in operator.chosen :
          /\ request' = [request EXCEPT ![q].status = "in_progress"]
          /\ operator' = [pc |-> IF operator.chosen = {q} THEN "publish" ELSE "reopen",
                          chosen |-> operator.chosen \ {q}]
    BY <1>6 DEF ReopenRequest
  <2>2. operator.chosen \in SUBSET Requests /\ \A p \in operator.chosen : request[p].status # "none"
    BY DEF Typed, OperatorTyped
  <2>3. PICK y \in RequestRecords : y = request[q] /\ y.status # "none" /\ y.op # NoOperation
    BY <2>2, RequestFacts
  <2>4. PICK w \in RequestRecords :
           /\ request' = [request EXCEPT ![q] = w] /\ w.status # "none" /\ w.op # NoOperation
    <3> DEFINE w == [y EXCEPT !.status = "in_progress"]
    <3>1. request' = [request EXCEPT ![q] = w]
      BY <2>1, <2>2, <2>3 DEF Typed, RequestsTyped
    <3>2. w \in RequestRecords /\ w.status = "in_progress" /\ w.op = y.op
      BY DEF RequestRecords
    <3> HIDE DEF w
    <3> QED
      BY <2>3, <3>1, <3>2
  <2>5. /\ RequestsTyped'
        /\ \A p \in Requests : request[p].status # "none" => request'[p].status # "none"
    BY <2>2, <2>4 DEF Typed, RequestsTyped
  <2>6. Persists
    BY <1>6, <2>5, SettingFacts DEF Persists, ReopenRequest, faults
  <2>7. OperatorTyped'
    BY <1>6, <2>1, <2>2, <2>5 DEF ReopenRequest, Typed, OperatorTyped
  <2>8. HistoryTyped'
    BY <1>3, <1>6 DEF ReopenRequest, history, faults
  <2> QED
    BY <1>1, <1>6, <2>5, <2>6, <2>7, <2>8, TypedPlain DEF ReopenRequest, Typed
<1>7. CASE PublishRetry
  <2>1. PICK t : Forgets("retry", t) /\ t.pc = "queued" /\ t.try = 0
    BY <1>7, PublishEffect
  <2>2. /\ run' \in [Messages -> RunRecords] /\ run'["retry"] = t
        /\ \A n \in Messages : n # "retry" => run'[n] = run[n]
    BY <2>1, Replaced DEF Forgets, Messages
  <2>3. Persists
    BY <1>7, PersistsPlain DEF PublishRetry, faults
  <2>4. RunFits(t)'
    BY <2>1, <2>3, ForgetFits DEF Persists, Messages
  <2>5. ASSUME NEW n \in Messages PROVE RunFits(run[n])'
    <3>1. CASE n = "retry"
      BY <2>2, <2>4, <3>1 DEF RunFits
    <3>2. CASE n # "retry"
      <4>1. PICK x \in RunRecords : x = run[n] /\ RunFits(x)
        BY RunFacts
      <4>2. RunFits(x)' /\ run'[n] = x
        BY <2>2, <2>3, <3>2, <4>1, FitsStill
      <4> QED
        BY <4>2 DEF RunFits
    <3> QED
      BY <3>1, <3>2
  <2>6. OperatorTyped'
    BY <1>7 DEF PublishRetry, Typed, OperatorTyped
  <2>7. HistoryTyped'
    BY <1>3, <1>7 DEF PublishRetry, history, faults
  <2> QED
    BY <1>7, <2>2, <2>5, <2>6, <2>7, TypedPlain DEF PublishRetry, Typed, RunsTyped
<1>8. CASE RetryAbandoned
  <2>1. HistoryTyped' /\ lost' \in Nat /\ lost <= lost'
    <3>1. log' \subseteq EventRecords
      BY <1>8 DEF RetryAbandoned, Typed, HistoryTyped
    <3> QED
      BY <1>8, <3>1, TypedPlain DEF RetryAbandoned, history, Typed, HistoryTyped
  <2>2. Persists
    BY <1>8, <2>1 DEF Persists, RetryAbandoned
  <2>3. OperatorTyped'
    BY <1>8 DEF RetryAbandoned, Typed, OperatorTyped
  <2> QED
    BY <1>1, <1>8, <2>1, <2>2, <2>3, TypedPlain DEF RetryAbandoned, Typed
<1> QED
  BY <1>4, <1>5, <1>6, <1>7, <1>8

LEMMA TypedInit == Init => Typed
<1> SUFFICES ASSUME Init PROVE Typed
  OBVIOUS
<1>0. setting \in Settings /\ setting.office \in BOOLEAN
  BY DashcamAssumption DEF Init
<1>1. PICK office \in BOOLEAN :
        /\ run = [m \in Messages |->
                    IF m = "retry" THEN Unpublished
                    ELSE [Unpublished EXCEPT !.pc = "queued",
                                             !.carried = IF office THEN First ELSE NoOperation]]
        /\ operation = [o \in Operations |-> IF office /\ o = First THEN "requested" ELSE "none"]
        /\ request = [q \in Requests |->
                        IF office /\ q[1] = First /\ q[3] = 1
                        THEN [status |-> "in_progress", op |-> First] ELSE NoRequest]
  BY <1>0 DEF Init
<1>2. First \in Operations /\ First # NoOperation
  BY Names
<1>3. PICK c \in Operations \cup {NoOperation} : c = IF office THEN First ELSE NoOperation
  BY <1>2
<1> HIDE DEF First
<1>4. PICK u \in RunRecords : u = Unpublished
  BY UnpublishedFacts
<1>5. u.pc = "none"
  BY <1>4 DEF Unpublished
<1> DEFINE t == [u EXCEPT !.pc = "queued", !.carried = c]
<1>6. t \in RunRecords /\ t.pc = "queued" /\ t.try = u.try /\ t.op = u.op
      /\ t.stream = u.stream /\ t.req = u.req /\ t.captured = u.captured
  BY DEF RunRecords
<1>7. run = [m \in Messages |-> IF m = "retry" THEN u ELSE t]
  BY <1>1, <1>3, <1>4
<1> HIDE DEF t
<1>8. lost = 0 /\ errors = 0 /\ setting \in Settings
  BY DEF Init
<1>9. RunFits(u) /\ RunFits(t)
  BY <1>4, <1>5, <1>6, <1>8, UnpublishedFacts DEF RunFits, Running, InStream, InGap, WithClip
<1>10. RunsTyped
  <2>1. run \in [Messages -> RunRecords] /\ \A m \in Messages : run[m] \in {u, t}
    BY <1>6, <1>7
  <2> QED
    BY <1>9, <2>1 DEF RunsTyped
<1>11. OperationsTyped
  BY <1>1 DEF OperationsTyped
<1>12. RequestsTyped
  <2>1. NoRequest \in RequestRecords /\ NoRequest.status = "none" /\ NoRequest.op = NoOperation
    BY DEF NoRequest, RequestRecords
  <2>2. [status |-> "in_progress", op |-> First] \in RequestRecords
    BY <1>2 DEF RequestRecords
  <2> HIDE DEF NoRequest
  <2> QED
    BY <1>1, <1>2, <2>1, <2>2 DEF RequestsTyped
<1>13. ArtifactsTyped
  BY DEF Init, ArtifactsTyped
<1>14. OperatorTyped
  <2>1. run["retry"].pc = "none"
    BY <1>5, <1>7 DEF Messages
  <2> QED
    BY <2>1 DEF Init, OperatorTyped
<1>15. HistoryTyped
  <2>1. setting.faults \in Nat
    BY <1>8, DashcamAssumption
  <2>2. log = {} /\ skipped = {} /\ untold = {} /\ overlapped = FALSE
    BY DEF Init
  <2>3. 0 + 0 <= setting.faults
    BY <2>1
  <2> QED
    BY <1>8, <2>2, <2>3 DEF HistoryTyped
<1> QED
  BY <1>10, <1>11, <1>12, <1>13, <1>14, <1>15 DEF Typed

LEMMA TypedStep == Typed /\ [Next]_vars => Typed'
<1> SUFFICES ASSUME Typed, [Next]_vars PROVE Typed'
  OBVIOUS
<1>1. CASE UNCHANGED vars
  BY <1>1 DEF vars, artifacts, history, faults, Typed, RunsTyped, RunFits, OperationsTyped,
     RequestsTyped, ArtifactsTyped, OperatorTyped, HistoryTyped
<1>2. CASE Next
  <2>1. UNCHANGED setting
    BY <1>2 DEF Next
  <2>2. CASE \E m \in Messages : Work(m) \/ Fault(m)
    <3>1. PICK m \in Messages : Work(m) \/ Fault(m)
      BY <2>2
    <3> QED
      BY <2>1, <3>1, MovingTyped, EndingTyped, AdvancingTyped, OpeningTyped DEF Work, Fault
  <2>3. CASE ChooseRequests \/ Requeue \/ RetryAbandoned
    BY <2>1, <2>3, OperatorStepTyped DEF Requeue
  <2> QED
    BY <1>2, <2>2, <2>3 DEF Next
<1> QED
  BY <1>1, <1>2

-----------------------------------------------------------------------------
(* AnyInv is kept. *)

\* Artifacts and events stay.
Grows ==
   /\ \A s \in Streams : (row[s] # None => row'[s] # None) /\ (gap[s] => gap'[s])
   /\ log \subseteq log'

LEMMA AnyStill ==
   ASSUME NEW x \in RunRecords, AnyRun(x), Grows PROVE AnyRun(x)'
<1>1. \A s \in Streams : Documented(s) => Documented(s)'
  BY DEF Grows, Documented
<1>2. x.stream \in Streams
  BY DEF RunRecords
<1>3. Announced(x.stream) => Announced(x.stream)'
  BY DEF Grows, Announced, HashedEvents
<1> QED
  BY <1>1, <1>2, <1>3 DEF AnyRun, Grows, Done

\* A run that stays in its stream, or goes on to its end.
LEMMA StayAny ==
   ASSUME Typed, AnyInv, Grows, NEW m \in Messages, NEW t \in RunRecords,
          t.stream = run[m].stream, t.captured = run[m].captured,
          run[m].pc \in Running \cup {"queued"},
          t.pc \in {"succeed", "finalize"} => run[m].pc = "succeed",
          t.pc = "fulfil" => row'[t.stream] # None,
          t.pc \in {"hash", "save"} => Event("recorded", t.stream, None) \in log',
          t.pc = "save" => Announced(t.stream)',
          t.pc = "finalize" => Succeeded \in log'
   PROVE  AnyRun(t)'
<1>1. PICK x \in RunRecords : x = run[m] /\ RunFits(x)
  BY RunFacts
<1>2. AnyRun(x)
  BY <1>1 DEF AnyInv
<1>3. AnyRun(x)'
  BY <1>1, <1>2, AnyStill
<1>4. x.stream \in {1, 2}
  BY DEF RunRecords, Streams
<1>5. CASE x.pc = "queued"
  <2>1. t.stream = 1 /\ t.captured = 0
    BY <1>1, <1>5 DEF RunFits
  <2> QED
    BY <1>5, <1>1, <2>1 DEF AnyRun, Done, Streams
<1>6. CASE x.pc \in Running
  BY <1>1, <1>3, <1>6 DEF AnyRun, Done
<1> QED
  BY <1>1, <1>5, <1>6

\* A run whose stream has its answer goes on to the next one.
LEMMA AdvanceAny ==
   ASSUME Typed, AnyInv, Grows, NEW m \in Messages, NEW t, Advances(m, t),
          run[m].pc \in Running, row'[run[m].stream] # None \/ gap'[run[m].stream],
          t.captured > 0 => run[m].captured > 0 \/ row'[run[m].stream] # None
   PROVE  AnyRun(t)'
<1>1. PICK x \in RunRecords : x = run[m] /\ RunFits(x)
  BY RunFacts
<1>2. AnyRun(x)
  BY <1>1 DEF AnyInv
<1>3. AnyRun(x)'
  BY <1>1, <1>2, AnyStill
<1>4. x.stream \in {1, 2}
  BY DEF RunRecords, Streams
<1>5. /\ t.stream = 2 /\ t.pc = IF x.stream = 2 THEN "succeed" ELSE "poll"
      /\ t.captured > 0 => x.captured > 0 \/ row'[x.stream] # None
      /\ x.pc \in Running
  BY <1>1 DEF Advances
<1>6. Documented(x.stream)'
  BY <1>1, <1>4 DEF Documented
<1>7. \A s \in Streams : Done(t, s) => Documented(s)'
  <2> SUFFICES ASSUME NEW s \in Streams, Done(t, s) PROVE Documented(s)'
    OBVIOUS
  <2>1. CASE s = x.stream
    BY <1>6, <2>1
  <2>2. CASE s # x.stream
    <3>1. Done(x, s)
      BY <1>4, <1>5, <2>2 DEF Done, Streams
    <3> QED
      BY <1>3, <1>5, <3>1 DEF AnyRun, Done
  <2> QED
    BY <2>1, <2>2
<1>8. \A s \in Streams : Done(t, s)' => Documented(s)'
  BY <1>7 DEF Done
<1>9. t.captured > 0 => \E s \in Streams : row'[s] # None
  BY <1>3, <1>4, <1>5 DEF AnyRun, Streams
<1> QED
  BY <1>5, <1>8, <1>9 DEF AnyRun

\* What answers for a failed request, and that it goes on to do so.
Told(q) == Event("unavailable", q[2], None) \in log \/ Telling(q) \/ q \in untold
StaysTold == \A q \in Requests : Told(q) => Told(q)'

LEMMA ToldStep ==
   ASSUME Typed, Grows, untold \subseteq untold', NEW m \in Messages, run[m].pc # "tell",
          NEW t, run' = [run EXCEPT ![m] = t]
   PROVE  StaysTold
<1>1. \A n \in Messages : n # m => run'[n] = run[n]
  BY DEF Typed, RunsTyped
<1>2. ASSUME NEW q \in Requests, Telling(q) PROVE Telling(q)'
  BY <1>1, <1>2 DEF Telling, At
<1> QED
  BY <1>2 DEF StaysTold, Told, Grows

\* The parts of AnyInv a step leaves alone.
LEMMA AnyPlain ==
   ASSUME Typed, AnyInv, Grows
   PROVE  /\ (Succeeded \in log' => Succeeded \in log) => SucceededIsDocumented'
          /\ UNCHANGED row => RowsHaveEvents'
          /\ StaysTold /\ (\A q \in Requests : request'[q].status \in {"fulfilled", "failed"} =>
                  request'[q].status = request[q].status) => RequestsAnswerTruly'
          /\ (\A o \in Operations : operation'[o] = "downloaded" => operation[o] = "downloaded") =>
                DownloadsBroughtFootage'
<1>1. (Succeeded \in log' => Succeeded \in log) => SucceededIsDocumented'
  BY DEF AnyInv, SucceededIsDocumented, Grows
<1>2. UNCHANGED row => RowsHaveEvents'
  BY DEF AnyInv, RowsHaveEvents, Grows, Announced, HashedEvents
<1>3. StaysTold /\ (\A q \in Requests : request'[q].status \in {"fulfilled", "failed"} =>
          request'[q].status = request[q].status) => RequestsAnswerTruly'
  BY Names DEF AnyInv, RequestsAnswerTruly, StaysTold, Told, Grows
<1>4. (\A o \in Operations : operation'[o] = "downloaded" => operation[o] = "downloaded") =>
         DownloadsBroughtFootage'
  BY DEF AnyInv, DownloadsBroughtFootage, Grows
<1> QED
  BY <1>1, <1>2, <1>3, <1>4

LEMMA AnyRunStep ==
   ASSUME Typed, AnyInv, Grows, NEW m \in Messages, NEW t, Becomes(m, t), AnyRun(t)',
          SucceededIsDocumented', RowsHaveEvents', RequestsAnswerTruly', DownloadsBroughtFootage'
   PROVE  AnyInv'
<1> SUFFICES ASSUME NEW n \in Messages PROVE AnyRun(run[n])'
  BY DEF AnyInv
<1>1. run'[m] = t /\ \A k \in Messages : k # m => run'[k] = run[k]
  BY Replaced
<1>2. CASE n = m
  BY <1>1, <1>2 DEF AnyRun, Done
<1>3. CASE n # m
  <2>1. PICK x \in RunRecords : x = run[n] /\ AnyRun(x)
    BY RunFacts DEF AnyInv
  <2>2. AnyRun(x)' /\ run'[n] = x
    BY <1>1, <1>3, <2>1, AnyStill
  <2> QED
    BY <2>2 DEF AnyRun, Done
<1> QED
  BY <1>2, <1>3

LEMMA GrowsPlain ==
   ASSUME UNCHANGED <<row, gap, log>> PROVE Grows
BY DEF Grows

LEMMA LogGrows ==
   ASSUME UNCHANGED <<row, gap>>, NEW e, log' = log \cup {e} PROVE Grows
BY DEF Grows

\* The steps that neither write an artifact nor commit an event.
LEMMA PlainAny ==
   ASSUME Typed, AnyInv, NEW m \in Messages,
          \/ Start(m) \/ OpenOperation(m) \/ Poll(m) \/ FetchClip(m) \/ StreamUnavailable(m)
          \/ Put(m) \/ TimeLimitInStream(m) \/ Fulfil(m) \/ Finalize(m)
   PROVE  AnyInv'
<1> USE DEF Running, InStream, InGap
<1>0. PICK x \in RunRecords : x = run[m] /\ RunFits(x) /\ AnyRun(x)
  BY RunFacts DEF AnyInv
<1>1. UNCHANGED <<row, gap, log>>
  BY DEF Start, OpenOperation, Poll, FetchClip, StreamUnavailable, Put, TimeLimitInStream,
     Fulfil, Finalize, artifacts
<1>2. Grows
  BY <1>1, GrowsPlain
<1>3. SucceededIsDocumented' /\ RowsHaveEvents'
  BY <1>1, <1>2, AnyPlain
<1>11. /\ run[m].pc # "tell" /\ UNCHANGED untold
  BY DEF Start, OpenOperation, Poll, FetchClip, StreamUnavailable, Put, TimeLimitInStream,
     Fulfil, Finalize, At, history
<1>12. ASSUME NEW t, Becomes(m, t) PROVE StaysTold
  BY <1>2, <1>11, <1>12, ToldStep DEF Becomes
<1>4. ASSUME NEW t, Becomes(m, t), AnyRun(t)', RequestsAnswerTruly', DownloadsBroughtFootage'
      PROVE  AnyInv'
  BY <1>2, <1>3, <1>4, AnyRunStep
<1>5. CASE Start(m) \/ StreamUnavailable(m) \/ TimeLimitInStream(m) \/ Put(m)
  <2>1. PICK pc \in {"open", "fail", "record"} : Goto(m, pc)
    BY <1>5 DEF Start, StreamUnavailable, TimeLimitInStream, Put
  <2>2. PICK t : Moves(m, t) /\ t.pc = pc
    BY <2>1, GotoEffect DEF Pcs
  <2>3. x.pc \in Running \cup {"queued"}
    BY <1>0, <1>5 DEF Start, StreamUnavailable, TimeLimitInStream, Put, At
  <2>4. AnyRun(t)'
    BY <1>0, <1>2, <2>2, <2>3, StayAny DEF Moves, Becomes
  <2>5. UNCHANGED <<operation, request>>
    BY <1>5 DEF Start, StreamUnavailable, TimeLimitInStream, Put
  <2>6. RequestsAnswerTruly' /\ DownloadsBroughtFootage'
    BY <1>2, <1>12, <2>2, <2>5, AnyPlain DEF Moves
  <2> QED
    BY <1>4, <2>2, <2>4, <2>6 DEF Moves
<1>6. CASE OpenOperation(m)
  <2>1. PICK t : \E o \in Operations :
             /\ operation' = [operation EXCEPT ![o] = "processing"]
             /\ Becomes(m, t) /\ t.pc = "poll" /\ t.op = o
             /\ t.try = run[m].try /\ t.carried = run[m].carried
             /\ t.stream = run[m].stream /\ t.req = run[m].req /\ t.clip = run[m].clip
             /\ t.captured = run[m].captured
    BY <1>6, OpenEffect
  <2>2. AnyRun(t)'
    BY <1>0, <1>2, <1>6, <2>1, StayAny DEF Becomes, OpenOperation, At
  <2>3. \A p \in Operations : operation'[p] = "downloaded" => operation[p] = "downloaded"
    BY <2>1, OperationSet
  <2>4. RequestsAnswerTruly' /\ DownloadsBroughtFootage'
    BY <1>2, <1>6, <1>12, <2>1, <2>3, AnyPlain DEF OpenOperation
  <2> QED
    BY <1>4, <2>1, <2>2, <2>4
<1>7. CASE Poll(m)
  <2>1. PICK t : \E q \in Requests :
             /\ operation' = [operation EXCEPT ![run[m].op] = "processing"]
             /\ Becomes(m, t) /\ t.pc = "fetch" /\ t.req = q /\ q[2] = t.stream
             /\ t.op = run[m].op /\ t.try = run[m].try /\ t.carried = run[m].carried
             /\ t.stream = run[m].stream /\ t.clip = run[m].clip
             /\ t.captured = run[m].captured
             /\ \/ request' = request /\ request[q].status # "none"
                \/ request' = [request EXCEPT ![q] = [status |-> "in_progress", op |-> run[m].op]]
    BY <1>7, PollEffect
  <2>2. AnyRun(t)'
    BY <1>0, <1>2, <1>7, <2>1, StayAny DEF Becomes, Poll, At
  <2>3. \A p \in Operations : operation'[p] = "downloaded" => operation[p] = "downloaded"
    <3>1. x.op \in Operations
      BY <1>0, <1>7 DEF Poll, At, RunFits
    <3> QED
      BY <1>0, <2>1, <3>1, OperationSet
  <2>4. \A p \in Requests : request'[p].status \in {"fulfilled", "failed"} =>
                               request'[p].status = request[p].status
    BY <2>1 DEF Typed, RequestsTyped
  <2>5. RequestsAnswerTruly' /\ DownloadsBroughtFootage'
    BY <1>2, <1>12, <2>1, <2>3, <2>4, AnyPlain
  <2> QED
    BY <1>4, <2>1, <2>2, <2>5
<1>8. CASE FetchClip(m)
  <2>1. PICK t :
             \/ row[run[m].stream] # None /\ Advances(m, t) /\ t.captured = run[m].captured
             \/ /\ row[run[m].stream] = None
                /\ Becomes(m, t) /\ t.pc = "put" /\ t.clip \in Clips
                /\ t.op = run[m].op /\ t.try = run[m].try /\ t.carried = run[m].carried
                /\ t.stream = run[m].stream /\ t.req = run[m].req
                /\ t.captured = run[m].captured
    BY <1>8, FetchEffect
  <2>2. run[m].pc = "fetch"
    BY <1>8 DEF FetchClip, At
  <2>3. Becomes(m, t) /\ AnyRun(t)'
    <3>1. CASE row[run[m].stream] # None /\ Advances(m, t) /\ t.captured = run[m].captured
      BY <1>1, <1>2, <2>2, <3>1, AdvanceAny DEF Advances
    <3>2. CASE /\ Becomes(m, t) /\ t.pc = "put"
               /\ t.stream = run[m].stream /\ t.captured = run[m].captured
      BY <1>2, <2>2, <3>2, StayAny DEF Becomes
    <3> QED
      BY <2>1, <3>1, <3>2
  <2>4. \A p \in Operations : operation'[p] = "downloaded" => operation[p] = "downloaded"
    <3>1. x.op \in Operations
      BY <1>0, <2>2 DEF RunFits
    <3> QED
      BY <1>0, <1>8, <3>1, OperationSet DEF FetchClip, Operation
  <2>5. RequestsAnswerTruly' /\ DownloadsBroughtFootage'
    BY <1>2, <1>8, <1>12, <2>3, <2>4, AnyPlain DEF FetchClip
  <2> QED
    BY <1>4, <2>3, <2>5
<1>9. CASE Fulfil(m)
  <2>1. PICK t : Advances(m, t) /\ t.captured = run[m].captured + 1
    BY <1>9, FulfilEffect
  <2>2. run[m].pc = "fulfil" /\ row[run[m].stream] # None
    BY <1>0, <1>9 DEF Fulfil, At, AnyRun
  <2>3. AnyRun(t)'
    BY <1>1, <1>2, <2>1, <2>2, AdvanceAny
  <2>4. RequestsAnswerTruly'
    <3>1. run[m].req \in Requests /\ run[m].req[2] = run[m].stream
      BY <1>0, <2>2 DEF RunFits
    <3>2. \A q \in Requests : q # run[m].req => request'[q] = request[q]
      BY <1>9, <2>2, SettlesExisting, SettleEffect DEF Fulfil
    <3>3. request'[run[m].req].status = "fulfilled"
      BY <1>9, <2>2, <3>1, SettlesExisting, SettleEffect DEF Fulfil
    <3> QED
      BY <1>1, <1>12, <2>1, <2>2, <3>1, <3>2, <3>3
      DEF AnyInv, RequestsAnswerTruly, Advances, StaysTold, Told
  <2>5. DownloadsBroughtFootage'
    BY <1>2, <1>9, AnyPlain DEF Fulfil
  <2> QED
    BY <1>4, <2>1, <2>3, <2>4, <2>5 DEF Advances
<1>10. CASE Finalize(m)
  <2>1. PICK t : Forgets(m, t) /\ t.pc = "over"
    BY <1>10, EndEffect DEF Finalize, Pcs
  <2>2. AnyRun(t)'
    BY <2>1 DEF AnyRun
  <2>3. x.pc = "finalize" /\ x.op \in Operations
    BY <1>0, <1>10 DEF Finalize, At, RunFits
  <2>4. operation' = [operation EXCEPT ![x.op] = Verdict(x.captured)]
    BY <1>0, <1>10 DEF Finalize, Operation
  <2>5. DownloadsBroughtFootage'
    <3> SUFFICES ASSUME NEW o \in Operations, operation'[o] = "downloaded"
                 PROVE  \E s \in Streams : row[s] # None
      BY <1>1 DEF DownloadsBroughtFootage
    <3>1. CASE o = x.op
      BY <1>0, <2>3, <2>4, <3>1 DEF Typed, OperationsTyped, Verdict, AnyRun
    <3>2. CASE o # x.op
      BY <2>4, <3>2 DEF Typed, OperationsTyped, AnyInv, DownloadsBroughtFootage
    <3> QED
      BY <3>1, <3>2
  <2>6. RequestsAnswerTruly'
    BY <1>2, <1>10, <1>12, <2>1, AnyPlain DEF Finalize, Forgets
  <2> QED
    BY <1>4, <2>1, <2>2, <2>5, <2>6 DEF Forgets
<1> QED
  BY <1>5, <1>6, <1>7, <1>8, <1>9, <1>10

\* The steps that write an artifact's row or commit an event.
LEMMA WritingAny ==
   ASSUME Typed, AnyInv, NEW m \in Messages,
          \/ RecordArtifact(m) \/ EmitHash(m) \/ SaveArtifact(m) \/ Succeed(m)
          \/ FailRequest(m) \/ TellGap(m) \/ DocumentGap(m)
   PROVE  AnyInv'
<1> USE DEF Running, InStream, InGap
<1>0. PICK x \in RunRecords : x = run[m] /\ RunFits(x) /\ AnyRun(x)
  BY RunFacts DEF AnyInv
<1>1. x.stream \in Streams /\ x.stream \in {1, 2}
  BY DEF RunRecords, Streams
<1>9. ASSUME NEW t, Becomes(m, t), Grows,
             \/ RecordArtifact(m) \/ EmitHash(m) \/ SaveArtifact(m) \/ Succeed(m)
             \/ FailRequest(m) \/ DocumentGap(m)
      PROVE  StaysTold
  <2>1. UNCHANGED untold /\ run[m].pc # "tell"
    BY <1>9 DEF RecordArtifact, EmitHash, SaveArtifact, Succeed, FailRequest, DocumentGap, At, history
  <2> QED
    BY <1>9, <2>1, ToldStep DEF Becomes
<1>2. CASE RecordArtifact(m)
  <2>1. Grows
    BY <1>2, LogGrows DEF RecordArtifact, artifacts
  <2>2. PICK pc \in {"hash", "save"} :
           Goto(m, pc) /\ pc = IF HashedEvents(x.stream) = {} THEN "hash" ELSE "save"
    BY <1>0, <1>2 DEF RecordArtifact, Stream
  <2>3. PICK t : Moves(m, t) /\ t.pc = pc
    BY <2>2, GotoEffect DEF Pcs
  <2>4. t.stream = x.stream /\ Event("recorded", t.stream, None) \in log' /\ x.pc = "record"
    BY <1>0, <1>2, <2>3 DEF RecordArtifact, At, Moves, Stream
  <2>5. t.pc = "save" => Announced(t.stream)'
    BY <2>1, <2>2, <2>3, <2>4 DEF Announced, HashedEvents, Grows
  <2>6. AnyRun(t)'
    BY <1>0, <2>1, <2>2, <2>3, <2>4, <2>5, StayAny DEF Moves, Becomes
  <2>7. Succeeded \in log' => Succeeded \in log
    BY <1>2 DEF RecordArtifact, Succeeded, Event
  <2>9. StaysTold
    BY <1>9, <1>2, <2>1, <2>3 DEF Moves
  <2> QED
    BY <1>2, <2>9, <2>1, <2>3, <2>6, <2>7, AnyPlain, AnyRunStep DEF RecordArtifact, Moves, artifacts
<1>3. CASE EmitHash(m)
  <2>1. Grows
    BY <1>3, LogGrows DEF EmitHash, artifacts
  <2>2. PICK t : Moves(m, t) /\ t.pc = "save"
    BY <1>3, GotoEffect DEF EmitHash, Pcs
  <2>3. t.stream = x.stream /\ Event("recorded", t.stream, None) \in log' /\ x.pc = "hash"
    BY <1>0, <1>3, <2>1, <2>2 DEF EmitHash, At, Moves, AnyRun, Grows
  <2>4. Announced(t.stream)'
    <3>1. Event("hashed", x.stream, x.clip) \in log'
      BY <1>0, <1>3 DEF EmitHash, Stream
    <3>2. Event("hashed", x.stream, x.clip).kind = "hashed" /\ Event("hashed", x.stream, x.clip).stream = x.stream
      BY DEF Event
    <3> QED
      BY <2>3, <3>1, <3>2 DEF Announced, HashedEvents
  <2>5. AnyRun(t)'
    BY <1>0, <2>1, <2>2, <2>3, <2>4, StayAny DEF Moves, Becomes
  <2>6. Succeeded \in log' => Succeeded \in log
    BY <1>3 DEF EmitHash, Succeeded, Event
  <2>9. StaysTold
    BY <1>9, <1>3, <2>1, <2>2 DEF Moves
  <2> QED
    BY <1>3, <2>9, <2>1, <2>2, <2>5, <2>6, AnyPlain, AnyRunStep DEF EmitHash, Moves, artifacts
<1>4. CASE SaveArtifact(m)
  <2>1. x.pc = "save" /\ x.clip \in Clips /\ x.clip # None
    BY <1>0, <1>4, Names DEF SaveArtifact, At, RunFits, WithClip
  <2>2. row' = [row EXCEPT ![x.stream] = x.clip]
    BY <1>0, <1>4 DEF SaveArtifact, Stream
  <2>3. \A s \in Streams : row'[s] # None <=> row[s] # None \/ s = x.stream
    BY <1>1, <2>1, <2>2 DEF Typed, ArtifactsTyped
  <2>4. Grows
    BY <1>4, <2>3 DEF SaveArtifact, Grows
  <2>5. PICK t : Moves(m, t) /\ t.pc = "fulfil"
    BY <1>4, GotoEffect DEF SaveArtifact, Pcs
  <2>6. t.stream = x.stream
    BY <1>0, <2>5 DEF Moves
  <2>7. AnyRun(t)'
    BY <1>0, <1>1, <2>1, <2>3, <2>4, <2>5, <2>6, StayAny DEF Moves, Becomes
  <2>8. RowsHaveEvents'
    <3>1. Event("recorded", x.stream, None) \in log /\ Announced(x.stream)
      BY <1>0, <2>1 DEF AnyRun
    <3>2. log' = log
      BY <1>4 DEF SaveArtifact
    <3> QED
      BY <2>3, <3>1, <3>2 DEF AnyInv, RowsHaveEvents, Announced, HashedEvents
  <2>9. StaysTold
    BY <1>9, <1>4, <2>4, <2>5 DEF Moves
  <2> QED
    BY <1>4, <2>9, <2>4, <2>5, <2>7, <2>8, AnyPlain, AnyRunStep DEF SaveArtifact, Moves
<1>5. CASE Succeed(m)
  <2>1. Grows
    BY <1>5, LogGrows DEF Succeed, artifacts
  <2>2. PICK t : Moves(m, t) /\ t.pc = "finalize"
    BY <1>5, GotoEffect DEF Succeed, Pcs
  <2>3. x.pc = "succeed" /\ Succeeded \in log'
    BY <1>0, <1>5 DEF Succeed, At
  <2>4. AnyRun(t)'
    BY <1>0, <2>1, <2>2, <2>3, StayAny DEF Moves, Becomes
  <2>5. SucceededIsDocumented'
    <3>1. \A s \in Streams : Documented(s)
      BY <1>0, <2>3 DEF AnyRun, Done
    <3> QED
      BY <2>1, <3>1 DEF SucceededIsDocumented, Grows, Documented
  <2>9. StaysTold
    BY <1>9, <1>5, <2>1, <2>2 DEF Moves
  <2> QED
    BY <1>5, <2>9, <2>1, <2>2, <2>4, <2>5, AnyPlain, AnyRunStep DEF Succeed, Moves, artifacts
<1>6. CASE FailRequest(m)
  <2>1. Grows
    BY <1>6, GrowsPlain DEF FailRequest, artifacts
  <2>2. run[m].pc = "fail"
    BY <1>6 DEF FailRequest, At
  <2>3. PICK t : Moves(m, t) /\ t.pc = "tell"
    BY <1>6, GotoEffect DEF FailRequest, Pcs
  <2>4. AnyRun(t)'
    BY <2>1, <2>2, <2>3, StayAny DEF Moves, Becomes
  <2>5. StaysTold
    BY <1>6, <1>9, <2>1, <2>3 DEF Moves
  <2>6. RequestsAnswerTruly'
    <3>1. \A q \in Requests : q # run[m].req => request'[q] = request[q]
      BY <1>6, <2>2, SettlesExisting, SettleEffect DEF FailRequest
    <3>2. run[m].req \in Requests => request'[run[m].req].status = "failed"
      BY <1>6, <2>2, SettlesExisting, SettleEffect DEF FailRequest
    <3>3. run'[m].pc = "tell" /\ run'[m].req = run[m].req
      BY <2>3, Replaced DEF Moves
    <3>4. ASSUME NEW q \in Requests, q = run[m].req PROVE Telling(q)'
      BY <3>3, <3>4 DEF Telling, At
    <3> SUFFICES ASSUME NEW q \in Requests
                 PROVE  /\ request'[q].status = "fulfilled" => row'[q[2]] # None
                        /\ request'[q].status = "failed" => Told(q)'
      BY DEF RequestsAnswerTruly, Told
    <3>5. CASE q = run[m].req
      BY <3>2, <3>4, <3>5 DEF Told
    <3>6. CASE q # run[m].req
      BY <2>1, <2>5, <3>1, <3>6, Names DEF AnyInv, RequestsAnswerTruly, StaysTold, Told, Grows
    <3> QED
      BY <3>5, <3>6
  <2>7. Succeeded \in log' => Succeeded \in log
    BY <1>6 DEF FailRequest
  <2> QED
    BY <1>6, <2>1, <2>3, <2>4, <2>6, <2>7, AnyPlain, AnyRunStep DEF FailRequest, Moves, artifacts
<1>8. CASE TellGap(m)
  <2>1. Grows
    BY <1>8, LogGrows DEF TellGap, artifacts
  <2>2. run[m].pc = "tell"
    BY <1>8 DEF TellGap, At
  <2>3. PICK t : Becomes(m, t) /\ AnyRun(t)'
    <3>1. CASE gap[Stream(m)]
      <4>1. run' = [run EXCEPT ![m] = NextStream(m)]
        BY <1>8, <3>1 DEF TellGap, At
      <4>2. PICK u : Advances(m, u) /\ u.captured = run[m].captured
        BY <2>2, <4>1, AdvanceEffect
      <4>3. gap'[run[m].stream]
        BY <1>8, <3>1 DEF TellGap, Stream, artifacts
      <4> QED
        BY <2>1, <2>2, <4>2, <4>3, AdvanceAny DEF Advances
    <3>2. CASE ~gap[Stream(m)]
      <4>1. Goto(m, "document")
        BY <1>8, <3>2 DEF TellGap, At, Goto, Typed, RunsTyped
      <4>2. PICK u : Moves(m, u) /\ u.pc = "document"
        BY <4>1, GotoEffect DEF Pcs
      <4> QED
        BY <2>1, <2>2, <4>2, StayAny DEF Moves, Becomes
    <3> QED
      BY <3>1, <3>2
  <2>4. StaysTold
    <3> SUFFICES ASSUME NEW q \in Requests, Told(q) PROVE Told(q)'
      BY DEF StaysTold
    <3>1. untold' = untold /\ Event("unavailable", run[m].stream, None) \in log'
      BY <1>8 DEF TellGap, history, Stream
    <3>2. \A n \in Messages : n # m => run'[n] = run[n]
      BY <2>3, Replaced
    <3>3. CASE Telling(q)
      <4>1. PICK n \in Messages : run[n].pc = "tell" /\ run[n].req = q
        BY <3>3 DEF Telling, At
      <4>2. CASE n = m
        <5>1. q[2] = x.stream
          BY <1>0, <2>2, <4>1, <4>2, Names DEF RunFits
        <5> QED
          BY <1>0, <3>1, <5>1 DEF Told
      <4>3. CASE n # m
        BY <3>2, <4>1, <4>3 DEF Told, Telling, At
      <4> QED
        BY <4>2, <4>3
    <3> QED
      BY <2>1, <3>1, <3>3 DEF Told, Grows
  <2>5. Succeeded \in log' => Succeeded \in log
    BY <1>8 DEF TellGap, Succeeded, Event
  <2> QED
    BY <1>8, <2>1, <2>3, <2>4, <2>5, AnyPlain, AnyRunStep DEF TellGap, artifacts
<1>7. CASE DocumentGap(m)
  <2>1. gap' = [gap EXCEPT ![x.stream] = TRUE]
    BY <1>0, <1>7 DEF DocumentGap, Stream
  <2>2. gap'[x.stream] /\ \A s \in Streams : gap[s] => gap'[s]
    BY <1>1, <2>1 DEF Typed, ArtifactsTyped
  <2>3. Grows
    BY <1>7, <2>2 DEF DocumentGap, Grows
  <2>4. PICK t : Advances(m, t) /\ t.captured = run[m].captured
    BY <1>7, AdvanceEffect DEF DocumentGap, At
  <2>5. AnyRun(t)'
    BY <1>0, <1>7, <2>2, <2>3, <2>4, AdvanceAny DEF DocumentGap, At
  <2>9. StaysTold
    BY <1>9, <1>7, <2>3, <2>4 DEF Advances
  <2> QED
    BY <1>7, <2>9, <2>3, <2>4, <2>5, AnyPlain, AnyRunStep DEF DocumentGap, Advances
<1> QED
  BY <1>2, <1>3, <1>4, <1>5, <1>6, <1>7, <1>8

\* The steps that break a run off, or skip its message.
LEMMA EndingAny ==
   ASSUME Typed, AnyInv, NEW m \in Messages,
          \/ SkipDuplicate(m) \/ SaveConflict(m) \/ DocumentConflict(m)
          \/ RunRaises(m) \/ DatabaseFails(m) \/ WorkerLost(m)
   PROVE  AnyInv'
<1>1. Grows
  BY LogGrows, GrowsPlain DEF SkipDuplicate, SaveConflict, DocumentConflict, RunRaises, DatabaseFails,
     WorkerLost, BreaksOff, artifacts
<1>2. UNCHANGED <<row, request>>
  BY DEF SkipDuplicate, SaveConflict, DocumentConflict, RunRaises, DatabaseFails, WorkerLost,
     BreaksOff, artifacts
<1>3. Succeeded \in log' => Succeeded \in log
  BY DEF SkipDuplicate, SaveConflict, DocumentConflict, RunRaises, DatabaseFails, WorkerLost,
     Succeeded, Failed, Event
<1>4. PICK t : Becomes(m, t) /\ AnyRun(t)'
  <2>1. CASE WorkerLost(m)
    BY <2>1, LostEffect DEF Forgets, AnyRun, Running, InStream, InGap
  <2>2. CASE ~WorkerLost(m)
    <3>1. PICK pc \in {"over", "dead"} : End(m, pc)
      BY <2>2 DEF SkipDuplicate, SaveConflict, DocumentConflict, RunRaises, DatabaseFails
    <3>2. PICK t : Forgets(m, t) /\ t.pc = pc /\ t.try = 0
      BY <3>1, EndEffect DEF Pcs
    <3> QED
      BY <3>2 DEF Forgets, AnyRun, Running, InStream, InGap
  <2> QED
    BY <2>1, <2>2
<1>5. \A o \in Operations : operation'[o] = "downloaded" => operation[o] = "downloaded"
  <2>1. CASE UNCHANGED operation
    BY <2>1
  <2>2. CASE run[m].op # NoOperation /\ operation' = [operation EXCEPT ![run[m].op] = "failed"]
    BY <2>2 DEF Typed, OperationsTyped
  <2> QED
    BY <2>1, <2>2 DEF SkipDuplicate, SaveConflict, DocumentConflict, RunRaises, DatabaseFails,
       WorkerLost, Operation
<1>6. StaysTold
  <2>1. CASE SkipDuplicate(m) \/ SaveConflict(m) \/ DocumentConflict(m)
    <3>1. UNCHANGED untold /\ run[m].pc # "tell"
      BY <2>1 DEF SkipDuplicate, SaveConflict, DocumentConflict, At, history
    <3> QED
      BY <1>1, <1>4, <3>1, ToldStep DEF Becomes
  <2>2. CASE BreaksOff(m)
    <3> SUFFICES ASSUME NEW q \in Requests, Told(q) PROVE Told(q)'
      BY DEF StaysTold
    <3>1. untold' = untold \cup {p \in Requests : run[m].pc = "tell" /\ p = run[m].req}
      BY <2>2 DEF BreaksOff, At
    <3>2. \A n \in Messages : n # m => run'[n] = run[n]
      BY <1>4, Replaced
    <3>3. Telling(q) => Telling(q)' \/ q \in untold'
      BY <3>1, <3>2 DEF Telling, At
    <3> QED
      BY <1>1, <3>1, <3>3 DEF Told, Grows
  <2> QED
    BY <2>1, <2>2 DEF RunRaises, DatabaseFails, WorkerLost
<1> QED
  BY <1>1, <1>2, <1>3, <1>4, <1>5, <1>6, AnyPlain, AnyRunStep

LEMMA OperatorStepAny ==
   ASSUME Typed, AnyInv,
          ChooseRequests \/ MoveRequests \/ ReopenRequest \/ PublishRetry \/ RetryAbandoned
   PROVE  AnyInv'
<1>1. UNCHANGED <<row, gap, log>>
  BY DEF ChooseRequests, MoveRequests, ReopenRequest, PublishRetry, RetryAbandoned, artifacts
<1>2. Grows
  BY <1>1, GrowsPlain
<1>3. \A o \in Operations : operation'[o] = "downloaded" => operation[o] = "downloaded"
  <2>1. Retry \in Operations
    BY Names
  <2> HIDE DEF Retry
  <2> QED
    BY <2>1 DEF Typed, OperationsTyped, ChooseRequests, MoveRequests, ReopenRequest, PublishRetry,
     RetryAbandoned
<1>4. \A q \in Requests : request'[q].status \in {"fulfilled", "failed"} =>
                             request'[q].status = request[q].status
  <2> SUFFICES ASSUME NEW q \in Requests, request'[q].status \in {"fulfilled", "failed"}
               PROVE  request'[q].status = request[q].status
    OBVIOUS
  <2>1. PICK y \in RequestRecords : y = request[q]
    BY RequestFacts
  <2>2. CASE UNCHANGED request
    BY <2>2
  <2>3. CASE MoveRequests
    <3>1. request'[q] = y \/ request'[q] = [y EXCEPT !.op = Retry]
      BY <2>1, <2>3 DEF MoveRequests
    <3> QED
      BY <2>1, <3>1 DEF RequestRecords
  <2>4. CASE ReopenRequest
    <3>1. request'[q] = y \/ request'[q] = [y EXCEPT !.status = "in_progress"]
      BY <2>1, <2>4 DEF ReopenRequest, Typed, RequestsTyped
    <3> QED
      BY <2>1, <3>1 DEF RequestRecords
  <2> QED
    BY <2>2, <2>3, <2>4 DEF ChooseRequests, PublishRetry, RetryAbandoned
<1>5. \A m \in Messages : AnyRun(run[m])'
  <2> SUFFICES ASSUME NEW m \in Messages PROVE AnyRun(run[m])'
    OBVIOUS
  <2>1. PICK x \in RunRecords : x = run[m] /\ AnyRun(x)
    BY RunFacts DEF AnyInv
  <2>2. AnyRun(x)'
    BY <1>2, <2>1, AnyStill
  <2>3. CASE UNCHANGED run
    BY <2>1, <2>2, <2>3 DEF AnyRun, Done
  <2>4. CASE PublishRetry
    <3>1. PICK t : Forgets("retry", t) /\ t.pc = "queued" /\ t.try = 0
      BY <2>4, PublishEffect
    <3>2. run'["retry"] = t /\ \A n \in Messages : n # "retry" => run'[n] = run[n]
      BY <3>1, Replaced DEF Forgets, Messages
    <3> QED
      BY <2>1, <2>2, <3>1, <3>2 DEF AnyRun, Done, Running, InStream, InGap
  <2> QED
    BY <2>3, <2>4 DEF ChooseRequests, MoveRequests, ReopenRequest, RetryAbandoned
<1>6. StaysTold
  <2>1. UNCHANGED untold
    BY DEF ChooseRequests, MoveRequests, ReopenRequest, PublishRetry, RetryAbandoned, history
  <2>2. CASE UNCHANGED run
    BY <1>2, <2>1, <2>2 DEF StaysTold, Told, Telling, At, Grows
  <2>3. CASE PublishRetry
    <3>1. PICK t : Forgets("retry", t) /\ t.pc = "queued" /\ t.try = 0
      BY <2>3, PublishEffect
    <3>2. "retry" \in Messages /\ run["retry"].pc # "tell" /\ run' = [run EXCEPT !["retry"] = t]
      BY <2>3, <3>1 DEF PublishRetry, Typed, OperatorTyped, Forgets, Becomes, Messages
    <3> QED
      BY <1>2, <2>1, <3>2, ToldStep
  <2> QED
    BY <2>2, <2>3 DEF ChooseRequests, MoveRequests, ReopenRequest, RetryAbandoned
<1> QED
  BY <1>1, <1>2, <1>3, <1>4, <1>5, <1>6, AnyPlain DEF AnyInv

LEMMA AnyInit == Init => AnyInv
<1> SUFFICES ASSUME Init PROVE AnyInv
  OBVIOUS
<1>0. setting \in Settings /\ setting.office \in BOOLEAN
  BY DashcamAssumption DEF Init
<1>1. PICK office \in BOOLEAN :
        /\ run = [m \in Messages |->
                    IF m = "retry" THEN Unpublished
                    ELSE [Unpublished EXCEPT !.pc = "queued",
                                             !.carried = IF office THEN First ELSE NoOperation]]
        /\ operation = [o \in Operations |-> IF office /\ o = First THEN "requested" ELSE "none"]
        /\ request = [q \in Requests |->
                        IF office /\ q[1] = First /\ q[3] = 1
                        THEN [status |-> "in_progress", op |-> First] ELSE NoRequest]
  BY <1>0 DEF Init
<1>2. \A m \in Messages : run[m].pc \in {"none", "queued"}
  BY <1>1 DEF Unpublished
<1>3. \A s \in Streams : row[s] = None
  BY DEF Init
<1>4. log = {}
  BY DEF Init
<1>5. \A m \in Messages : AnyRun(run[m])
  BY <1>2 DEF AnyRun, Running, InStream, InGap
<1>6. SucceededIsDocumented /\ RowsHaveEvents
  BY <1>3, <1>4 DEF SucceededIsDocumented, RowsHaveEvents
<1>7. RequestsAnswerTruly
  BY <1>1 DEF RequestsAnswerTruly, NoRequest
<1>8. DownloadsBroughtFootage
  BY <1>1 DEF DownloadsBroughtFootage
<1> QED
  BY <1>5, <1>6, <1>7, <1>8 DEF AnyInv

LEMMA AnyStep == Typed /\ AnyInv /\ [Next]_vars => AnyInv'
<1> SUFFICES ASSUME Typed, AnyInv, [Next]_vars PROVE AnyInv'
  OBVIOUS
<1>1. CASE UNCHANGED vars
  BY <1>1 DEF vars, artifacts, AnyInv, AnyRun, Done, Documented, Announced, HashedEvents,
     SucceededIsDocumented, RowsHaveEvents, RequestsAnswerTruly, Telling, At,
     history, DownloadsBroughtFootage
<1>2. CASE \E m \in Messages : Work(m) \/ Fault(m)
  BY <1>2, PlainAny, WritingAny, EndingAny DEF Work, Fault
<1>3. CASE ChooseRequests \/ Requeue \/ RetryAbandoned
  BY <1>3, OperatorStepAny DEF Requeue
<1> QED
  BY <1>1, <1>2, <1>3 DEF Next

-----------------------------------------------------------------------------
(* LoneInv is kept. *)

\* Of a run that is the only one, or that is over after the step.
LEMMA LoneRunStep ==
   ASSUME Typed, LoneInv, NEW m \in Messages, NEW t, Becomes(m, t), UNCHANGED overlapped,
          run[m].pc \in Running \/ (t.pc \notin Running /\ UNCHANGED <<row, object>>),
          ~overlapped => LoneRun(t)',
          ~overlapped => \A s \in Streams : row'[s] # None => object'[s] = row'[s]
   PROVE  LoneInv'
<1> SUFFICES ASSUME ~overlapped
             PROVE  /\ \A k, n \in Messages : k \in Busy' /\ n \in Busy' => k = n
                    /\ \A n \in Messages : LoneRun(run[n])'
  BY DEF LoneInv
<1>1. run'[m] = t /\ \A k \in Messages : k # m => run'[k] = run[k]
  BY Replaced
<1>2. Busy' \subseteq Busy
  BY <1>1 DEF Busy
<1>3. \A k, n \in Messages : k \in Busy' /\ n \in Busy' => k = n
  BY <1>2 DEF LoneInv
<1>4. ASSUME NEW n \in Messages PROVE LoneRun(run[n])'
  <2>1. CASE n = m
    BY <1>1, <2>1 DEF LoneRun
  <2>2. CASE n # m
    <3>1. PICK x \in RunRecords : x = run[n] /\ LoneRun(x)
      BY RunFacts DEF LoneInv
    <3>2. run'[n] = x
      BY <1>1, <2>2, <3>1
    <3>3. CASE run[m].pc \in Running
      <4>1. x.pc \notin Running
        BY <2>2, <3>1, <3>3 DEF LoneInv, Busy
      <4> QED
        BY <3>2, <4>1 DEF LoneRun, WithClip, Running, InStream
    <3>4. CASE UNCHANGED <<row, object>>
      BY <3>1, <3>2, <3>4 DEF LoneRun
    <3> QED
      BY <3>3, <3>4
  <2> QED
    BY <2>1, <2>2
<1> QED
  BY <1>3, <1>4

\* A step that stores nothing, of a run that goes on with the clip it has, or with none.
LEMMA LonePlain ==
   ASSUME Typed, LoneInv, NEW m \in Messages, NEW t, Becomes(m, t),
          UNCHANGED <<overlapped, row, object>>,
          run[m].pc \in Running \/ t.pc \notin Running,
          \/ t.pc \notin WithClip
          \/ /\ t.stream = run[m].stream /\ t.clip = run[m].clip
             /\ run[m].pc \in {"record", "hash", "save"}
   PROVE  LoneInv'
<1>1. PICK x \in RunRecords : x = run[m] /\ (~overlapped => LoneRun(x))
  BY RunFacts DEF LoneInv
<1>2. ~overlapped => LoneRun(t)'
  BY <1>1 DEF LoneRun, WithClip
<1>3. ~overlapped => \A s \in Streams : row'[s] # None => object'[s] = row'[s]
  BY DEF LoneInv
<1> QED
  BY <1>2, <1>3, LoneRunStep

LEMMA LoneInit == Init => LoneInv
<1> SUFFICES ASSUME Init PROVE LoneInv
  OBVIOUS
<1>1. \A m \in Messages : run[m].pc \in {"none", "queued"}
  BY DEF Init, Unpublished
<1>2. \A s \in Streams : row[s] = None
  BY DEF Init
<1> QED
  BY <1>1, <1>2 DEF LoneInv, LoneRun, Busy, WithClip, Running, InStream, InGap

LEMMA LoneStep == Typed /\ LoneInv /\ [Next]_vars => LoneInv'
<1> USE DEF Running, InStream, InGap
<1> SUFFICES ASSUME Typed, LoneInv, [Next]_vars PROVE LoneInv'
  OBVIOUS
<1>1. CASE UNCHANGED vars
  BY <1>1 DEF vars, artifacts, history, LoneInv, LoneRun, Busy
<1>2. ASSUME NEW m \in Messages, Work(m) \/ Fault(m) PROVE LoneInv'
  <2>0. PICK x \in RunRecords : x = run[m] /\ RunFits(x) /\ (~overlapped => LoneRun(x))
    BY RunFacts DEF LoneInv
  <2>1. CASE Start(m)
    <3> SUFFICES ASSUME ~overlapped' PROVE LoneInv'
      BY DEF LoneInv
    <3>1. ~overlapped /\ \A n \in Messages \ {m} : run[n].pc \notin Running
      BY <2>1 DEF Start
    <3>2. PICK t : Moves(m, t) /\ t.pc = "open"
      BY <2>1, GotoEffect DEF Start, Pcs
    <3>3. run'[m] = t /\ \A k \in Messages : k # m => run'[k] = run[k]
      BY <3>2, Replaced DEF Moves
    <3>4. \A n \in Messages : n # m => n \notin Busy'
      BY <3>1, <3>3 DEF Busy
    <3>5. \A n \in Messages : run'[n].pc \notin WithClip
      BY <3>1, <3>2, <3>3 DEF WithClip
    <3>6. UNCHANGED <<row, object>>
      BY <2>1 DEF Start, artifacts
    <3> QED
      BY <3>1, <3>4, <3>5, <3>6 DEF LoneInv, LoneRun
  <2>2. CASE \/ SkipDuplicate(m) \/ SaveConflict(m) \/ DocumentConflict(m) \/ Finalize(m)
             \/ RunRaises(m) \/ DatabaseFails(m)
    <3>1. PICK pc \in {"over", "dead"} : End(m, pc)
      BY <2>2 DEF SkipDuplicate, SaveConflict, DocumentConflict, Finalize, RunRaises, DatabaseFails
    <3>2. PICK t : Forgets(m, t) /\ t.pc = pc /\ t.try = 0
      BY <3>1, EndEffect DEF Pcs
    <3>3. UNCHANGED <<overlapped, row, object>>
      BY <2>2 DEF SkipDuplicate, SaveConflict, DocumentConflict, Finalize, RunRaises, DatabaseFails,
         BreaksOff, artifacts, history
    <3> QED
      BY <3>2, <3>3, LonePlain DEF Forgets, WithClip
  <2>3. CASE WorkerLost(m)
    <3>1. PICK t : Forgets(m, t) /\ t.pc = "queued" /\ t.try = run[m].try + 1
      BY <2>3, LostEffect
    <3>2. UNCHANGED <<overlapped, row, object>>
      BY <2>3 DEF WorkerLost, BreaksOff, artifacts
    <3> QED
      BY <3>1, <3>2, LonePlain DEF Forgets, WithClip
  <2>4. CASE OpenOperation(m)
    <3>1. PICK t : Becomes(m, t) /\ t.pc = "poll"
      BY <2>4, OpenEffect
    <3>2. UNCHANGED <<overlapped, row, object>> /\ run[m].pc = "open"
      BY <2>4 DEF OpenOperation, At, artifacts, history
    <3> QED
      BY <3>1, <3>2, LonePlain DEF WithClip
  <2>5. CASE Poll(m)
    <3>1. PICK t : Becomes(m, t) /\ t.pc = "fetch"
      BY <2>5, PollEffect
    <3>2. UNCHANGED <<overlapped, row, object>> /\ run[m].pc = "poll"
      BY <2>5 DEF Poll, At, artifacts, history
    <3> QED
      BY <3>1, <3>2, LonePlain DEF WithClip
  <2>6. CASE FetchClip(m)
    <3>1. UNCHANGED <<overlapped, row, object>> /\ run[m].pc = "fetch"
      BY <2>6 DEF FetchClip, At, artifacts, history
    <3>2. PICK t :
             \/ Advances(m, t)
             \/ /\ row[run[m].stream] = None
                /\ Becomes(m, t) /\ t.pc = "put" /\ t.stream = run[m].stream
      BY <2>6, FetchEffect
    <3>3. CASE Advances(m, t)
      BY <3>1, <3>3, LonePlain DEF Advances, WithClip
    <3>4. CASE /\ row[run[m].stream] = None
               /\ Becomes(m, t) /\ t.pc = "put" /\ t.stream = run[m].stream
      <4>1. ~overlapped => LoneRun(t)'
        BY <3>1, <3>4 DEF LoneRun, WithClip
      <4>2. ~overlapped => \A s \in Streams : row'[s] # None => object'[s] = row'[s]
        BY <3>1 DEF LoneInv
      <4> QED
        BY <3>1, <3>4, <4>1, <4>2, LoneRunStep
    <3> QED
      BY <3>2, <3>3, <3>4
  <2>7. CASE StreamUnavailable(m) \/ TimeLimitInStream(m)
    <3>1. Goto(m, "fail") /\ run[m].pc \in Running /\ UNCHANGED <<overlapped, row, object>>
      BY <2>7 DEF StreamUnavailable, TimeLimitInStream, artifacts, history
    <3>2. PICK t : Moves(m, t) /\ t.pc = "fail"
      BY <3>1, GotoEffect DEF Pcs
    <3> QED
      BY <3>1, <3>2, LonePlain DEF Moves, WithClip
  <2>8. CASE Put(m)
    <3>1. run[m].pc = "put" /\ Goto(m, "record") /\ UNCHANGED <<overlapped, row>>
      BY <2>8 DEF Put, At, history
    <3>2. object' = [object EXCEPT ![x.stream] = x.clip]
      BY <2>0, <2>8 DEF Put, Stream
    <3>3. PICK t : Moves(m, t) /\ t.pc = "record"
      BY <3>1, GotoEffect DEF Pcs
    <3>4. x.stream \in Streams /\ object \in [Streams -> Clips \cup {None}]
      BY DEF RunRecords, Typed, ArtifactsTyped
    <3>5. ~overlapped => row[x.stream] = None
      BY <2>0, <3>1 DEF LoneRun, WithClip
    <3>6. t.stream = x.stream /\ t.clip = x.clip /\ Becomes(m, t)
      BY <2>0, <3>3 DEF Moves
    <3>7. ~overlapped => LoneRun(t)'
      BY <3>1, <3>2, <3>4, <3>5, <3>6 DEF LoneRun
    <3>8. ~overlapped => \A s \in Streams : row'[s] # None => object'[s] = row'[s]
      BY <3>1, <3>2, <3>4, <3>5 DEF LoneInv
    <3> QED
      BY <3>1, <3>6, <3>7, <3>8, LoneRunStep
  <2>9. CASE RecordArtifact(m) \/ EmitHash(m)
    <3>1. PICK pc \in {"hash", "save"} : Goto(m, pc)
      BY <2>9 DEF RecordArtifact, EmitHash
    <3>2. PICK t : Moves(m, t) /\ t.pc = pc
      BY <3>1, GotoEffect DEF Pcs
    <3>3. run[m].pc \in {"record", "hash"} /\ UNCHANGED <<overlapped, row, object>>
      BY <2>9 DEF RecordArtifact, EmitHash, At, artifacts, history
    <3> QED
      BY <3>2, <3>3, LonePlain DEF Moves
  <2>10. CASE SaveArtifact(m)
    <3>1. run[m].pc = "save" /\ Goto(m, "fulfil") /\ UNCHANGED <<overlapped, object>>
      BY <2>10 DEF SaveArtifact, At, history
    <3>2. row' = [row EXCEPT ![x.stream] = x.clip]
      BY <2>0, <2>10 DEF SaveArtifact, Stream
    <3>3. PICK t : Moves(m, t) /\ t.pc = "fulfil"
      BY <3>1, GotoEffect DEF Pcs
    <3>4. x.stream \in Streams /\ row \in [Streams -> Clips \cup {None}]
      BY DEF RunRecords, Typed, ArtifactsTyped
    <3>5. ~overlapped => object[x.stream] = x.clip
      BY <2>0, <3>1 DEF LoneRun, WithClip
    <3>6. ~overlapped => LoneRun(t)'
      BY <3>3 DEF LoneRun, WithClip
    <3>7. ~overlapped => \A s \in Streams : row'[s] # None => object'[s] = row'[s]
      BY <3>1, <3>2, <3>4, <3>5 DEF LoneInv
    <3> QED
      BY <3>1, <3>3, <3>6, <3>7, LoneRunStep DEF Moves
  <2>11. CASE Fulfil(m) \/ DocumentGap(m) \/ FailRequest(m) \/ TellGap(m)
    <3>1. UNCHANGED <<overlapped, row, object>> /\ run[m].pc \in Running
      BY <2>11 DEF Fulfil, DocumentGap, FailRequest, TellGap, At, artifacts, history
    <3>2. \E t : Becomes(m, t) /\ t.pc \in {"succeed", "poll", "tell", "document"}
      <4>1. CASE Fulfil(m)
        BY <4>1, FulfilEffect DEF Advances
      <4>2. CASE run' = [run EXCEPT ![m] = NextStream(m)]
        BY <3>1, <4>2, AdvanceEffect DEF Advances
      <4>3. CASE run' = [run EXCEPT ![m] = [@ EXCEPT !.pc = "document"]]
        <5>1. Goto(m, "document")
          BY <4>3 DEF Goto, Typed, RunsTyped
        <5> QED
          BY <5>1, GotoEffect DEF Moves, Pcs
      <4>4. CASE Goto(m, "tell")
        BY <4>4, GotoEffect DEF Moves, Pcs
      <4> QED
        BY <2>11, <4>1, <4>2, <4>3, <4>4 DEF DocumentGap, FailRequest, TellGap
    <3> QED
      BY <3>1, <3>2, LonePlain DEF WithClip
  <2>12. CASE Succeed(m)
    <3>1. PICK t : Moves(m, t) /\ t.pc = "finalize"
      BY <2>12, GotoEffect DEF Succeed, Pcs
    <3>2. UNCHANGED <<overlapped, row, object>> /\ run[m].pc = "succeed"
      BY <2>12 DEF Succeed, At, artifacts, history
    <3> QED
      BY <3>1, <3>2, LonePlain DEF Moves, WithClip
  <2> QED
    BY <1>2, <2>1, <2>2, <2>3, <2>4, <2>5, <2>6, <2>7, <2>8, <2>9, <2>10, <2>11, <2>12 DEF Work, Fault
<1>3. CASE ChooseRequests \/ Requeue \/ RetryAbandoned
  <2>1. UNCHANGED <<overlapped, row, object>>
    BY <1>3 DEF ChooseRequests, Requeue, MoveRequests, ReopenRequest, PublishRetry, RetryAbandoned,
       artifacts, history
  <2>2. CASE PublishRetry
    <3>1. PICK t : Forgets("retry", t) /\ t.pc = "queued" /\ t.try = 0
      BY <2>2, PublishEffect
    <3>2. "retry" \in Messages
      BY DEF Messages
    <3> QED
      BY <2>1, <3>1, <3>2, LonePlain DEF Forgets, WithClip
  <2>3. CASE UNCHANGED run
    BY <2>1, <2>3 DEF LoneInv, LoneRun, Busy
  <2> QED
    BY <1>3, <2>2, <2>3 DEF ChooseRequests, Requeue, MoveRequests, ReopenRequest, RetryAbandoned
<1> QED
  BY <1>1, <1>2, <1>3 DEF Next

-----------------------------------------------------------------------------
(* QuietInv is kept. *)

\* Of the run that is under way, and stays so.
LEMMA QuietRunStep ==
   ASSUME Typed, LoneInv, QuietInv, Quiet, NEW m \in Messages, NEW t, Becomes(m, t),
          run[m].pc \in Running, t.pc \in Running, QuietRun(t)',
          \A o \in Operations : operation'[o] \in Final => operation[o] \in Final,
          \A s \in Streams : row'[s] # None =>
             ~gap'[s] /\ HashedEvents(s)' = {Event("hashed", s, row'[s])}
   PROVE  QuietInv'
<1>1. run'[m] = t /\ \A k \in Messages : k # m => run'[k] = run[k]
  BY Replaced
<1>2. m \in Busy /\ m \in Busy' /\ \A n \in Messages : n # m => n \notin Busy
  BY <1>1 DEF Busy, LoneInv, Quiet
<1>3. \A o \in Operations : operation[o] \notin Final
  BY <1>2 DEF QuietInv
<1>4. ASSUME NEW n \in Messages PROVE QuietRun(run[n])'
  <2>1. CASE n = m
    BY <1>1, <2>1 DEF QuietRun, Done
  <2>2. CASE n # m
    <3>1. run'[n].pc \notin Running
      BY <1>1, <1>2, <2>2 DEF Busy
    <3> QED
      BY <3>1 DEF QuietRun
  <2> QED
    BY <2>1, <2>2
<1>5. \A o \in Operations : operation'[o] \notin Final /\ operation'[o] # "unavailable"
  BY <1>3 DEF Final
<1> QED
  BY <1>2, <1>4, <1>5 DEF QuietInv

\* What the run under way finds of the world.
LEMMA QuietFacts ==
   ASSUME Typed, LoneInv, QuietInv, Quiet, NEW m \in Messages, run[m].pc \in Running
   PROVE  /\ QuietRun(run[m])
          /\ run[m].pc \in {"fetch", "put", "record", "hash", "fail", "tell", "document"} =>
                Untouched(run[m].stream)
          /\ run[m].pc # "finalize" => Succeeded \notin log
<1>1. PICK x \in RunRecords : x = run[m] /\ QuietRun(x)
  BY RunFacts DEF QuietInv
<1>2. x.stream \in {1, 2}
  BY DEF RunRecords, Streams
<1>3. x.pc \in {"fetch", "put", "record", "hash", "fail", "tell", "document"} => ~Done(x, x.stream)
  BY <1>2 DEF Done
<1> QED
  BY <1>1, <1>2, <1>3 DEF QuietRun, Streams

LEMMA HashedPlain ==
   ASSUME NEW e, log' = log \cup {e}, e.kind # "hashed"
   PROVE  \A s : HashedEvents(s)' = HashedEvents(s)
BY DEF HashedEvents

\* It goes on in its stream and stores nothing.
LEMMA QuietStay ==
   ASSUME Typed, LoneInv, QuietInv, Quiet, NEW m \in Messages, NEW t, Becomes(m, t),
          run[m].pc \in Running \ {"save", "fulfil", "succeed", "finalize"},
          t.pc \in Running \ {"save", "fulfil", "succeed", "finalize"},
          t.stream = run[m].stream, t.captured = run[m].captured,
          UNCHANGED <<row, gap>>, Succeeded \notin log',
          \A s \in Streams : HashedEvents(s)' = HashedEvents(s),
          \A o \in Operations : operation'[o] \in Final => operation[o] \in Final
   PROVE  QuietInv'
<1>1. PICK x \in RunRecords : x = run[m] /\ QuietRun(x)
  BY RunFacts DEF QuietInv
<1>2. \A s \in Streams : Untouched(s) => Untouched(s)'
  BY DEF Untouched, Announced
<1>3. \A s \in Streams : Done(t, s)' <=> Done(x, s)
  BY <1>1 DEF Done
<1>4. QuietRun(t)'
  BY <1>1, <1>2, <1>3 DEF QuietRun
<1>5. \A s \in Streams : row'[s] # None =>
             ~gap'[s] /\ HashedEvents(s)' = {Event("hashed", s, row'[s])}
  BY DEF QuietInv
<1> QED
  BY <1>4, <1>5, QuietRunStep

LEMMA QuietInit == Init => QuietInv
<1> SUFFICES ASSUME Init PROVE QuietInv
  OBVIOUS
<1>1. \A m \in Messages : run[m].pc \notin Running
  BY DEF Init, Unpublished, Running, InStream, InGap
<1>2. /\ \A s \in Streams : row[s] = None /\ gap[s] = FALSE
      /\ log = {}
  BY DEF Init
<1>3. \A o \in Operations : operation[o] \in {"none", "requested"}
  BY DEF Init
<1>4. \A s \in Streams : Untouched(s)
  BY <1>2 DEF Untouched, Announced, HashedEvents
<1> QED
  BY <1>1, <1>2, <1>3, <1>4 DEF QuietInv, QuietRun, Final

\* The steps of a run while nothing fails.
LEMMA QuietGoing ==
   ASSUME Typed, LoneInv, QuietInv, Quiet, NEW m \in Messages,
          \/ OpenOperation(m) \/ Poll(m) \/ FetchClip(m) \/ StreamUnavailable(m) \/ Put(m)
          \/ RecordArtifact(m) \/ FailRequest(m) \/ TellGap(m)
   PROVE  QuietInv'
<1> USE DEF Running, InStream, InGap
<1>1. /\ run[m].pc \in {"open", "poll", "fetch", "put", "record", "fail", "tell"}
      /\ UNCHANGED <<row, gap>>
  BY DEF OpenOperation, Poll, FetchClip, StreamUnavailable, Put, RecordArtifact, FailRequest, TellGap, At,
     artifacts
<1>2. QuietRun(run[m]) /\ Succeeded \notin log
  BY <1>1, QuietFacts
<1>3. Succeeded \notin log' /\ \A s \in Streams : HashedEvents(s)' = HashedEvents(s)
  <2>1. CASE UNCHANGED log
    BY <1>2, <2>1 DEF HashedEvents
  <2>2. CASE \/ log' = log \cup {Event("recorded", Stream(m), None)}
             \/ log' = log \cup {Event("unavailable", Stream(m), None)}
    <3>1. Event("recorded", Stream(m), None).kind = "recorded"
          /\ Event("unavailable", Stream(m), None).kind = "unavailable"
          /\ Succeeded.kind = "succeeded"
      BY DEF Event, Succeeded
    <3> QED
      BY <1>2, <2>2, <3>1, HashedPlain
  <2> QED
    BY <2>1, <2>2 DEF OpenOperation, Poll, FetchClip, StreamUnavailable, Put, RecordArtifact, FailRequest,
       TellGap
<1>4. \A o \in Operations : operation'[o] \in Final => operation[o] \in Final
  <2>1. CASE UNCHANGED operation
    BY <2>1
  <2>2. CASE \E o \in Operations : \E st \in {"processing", "available"} :
                operation' = [operation EXCEPT ![o] = st]
    BY <2>2 DEF Typed, OperationsTyped, Final
  <2>3. CASE OpenOperation(m)
    BY <2>2, <2>3, OpenEffect
  <2>4. CASE Poll(m) \/ FetchClip(m)
    <3>1. run[m].op \in Operations
      BY <2>4, RunFacts DEF Poll, FetchClip, At, RunFits
    <3> QED
      BY <2>2, <2>4, <3>1 DEF Poll, FetchClip, Operation
  <2> QED
    BY <2>1, <2>3, <2>4 DEF StreamUnavailable, Put, RecordArtifact, FailRequest, TellGap
<1>5. \E t : /\ Becomes(m, t) /\ t.pc \in Running \ {"save", "fulfil", "succeed", "finalize"}
             /\ t.stream = run[m].stream /\ t.captured = run[m].captured
  <2>1. CASE OpenOperation(m)
    BY <2>1, OpenEffect
  <2>2. CASE Poll(m)
    BY <2>2, PollEffect
  <2>3. CASE FetchClip(m)
    <3>1. row[run[m].stream] = None
      BY <1>1, <2>3, QuietFacts DEF FetchClip, At, Untouched
    <3> QED
      BY <2>3, <3>1, FetchEffect
  <2>4. CASE \/ StreamUnavailable(m) \/ Put(m) \/ RecordArtifact(m) \/ FailRequest(m)
             \/ TellGap(m)
    <3>1. PICK pc \in {"fail", "record", "hash", "tell", "document"} : Goto(m, pc)
      <4>1. CASE RecordArtifact(m)
        <5>1. HashedEvents(Stream(m)) = {}
          BY <1>1, <4>1, QuietFacts DEF RecordArtifact, At, Untouched, Announced, Stream
        <5> QED
          BY <4>1, <5>1 DEF RecordArtifact
      <4>2. CASE TellGap(m)
        <5>1. ~gap[Stream(m)]
          BY <1>1, <4>2, QuietFacts DEF TellGap, At, Untouched, Stream
        <5> QED
          BY <4>2, <5>1 DEF TellGap, Goto, Typed, RunsTyped
      <4> QED
        BY <2>4, <4>1, <4>2 DEF StreamUnavailable, Put, FailRequest
    <3>2. PICK t : Moves(m, t) /\ t.pc = pc
      BY <3>1, GotoEffect DEF Pcs
    <3> QED
      BY <3>2 DEF Moves
  <2> QED
    BY <2>1, <2>2, <2>3, <2>4
<1> QED
  BY <1>1, <1>3, <1>4, <1>5, QuietStay

LEMMA QuietStoring ==
   ASSUME Typed, LoneInv, QuietInv, Quiet, NEW m \in Messages,
          EmitHash(m) \/ SaveArtifact(m) \/ Fulfil(m) \/ DocumentGap(m) \/ Succeed(m)
   PROVE  QuietInv'
<1> USE DEF Running, InStream, InGap
<1>0. PICK x \in RunRecords : x = run[m] /\ RunFits(x) /\ QuietRun(x) /\ LoneRun(x)
  BY RunFacts DEF QuietInv, LoneInv, Quiet
<1>1. x.stream \in Streams /\ x.stream \in {1, 2}
  BY DEF RunRecords, Streams
<1>2. row \in [Streams -> Clips \cup {None}] /\ gap \in [Streams -> BOOLEAN]
  BY DEF Typed, ArtifactsTyped
<1>3. \A s \in Streams : row[s] # None =>
         ~gap[s] /\ HashedEvents(s) = {Event("hashed", s, row[s])}
  BY DEF QuietInv
<1>4. UNCHANGED operation
  BY DEF EmitHash, SaveArtifact, Fulfil, DocumentGap, Succeed
<1>5. CASE EmitHash(m)
  <2>1. PICK t : Moves(m, t) /\ t.pc = "save"
    BY <1>5, GotoEffect DEF EmitHash, Pcs
  <2>2. t.stream = x.stream /\ t.clip = x.clip /\ t.captured = x.captured /\ x.pc = "hash"
    BY <1>0, <1>5, <2>1 DEF EmitHash, At, Moves
  <2>3. UNCHANGED <<row, gap>> /\ log' = log \cup {Event("hashed", x.stream, x.clip)}
    BY <1>0, <1>5 DEF EmitHash, Stream, artifacts
  <2>4. Untouched(x.stream) /\ Succeeded \notin log
    BY <1>0, <2>2, QuietFacts
  <2>5. HashedEvents(x.stream)' = {Event("hashed", x.stream, x.clip)}
    BY <2>3, <2>4 DEF Untouched, Announced, HashedEvents, Event
  <2>6. \A s \in Streams : s # x.stream => HashedEvents(s)' = HashedEvents(s)
    BY <2>3 DEF HashedEvents, Event
  <2>7. Succeeded \notin log'
    BY <2>3, <2>4 DEF Succeeded, Event
  <2>8. \A s \in Streams : s # x.stream /\ Untouched(s) => Untouched(s)'
    BY <2>3, <2>6 DEF Untouched, Announced
  <2>9. QuietRun(t)'
    <3>1. \A s \in Streams : ~Done(t, s) => ~Done(x, s)
      BY <2>1, <2>2 DEF Done
    <3>2. \A s \in Streams : ~Done(t, s) => Untouched(s)' \/ s = t.stream
      BY <1>0, <2>2, <2>8, <3>1 DEF QuietRun
    <3>3. ~gap'[t.stream] /\ HashedEvents(t.stream)' = {Event("hashed", t.stream, t.clip)}
      BY <2>2, <2>3, <2>4, <2>5 DEF Untouched
    <3>4. \A s \in Streams : row'[s] # None => t.captured > 0
      BY <1>0, <2>2, <2>3 DEF QuietRun
    <3> QED
      BY <2>1, <2>7, <3>2, <3>3, <3>4 DEF QuietRun, Done
  <2>10. \A s \in Streams : row'[s] # None =>
             ~gap'[s] /\ HashedEvents(s)' = {Event("hashed", s, row'[s])}
    BY <1>3, <2>3, <2>4, <2>6 DEF Untouched
  <2> QED
    BY <1>0, <1>4, <2>1, <2>2, <2>9, <2>10, QuietRunStep DEF Moves
<1>6. CASE SaveArtifact(m)
  <2>1. PICK t : Moves(m, t) /\ t.pc = "fulfil"
    BY <1>6, GotoEffect DEF SaveArtifact, Pcs
  <2>2. t.stream = x.stream /\ t.captured = x.captured /\ x.pc = "save"
    BY <1>0, <1>6, <2>1 DEF SaveArtifact, At, Moves
  <2>3. UNCHANGED <<gap, log>> /\ row' = [row EXCEPT ![x.stream] = x.clip]
    BY <1>0, <1>6 DEF SaveArtifact, Stream
  <2>4. ~gap[x.stream] /\ HashedEvents(x.stream) = {Event("hashed", x.stream, x.clip)}
    BY <1>0, <2>2 DEF QuietRun
  <2>5. \A s \in Streams : HashedEvents(s)' = HashedEvents(s)
    BY <2>3 DEF HashedEvents
  <2>6. row'[x.stream] = x.clip /\ \A s \in Streams : s # x.stream => row'[s] = row[s]
    BY <1>1, <1>2, <2>3
  <2>7. \A s \in Streams : s # x.stream /\ Untouched(s) => Untouched(s)'
    BY <2>3, <2>5, <2>6 DEF Untouched, Announced
  <2>8. QuietRun(t)'
    <3>1. \A s \in Streams : ~Done(t, s) => ~Done(x, s)
      BY <2>1, <2>2 DEF Done
    <3>2. \A s \in Streams : ~Done(t, s) => Untouched(s)' \/ s = t.stream
      BY <1>0, <2>2, <2>7, <3>1 DEF QuietRun
    <3>3. \A s \in Streams : row'[s] # None => t.captured > 0 \/ s = t.stream
      BY <1>0, <2>2, <2>6 DEF QuietRun
    <3>4. Succeeded \notin log'
      BY <1>0, <2>2, <2>3, QuietFacts
    <3> QED
      BY <2>1, <3>2, <3>3, <3>4 DEF QuietRun, Done
  <2>9. \A s \in Streams : row'[s] # None =>
             ~gap'[s] /\ HashedEvents(s)' = {Event("hashed", s, row'[s])}
    BY <1>3, <2>3, <2>4, <2>5, <2>6
  <2> QED
    BY <1>0, <1>4, <2>1, <2>2, <2>8, <2>9, QuietRunStep DEF Moves
<1>7. CASE Fulfil(m)
  <2>1. PICK t : Advances(m, t) /\ t.captured = run[m].captured + 1
    BY <1>7, FulfilEffect
  <2>2. /\ t.stream = 2 /\ t.pc = IF x.stream = 2 THEN "succeed" ELSE "poll"
        /\ t.captured = x.captured + 1 /\ x.pc = "fulfil" /\ x.captured \in Nat
    BY <1>0, <1>7, <2>1 DEF Advances, Fulfil, At, RunRecords
  <2>3. UNCHANGED <<row, gap, log>>
    BY <1>7 DEF Fulfil, artifacts
  <2>4. \A s \in Streams : HashedEvents(s)' = HashedEvents(s)
    BY <2>3 DEF HashedEvents
  <2>5. \A s \in Streams : Untouched(s) => Untouched(s)'
    BY <2>3, <2>4 DEF Untouched, Announced
  <2>6. QuietRun(t)'
    <3>1. \A s \in Streams : ~Done(t, s) => ~Done(x, s) /\ s # x.stream
      BY <1>1, <2>2 DEF Done, Streams
    <3>2. \A s \in Streams : ~Done(t, s) => Untouched(s)'
      BY <1>0, <2>2, <2>5, <3>1 DEF QuietRun
    <3>3. t.captured > 0
      BY <2>2
    <3>4. Succeeded \notin log'
      BY <1>0, <2>2, <2>3, QuietFacts
    <3> QED
      BY <2>2, <3>2, <3>3, <3>4 DEF QuietRun, Done
  <2>7. \A s \in Streams : row'[s] # None =>
             ~gap'[s] /\ HashedEvents(s)' = {Event("hashed", s, row'[s])}
    BY <1>3, <2>3, <2>4
  <2> QED
    BY <1>0, <1>4, <2>1, <2>2, <2>6, <2>7, QuietRunStep DEF Advances
<1>8. CASE DocumentGap(m)
  <2>1. PICK t : Advances(m, t) /\ t.captured = run[m].captured
    BY <1>8, AdvanceEffect DEF DocumentGap, At
  <2>2. /\ t.stream = 2 /\ t.pc = IF x.stream = 2 THEN "succeed" ELSE "poll"
        /\ t.captured = x.captured /\ x.pc = "document"
    BY <1>0, <1>8, <2>1 DEF Advances, DocumentGap, At
  <2>3. UNCHANGED <<row, log>> /\ gap' = [gap EXCEPT ![x.stream] = TRUE]
    BY <1>0, <1>8 DEF DocumentGap, Stream
  <2>4. \A s \in Streams : HashedEvents(s)' = HashedEvents(s)
    BY <2>3 DEF HashedEvents
  <2>5. \A s \in Streams : s # x.stream => gap'[s] = gap[s]
    BY <1>2, <2>3
  <2>6. Untouched(x.stream) /\ Succeeded \notin log
    BY <1>0, <2>2, QuietFacts
  <2>7. \A s \in Streams : s # x.stream /\ Untouched(s) => Untouched(s)'
    BY <2>3, <2>4, <2>5 DEF Untouched, Announced
  <2>8. QuietRun(t)'
    <3>1. \A s \in Streams : ~Done(t, s) => ~Done(x, s) /\ s # x.stream
      BY <1>1, <2>2 DEF Done, Streams
    <3>2. \A s \in Streams : ~Done(t, s) => Untouched(s)'
      BY <1>0, <2>2, <2>7, <3>1 DEF QuietRun
    <3>3. \A s \in Streams : row'[s] # None => t.captured > 0
      BY <1>0, <2>2, <2>3 DEF QuietRun
    <3> QED
      BY <2>2, <2>3, <2>6, <3>2, <3>3 DEF QuietRun, Done
  <2>9. \A s \in Streams : row'[s] # None =>
             ~gap'[s] /\ HashedEvents(s)' = {Event("hashed", s, row'[s])}
    BY <1>3, <2>3, <2>4, <2>5, <2>6 DEF Untouched
  <2> QED
    BY <1>0, <1>4, <2>1, <2>2, <2>8, <2>9, QuietRunStep DEF Advances
<1>9. CASE Succeed(m)
  <2>1. PICK t : Moves(m, t) /\ t.pc = "finalize"
    BY <1>9, GotoEffect DEF Succeed, Pcs
  <2>2. t.captured = x.captured /\ x.pc = "succeed" /\ UNCHANGED <<row, gap>> /\ log' = log \cup {Succeeded}
    BY <1>0, <1>9, <2>1 DEF Succeed, At, Moves, artifacts
  <2>3. Succeeded.kind # "hashed"
    BY DEF Succeeded, Event
  <2>4. \A s \in Streams : HashedEvents(s)' = HashedEvents(s)
    BY <2>2, <2>3, HashedPlain
  <2>5. QuietRun(t)'
    BY <1>0, <2>1, <2>2 DEF QuietRun, Done
  <2>6. \A s \in Streams : row'[s] # None =>
             ~gap'[s] /\ HashedEvents(s)' = {Event("hashed", s, row'[s])}
    BY <1>3, <2>2, <2>4
  <2> QED
    BY <1>0, <1>4, <2>1, <2>2, <2>5, <2>6, QuietRunStep DEF Moves
<1> QED
  BY <1>5, <1>6, <1>7, <1>8, <1>9

\* A run begins, is skipped or comes to its end.
LEMMA QuietEnds ==
   ASSUME Typed, AnyInv, LoneInv, QuietInv, Quiet, NEW m \in Messages, Quiet',
          SkipDuplicate(m) \/ Start(m) \/ Finalize(m) \/ SaveConflict(m) \/ DocumentConflict(m)
   PROVE  QuietInv'
<1> USE DEF Running, InStream, InGap
<1>0. PICK x \in RunRecords : x = run[m] /\ RunFits(x) /\ QuietRun(x) /\ LoneRun(x) /\ AnyRun(x)
  BY RunFacts DEF AnyInv, QuietInv, LoneInv, Quiet
<1>1. CASE SaveConflict(m)
  BY <1>0, <1>1 DEF SaveConflict, At, LoneRun, WithClip, Stream
<1>2. CASE DocumentConflict(m)
  BY <1>2, QuietFacts DEF DocumentConflict, At, Untouched, Stream
<1>3. CASE SkipDuplicate(m) \/ Start(m) \/ Finalize(m)
  <2>1. UNCHANGED <<row, gap, log>>
    BY <1>3 DEF SkipDuplicate, Start, Finalize, artifacts
  <2>2. \A s \in Streams : (Untouched(s) => Untouched(s)') /\ HashedEvents(s)' = HashedEvents(s)
    BY <2>1 DEF Untouched, Announced, HashedEvents
  <2>3. \A s \in Streams : row'[s] # None =>
             ~gap'[s] /\ HashedEvents(s)' = {Event("hashed", s, row'[s])}
    BY <2>1, <2>2 DEF QuietInv
  <2>4. CASE SkipDuplicate(m)
    <3>1. PICK t : Forgets(m, t) /\ t.pc = "over"
      BY <2>4, EndEffect DEF SkipDuplicate, Pcs
    <3>2. run'[m] = t /\ \A k \in Messages : k # m => run'[k] = run[k]
      BY <3>1, Replaced DEF Forgets
    <3>3. run[m].pc = "queued" /\ Succeeded \in log' /\ UNCHANGED operation
      BY <2>4 DEF SkipDuplicate, At
    <3>4. Busy' = Busy
      BY <3>1, <3>2, <3>3 DEF Busy
    <3>5. ASSUME NEW n \in Messages PROVE QuietRun(run[n])'
      <4>1. CASE n = m
        BY <3>1, <3>2, <4>1 DEF QuietRun
      <4>2. CASE n # m
        <5>1. PICK y \in RunRecords : y = run[n] /\ QuietRun(y)
          BY RunFacts DEF QuietInv
        <5>2. y.stream \in Streams
          BY DEF RunRecords
        <5>3. QuietRun(y)'
          BY <2>1, <2>2, <5>1, <5>2 DEF QuietRun, Done
        <5> QED
          BY <3>2, <4>2, <5>1, <5>3 DEF QuietRun, Done
      <4> QED
        BY <4>1, <4>2
    <3> QED
      BY <2>1, <2>3, <3>3, <3>4, <3>5 DEF QuietInv
  <2>5. CASE Start(m)
    <3>1. PICK t : Moves(m, t) /\ t.pc = "open"
      BY <2>5, GotoEffect DEF Start, Pcs
    <3>2. run'[m] = t /\ \A k \in Messages : k # m => run'[k] = run[k]
      BY <3>1, Replaced DEF Moves
    <3>3. /\ x.pc = "queued" /\ Succeeded \notin log /\ UNCHANGED operation
          /\ \A n \in Messages \ {m} : run[n].pc \notin Running
      BY <1>0, <2>5 DEF Start, At, Quiet
    <3>4. Busy = {}
      BY <1>0, <3>3 DEF Busy
    <3>5. m \in Busy' /\ \A s \in Streams : Untouched(s)' /\ row'[s] = None
      BY <2>1, <2>2, <3>1, <3>2, <3>3, <3>4 DEF Busy, QuietInv, Untouched
    <3>6. QuietRun(t)'
      BY <2>1, <3>1, <3>3, <3>5 DEF QuietRun
    <3>7. ASSUME NEW n \in Messages PROVE QuietRun(run[n])'
      <4>1. CASE n = m
        BY <3>2, <3>6, <4>1 DEF QuietRun, Done
      <4>2. CASE n # m
        BY <3>2, <3>3, <4>2 DEF QuietRun
      <4> QED
        BY <4>1, <4>2
    <3>8. \A o \in Operations : operation'[o] \notin Final
      BY <3>3 DEF QuietInv
    <3> QED
      BY <2>3, <3>5, <3>7, <3>8 DEF QuietInv, Final
  <2>6. CASE Finalize(m)
    <3>1. PICK t : Forgets(m, t) /\ t.pc = "over"
      BY <2>6, EndEffect DEF Finalize, Pcs
    <3>2. run'[m] = t /\ \A k \in Messages : k # m => run'[k] = run[k]
      BY <3>1, Replaced DEF Forgets
    <3>3. x.pc = "finalize" /\ x.op \in Operations /\ Succeeded \in log'
      BY <1>0, <2>1, <2>6 DEF Finalize, At, RunFits, AnyRun
    <3>4. \A n \in Messages : run'[n].pc \notin Running
      BY <1>0, <3>1, <3>2, <3>3 DEF LoneInv, Quiet, Busy
    <3>5. operation' = [operation EXCEPT ![x.op] = Verdict(x.captured)]
      BY <1>0, <2>6 DEF Finalize, Operation
    <3>6. \A o \in Operations : operation[o] \notin Final
      BY <1>0, <3>3 DEF QuietInv, Busy
    <3>7. \A o \in Operations : operation'[o] = "unavailable" => \A s \in Streams : row'[s] = None
      <4> SUFFICES ASSUME NEW o \in Operations, operation'[o] = "unavailable"
                   PROVE  \A s \in Streams : row[s] = None
        BY <2>1
      <4>1. o = x.op /\ ~(x.captured > 0)
        BY <3>3, <3>5, <3>6 DEF Typed, OperationsTyped, Verdict, Final
      <4> QED
        BY <1>0, <3>3, <4>1 DEF QuietRun
    <3>8. Busy' = {} /\ \A n \in Messages : QuietRun(run[n])'
      BY <3>4 DEF Busy, QuietRun
    <3> QED
      BY <2>3, <3>3, <3>7, <3>8 DEF QuietInv
  <2> QED
    BY <1>3, <2>4, <2>5, <2>6
<1> QED
  BY <1>1, <1>2, <1>3

LEMMA QuietStep == Typed /\ AnyInv /\ LoneInv /\ QuietInv /\ [Next]_vars => QuietInv'
<1> SUFFICES ASSUME Typed, AnyInv, LoneInv, QuietInv, [Next]_vars, Quiet' PROVE QuietInv'
  BY DEF QuietInv
<1>0. lost \in Nat /\ errors \in Nat
  BY SettingFacts
<1>1. CASE UNCHANGED vars
  BY <1>1 DEF vars, artifacts, history, faults, QuietInv, QuietRun, Quiet, Crashed, Busy, Done,
     Untouched, Announced, HashedEvents
<1>2. ASSUME NEW m \in Messages, Work(m) PROVE QuietInv'
  <2>1. UNCHANGED <<lost, errors>> /\ (overlapped => overlapped')
    <3>1. CASE Start(m)
      BY <3>1 DEF Start, faults
    <3>2. CASE OpenOperation(m) \/ Poll(m) \/ FetchClip(m) \/ StreamUnavailable(m) \/ Put(m)
      BY <3>2 DEF OpenOperation, Poll, FetchClip, StreamUnavailable, Put, history, faults
    <3>3. CASE RecordArtifact(m) \/ EmitHash(m) \/ SaveArtifact(m) \/ SaveConflict(m) \/ Fulfil(m)
      BY <3>3 DEF RecordArtifact, EmitHash, SaveArtifact, SaveConflict, Fulfil, history, faults
    <3>4. CASE \/ FailRequest(m) \/ TellGap(m) \/ DocumentGap(m) \/ DocumentConflict(m) \/ Succeed(m)
               \/ Finalize(m) \/ SkipDuplicate(m)
      BY <3>4 DEF FailRequest, TellGap, DocumentGap, DocumentConflict, Succeed, Finalize, SkipDuplicate,
         history, faults
    <3> QED
      BY <1>2, <3>1, <3>2, <3>3, <3>4 DEF Work
  <2>2. Quiet
    BY <2>1 DEF Quiet, Crashed
  <2> QED
    BY <1>2, <2>2, QuietGoing, QuietStoring, QuietEnds DEF Work
<1>3. ASSUME NEW m \in Messages, Fault(m) PROVE FALSE
  BY <1>0, <1>3 DEF Fault, TimeLimitInStream, RunRaises, DatabaseFails, WorkerLost, Quiet, Crashed
<1>4. ASSUME RetryAbandoned PROVE FALSE
  BY <1>0, <1>4 DEF RetryAbandoned, Quiet, Crashed
<1>5. CASE ChooseRequests \/ Requeue
  <2>1. UNCHANGED <<row, gap, log, overlapped, lost, errors>>
    BY <1>5 DEF ChooseRequests, Requeue, MoveRequests, ReopenRequest, PublishRetry,
       artifacts, history, faults
  <2>2. Quiet
    BY <2>1 DEF Quiet, Crashed
  <2>3. \A o \in Operations :
           (operation'[o] \in Final => operation[o] \in Final)
           /\ (operation'[o] = "unavailable" => operation[o] = "unavailable")
    <3>1. CASE ChooseRequests
      <4>1. operation' = [operation EXCEPT ![Retry] = "requested"] /\ Retry \in Operations
        BY <3>1, Names DEF ChooseRequests
      <4> HIDE DEF Retry
      <4> QED
        BY <4>1 DEF Typed, OperationsTyped, Final
    <3>2. CASE UNCHANGED operation
      BY <3>2
    <3> QED
      BY <1>5, <3>1, <3>2 DEF Requeue, MoveRequests, ReopenRequest, PublishRetry
  <2>4. Busy' = Busy /\ \A m \in Messages : run'[m] = run[m] \/ run'[m].pc \notin Running
    <3>1. CASE UNCHANGED run
      BY <3>1 DEF Busy
    <3>2. CASE PublishRetry
      <4>1. PICK t : Forgets("retry", t) /\ t.pc = "queued" /\ t.try = 0
        BY <3>2, PublishEffect
      <4>2. run'["retry"] = t /\ \A n \in Messages : n # "retry" => run'[n] = run[n]
        BY <4>1, Replaced DEF Forgets, Messages
      <4>3. run["retry"].pc = "none"
        BY <3>2 DEF PublishRetry, Typed, OperatorTyped
      <4> QED
        BY <4>1, <4>2, <4>3 DEF Busy, Running, InStream, InGap
    <3> QED
      BY <1>5, <3>1, <3>2 DEF ChooseRequests, Requeue, MoveRequests, ReopenRequest
  <2>5. \A s \in Streams : HashedEvents(s)' = HashedEvents(s)
    BY <2>1 DEF HashedEvents
  <2>6. \A s \in Streams : Untouched(s) => Untouched(s)'
    BY <2>1, <2>5 DEF Untouched, Announced
  <2>7. ASSUME NEW m \in Messages PROVE QuietRun(run[m])'
    <3>1. CASE run'[m].pc \notin Running
      BY <3>1 DEF QuietRun
    <3>2. CASE run'[m] = run[m]
      <4>1. PICK x \in RunRecords : x = run[m] /\ QuietRun(x)
        BY <2>2, RunFacts DEF QuietInv
      <4>2. x.stream \in Streams
        BY DEF RunRecords
      <4>3. QuietRun(x)'
        BY <2>1, <2>5, <2>6, <4>1, <4>2 DEF QuietRun, Done
      <4> QED
        BY <3>2, <4>1, <4>3 DEF QuietRun, Done
    <3> QED
      BY <2>4, <3>1, <3>2
  <2>8. QuietInv
    OBVIOUS
  <2> QED
    BY <2>1, <2>2, <2>3, <2>4, <2>5, <2>6, <2>7, <2>8 DEF QuietInv
<1> QED
  BY <1>1, <1>2, <1>3, <1>4, <1>5 DEF Next
-----------------------------------------------------------------------------
(* The invariant, and what it says of the properties. *)

Inv == Typed /\ AnyInv /\ LoneInv /\ QuietInv

LEMMA Holds == Spec => []Inv
<1>1. Init => Inv
  BY TypedInit, AnyInit, LoneInit, QuietInit DEF Inv
<1>2. Inv /\ [Next]_vars => Inv'
  BY TypedStep, AnyStep, LoneStep, QuietStep DEF Inv
<1> QED
  BY <1>1, <1>2, PTL DEF Spec

LEMMA TypesMeant == Typed => TypeOK
<1> SUFFICES ASSUME Typed PROVE TypeOK
  OBVIOUS
<1>1. lost \in Nat /\ errors \in Nat /\ lost + errors <= MaxFaults
  BY SettingFacts, Names
<1> DEFINE Records == [pc : {"none", "queued", "over", "dead"} \cup Running, try : 0..MaxFaults,
          carried : Operations \cup {NoOperation}, op : Operations \cup {NoOperation},
          stream : Streams, req : Requests \cup {<<NoOperation, 1, 1>>},
          clip : Clips \cup {None}, captured : 0..2]
<1>2. ASSUME NEW m \in Messages PROVE run[m] \in Records
  <2>1. PICK x \in RunRecords : x = run[m] /\ x.try <= lost /\ x.captured <= 2
    BY RunFacts DEF RunFits
  <2>2. x.try \in 0..MaxFaults /\ x.captured \in 0..2
    BY <1>1, <2>1, Names DEF RunRecords
  <2>3. NoReq = <<NoOperation, 1, 1>>
    BY DEF NoReq
  <2> QED
    BY <2>1, <2>2, <2>3 DEF RunRecords
<1>3. run \in [Messages -> Records]
  BY <1>2 DEF Typed, RunsTyped
<1>4. ASSUME NEW m \in Messages, run[m].pc \in InStream
      PROVE  /\ run[m].req[2] = Stream(m) /\ request[run[m].req] # NoRequest
             /\ operation[Operation(m)] # "none"
  <2>1. RunFits(run[m])
    BY RunFacts
  <2>2. run[m].req \in Requests /\ run[m].req[2] = run[m].stream /\ request[run[m].req].status # "none"
    BY <1>4, <2>1 DEF RunFits
  <2>3. operation[run[m].op] # "none"
    BY <1>4, <2>1 DEF RunFits, Running, InStream
  <2> QED
    BY <2>2, <2>3, RequestFacts DEF Stream, Operation
<1> HIDE DEF Records
<1>5. /\ setting \in Settings
      /\ operation \in [Operations -> {"none", "requested", "processing", "available"} \cup Final]
      /\ request \in [Requests -> [status : {"none", "in_progress", "fulfilled", "failed"},
                                   op : Operations \cup {NoOperation}]]
      /\ row \in [Streams -> Clips \cup {None}] /\ object \in [Streams -> Clips \cup {None}]
      /\ gap \in [Streams -> BOOLEAN]
  BY DEF Typed, HistoryTyped, OperationsTyped, RequestsTyped, RequestRecords, ArtifactsTyped
<1>6. /\ log \subseteq [kind : {"recorded", "hashed", "unavailable", "succeeded", "failed"},
                        stream : 0..2, clip : Clips \cup {None}]
      /\ operator \in [pc : {"idle", "move", "reopen", "publish", "over"}, chosen : SUBSET Requests]
      /\ overlapped \in BOOLEAN /\ skipped \subseteq Messages /\ untold \subseteq Requests
  BY DEF Typed, HistoryTyped, OperatorTyped, EventRecords
<1>7. run \in [Messages ->
         [pc : {"none", "queued", "over", "dead"} \cup Running, try : 0..MaxFaults,
          carried : Operations \cup {NoOperation}, op : Operations \cup {NoOperation},
          stream : Streams, req : Requests \cup {<<NoOperation, 1, 1>>},
          clip : Clips \cup {None}, captured : 0..2]]
  BY <1>3 DEF Records
<1> QED
  BY <1>1, <1>4, <1>5, <1>6, <1>7 DEF TypeOK

LEMMA Means == Inv => CaptureIsDocumented /\ FootageIsTraceable /\ AnswersAreTrue
<1> SUFFICES ASSUME Inv PROVE CaptureIsDocumented /\ FootageIsTraceable /\ AnswersAreTrue
  OBVIOUS
<1>1. Typed /\ AnyInv /\ LoneInv /\ QuietInv
  BY DEF Inv
<1>2. Quiet \/ Crashed \/ overlapped
  BY DEF Quiet
<1>3. SucceededIsDocumented
  BY <1>1 DEF AnyInv
<1>4. OneVerdictPerStream
  BY <1>1, <1>2 DEF QuietInv, OneVerdictPerStream
<1>5. StoredMatchesRow
  BY <1>1 DEF LoneInv, StoredMatchesRow
<1>6. RowHasTrail
  BY <1>1, <1>2 DEF AnyInv, RowsHaveEvents, Announced, QuietInv, RowHasTrail
<1>7. RequestsAnswerTruly
  BY <1>1 DEF AnyInv
<1>8. OperationTellsTruth
  BY <1>1, <1>2 DEF AnyInv, DownloadsBroughtFootage, QuietInv, OperationTellsTruth
<1> QED
  BY <1>1, <1>3, <1>4, <1>5, <1>6, <1>7, <1>8, TypesMeant
  DEF CaptureIsDocumented, FootageIsTraceable, AnswersAreTrue

\* A capture that reports success has, for every stream, its footage or the row
\* that says why there is none, and not both unless a run was broken off or two
\* ran at once.
THEOREM CapturesAreDocumented == Spec => []CaptureIsDocumented
BY Holds, Means, PTL

\* The hash in an artifact's row is that of the stored object unless two runs
\* stored the stream at once, and its events are there, whatever was redelivered.
THEOREM FootageStaysTraceable == Spec => []FootageIsTraceable
BY Holds, Means, PTL

\* A fulfilled request has its footage; a failed one has the event of its gap,
\* or the run that failed it is about to write it or was broken off before it;
\* and the operations report what was found.
THEOREM AnswersStayTrue == Spec => []AnswersAreTrue
BY Holds, Means, PTL

=============================================================================
