---------------------- MODULE IncidentInitiationProofs ----------------------
(***************************************************************************)
(* Theorems about IncidentInitiation, for any drivers, vehicles, requests  *)
(* and faults.                                                             *)
(*                                                                         *)
(* RaceInv: what a request has read and found missing can only have been   *)
(* added since by a request that was in service together with it.          *)
(* PromiseInv: what a request still has to queue, or has queued.           *)
(***************************************************************************)
EXTENDS IncidentInitiation, SequenceTheorems, FiniteSetTheorems,
        WellFoundedInduction, TLAPS

Named == {"check", "write", "fan_out", "answered"}
Outside == {"unsent", "sent", "refused"}

\* What the phase of a request says of the rest of it.
RequestFits(x) ==
   /\ x.phase \in Named => x.inc \in 1..Len(incidents)
   /\ x.phase # "unsent" => x.driver \in Drivers /\ x.vehicle \in Vehicles
   /\ x.phase \in {"unsent", "sent"} => x.at = 0
   /\ x.phase \in Serving => x.at # 0
   /\ x.phase = "answered" => x.todo = {}

RowsTyped ==
   /\ incidents \in Seq(Incident)
   /\ events \subseteq Start /\ \A e \in events : e.inc \in 1..Len(incidents)
   /\ queued \subseteq Task /\ \A q \in queued : q.inc \in 1..Len(incidents)
   /\ terminal \subseteq (1..Len(incidents)) \X WeatherTasks

RequestsTyped ==
   /\ req \in [Requests -> Request]
   /\ alongside \in [Requests -> SUBSET Requests]
   /\ \A r \in Requests : RequestFits(req[r])

AppTyped ==
   /\ app \in [Drivers -> [screen : Screen, req : 0..MaxRequests]]
   /\ crashes \in Nat /\ outages \in Nat /\ crashes + outages =< MaxFaults

Typed == RowsTyped /\ RequestsTyped /\ AppTyped

(* The invariant behind StartsOnceUnlessRaced. *)

\* Before it arrives a request has met nobody.
OutsideMeetsNobody == \A r \in Requests : req[r].phase \in Outside => alongside[r] = {}

\* Two requests that are in service are in service together.
ServedTogether ==
   \A q, r \in Requests :
      (q # r /\ req[q].phase \in Serving /\ req[r].phase \in Serving) => Raced(q, r)

\* An incident that r has looked for and not found is there by a race.
MissedIncident(x, r) ==
   \A i \in 1..Len(incidents) :
      /\ x.phase \in {"by_vehicle", "create"} /\ incidents[i].driver = x.driver
            => Raced(incidents[i].by, r)
      /\ x.phase = "create" /\ incidents[i].vehicle = x.vehicle
            => Raced(incidents[i].by, r)
IncidentsMissedByRace == \A r \in Requests : MissedIncident(req[r], r)

\* And so is a start of the protocol.
MissedStart(x, r) ==
   x.phase = "write" =>
      \A e \in events : e.inc = x.inc /\ e.driver = x.driver => Raced(e.by, r)
StartsMissedByRace == \A r \in Requests : MissedStart(req[r], r)

RaceInv == /\ OutsideMeetsNobody /\ ServedTogether
           /\ IncidentsMissedByRace /\ StartsMissedByRace
           /\ OneIncidentUnlessRaced /\ OneStartUnlessRaced

(* The invariant behind AnswersAreTrue. *)

Delivering == {"fan_out", "answered"}
Queued(t, i) == \E q \in queued : q.task = t /\ q.inc = i

\* The request that started the protocol has still to queue the captures and
\* the notification, or has queued them.
CapturesDue(x, r) ==
   (x.phase \in Delivering /\ ~x.started) =>
      \A t \in CaptureTasks : t \in x.todo \/ [task |-> t, inc |-> x.inc, by |-> r] \in queued

\* And with both weather tasks, unless another request queued them or they are done.
WeatherDue(x) ==
   (x.phase \in Delivering /\ outages = 0) =>
      \A t \in WeatherTasks : t \in x.todo \/ Queued(t, x.inc)

PromiseInv ==
   /\ \A r \in Requests : CapturesDue(req[r], r) /\ WeatherDue(req[r])
   /\ \A p \in terminal : Queued(p[2], p[1])
-----------------------------------------------------------------------------
(* Choosing. *)

LEMMA RequestsAreNumbered == MaxRequests \in Nat /\ Requests = 1..MaxRequests
BY InitiationAssumption DEF Requests

LEMMA LeastNatural ==
   ASSUME NEW S \in SUBSET Nat, S # {}
   PROVE  \E n \in S : \A m \in S : n =< m
<1> DEFINE R == {ss \in Nat \X Nat : ss[1] < ss[2]}
<1>1. IsWellFoundedOn(R, Nat)
  BY NatLessThanWellFounded DEF OpToRel
<1> HIDE DEF R
<1>2. PICK n \in S : \A m \in S : <<m, n>> \notin R
  BY <1>1, WFMin
<1>3. \A m \in S : ~(m < n)
  BY <1>2 DEF R
<1> QED
  BY <1>2, <1>3

\* The latest of some incidents is one of them.
LEMMA LatestIsFound ==
   ASSUME Typed, NEW found \in SUBSET (1..Len(incidents)), found # {}
   PROVE  Latest(found) \in found
<1>1. \A i \in 1..Len(incidents) : incidents[i].at \in 1..MaxRequests
  <2>1. \A i \in 1..Len(incidents) : incidents[i] \in Incident
    BY ElementOfSeq DEF Typed, RowsTyped
  <2> QED
    BY <2>1 DEF Incident, Requests
<1> DEFINE S == {MaxRequests - incidents[i].at : i \in found}
<1>2. S \in SUBSET Nat /\ S # {}
  <2>1. \A i \in found : MaxRequests - incidents[i].at \in Nat
    BY <1>1, RequestsAreNumbered
  <2> QED
    BY <2>1
<1>3. PICK n \in S : \A m \in S : n =< m
  BY <1>2, LeastNatural
<1>4. PICK i \in found : n = MaxRequests - incidents[i].at
  BY <1>3
<1>5. \A j \in found : incidents[j].at =< incidents[i].at
  <2> SUFFICES ASSUME NEW j \in found PROVE incidents[j].at =< incidents[i].at
    OBVIOUS
  <2>1. MaxRequests - incidents[i].at =< MaxRequests - incidents[j].at
    BY <1>3, <1>4
  <2> QED
    BY <2>1, <1>1, RequestsAreNumbered
<1> QED
  BY <1>4, <1>5 DEF Latest

\* The next task is one of those that are due.
LEMMA FirstIsDue ==
   ASSUME NEW due \in SUBSET FanOut, due # {}
   PROVE  First(due) \in due
<1> DEFINE S == {n \in 1..5 : Order[n] \in due}
<1>0. DOMAIN Order = 1..5
  BY DEF Order
<1>1. S \in SUBSET Nat
  OBVIOUS
<1>2. S # {}
  <2>1. PICK t \in due : t \in {"weather", "weather_map", "dashcam", "telematics", "notify"}
    BY InitiationAssumption DEF FanOut, CaptureTasks
  <2>2. \E n \in 1..5 : Order[n] = t
    BY <2>1 DEF Order
  <2> QED
    BY <2>1, <2>2
<1>3. PICK n \in S : \A m \in S : n =< m
  BY <1>1, <1>2, LeastNatural
<1>4. n \in DOMAIN Order /\ Order[n] \in due
      /\ \A m \in DOMAIN Order : Order[m] \in due => n =< m
  BY <1>0, <1>3
<1> QED
  BY <1>4 DEF First

\* Fewer than MaxRequests requests have arrived while one has not.
LEMMA NextArrival ==
   ASSUME Typed, NEW r \in Requests, req[r].at = 0
   PROVE  Cardinality({q \in Requests : req[q].at > 0}) + 1 \in 1..MaxRequests
<1> DEFINE A == {q \in Requests : req[q].at > 0}
<1>1. IsFiniteSet(Requests) /\ Cardinality(Requests) = MaxRequests
  <2>1. 1 \in Int /\ MaxRequests \in Int /\ (1 > MaxRequests => MaxRequests = 0)
    BY RequestsAreNumbered
  <2>2. IsFiniteSet(1..MaxRequests) /\ Cardinality(1..MaxRequests) = MaxRequests
    BY <2>1, FS_Interval
  <2> QED
    BY <2>2, RequestsAreNumbered
<1>2. A \subseteq Requests \ {r}
  OBVIOUS
<1>3. /\ IsFiniteSet(Requests \ {r})
      /\ Cardinality(Requests \ {r}) = MaxRequests - 1
  BY <1>1, FS_RemoveElement
<1>4. IsFiniteSet(A) /\ Cardinality(A) =< Cardinality(Requests \ {r})
  BY <1>2, <1>3, FS_Subset
<1>5. Cardinality(A) \in Nat
  BY <1>4, FS_CardinalityType
<1> QED
  BY <1>3, <1>4, <1>5, RequestsAreNumbered

-----------------------------------------------------------------------------
(* What the steps do.  Each step of the API replaces one request's record. *)

Becomes(r, t) == t \in Request /\ req' = [req EXCEPT ![r] = t]

\* Who asks stays.
Serves(r, t) ==
   /\ Becomes(r, t)
   /\ t.driver = req[r].driver /\ t.vehicle = req[r].vehicle /\ t.at = req[r].at

\* And so does what it has found and done.
Goes(r, t) ==
   /\ Serves(r, t)
   /\ t.inc = req[r].inc /\ t.started = req[r].started

LEMMA RequestRecord ==
   ASSUME Typed, NEW r \in Requests
   PROVE  req[r] \in Request /\ RequestFits(req[r])
BY DEF Typed, RequestsTyped

LEMMA Replaced ==
   ASSUME Typed, NEW r \in Requests, NEW t, Becomes(r, t)
   PROVE  /\ req' \in [Requests -> Request]
          /\ req'[r] = t
          /\ \A q \in Requests : q # r => req'[q] = req[q]
BY DEF Typed, RequestsTyped, Becomes

LEMMA BeginEffect ==
   ASSUME Typed, NEW r \in Requests, NEW d \in Drivers, NEW v \in InReach[d], Begin(d, v, r)
   PROVE  \E t : /\ Becomes(r, t)
                 /\ t.phase = "sent" /\ t.driver = d /\ t.vehicle = v /\ t.at = 0
<1>1. v \in Vehicles
  BY InitiationAssumption
<1>2. Idle \in Request
  BY RequestsAreNumbered DEF Idle, Request, None
<1> DEFINE t == [Idle EXCEPT !.phase = "sent", !.driver = d, !.vehicle = v]
<1>3. req' = [req EXCEPT ![r] = t]
  BY DEF Begin
<1>4. t \in Request /\ t.phase = "sent" /\ t.driver = d /\ t.vehicle = v /\ t.at = Idle.at
  BY <1>1, <1>2 DEF Request
<1>5. Idle.at = 0
  BY DEF Idle
<1> HIDE DEF t
<1> QED
  BY <1>3, <1>4, <1>5 DEF Becomes

LEMMA ArriveEffect ==
   ASSUME Typed, NEW r \in Requests, Arrive(r)
   PROVE  \E t : /\ Becomes(r, t)
                 /\ t.phase = "by_driver"
                 /\ t.driver = req[r].driver /\ t.vehicle = req[r].vehicle
                 /\ t.at \in Requests
<1>1. PICK x \in Request : x = req[r]
  BY RequestRecord
<1>2. PICK n \in 1..MaxRequests : n = Cardinality({q \in Requests : req[q].at > 0}) + 1
  BY NextArrival, RequestRecord DEF Arrive, RequestFits
<1> DEFINE t == [x EXCEPT !.phase = "by_driver", !.at = n]
<1>3. req' = [req EXCEPT ![r] = t]
  BY <1>1, <1>2 DEF Arrive, Typed, RequestsTyped
<1>4. t \in Request /\ t.phase = "by_driver" /\ t.driver = x.driver /\ t.vehicle = x.vehicle
      /\ t.at = n
  <2>1. n \in 0..MaxRequests
    BY <1>2, RequestsAreNumbered
  <2> QED
    BY <1>1, <2>1 DEF Request, Serving
<1> HIDE DEF t
<1> QED
  BY <1>1, <1>2, <1>3, <1>4, RequestsAreNumbered DEF Becomes

\* A record whose phase alone, or phase and incident, change.
LEMMA PhaseEffect ==
   ASSUME Typed, NEW r \in Requests, NEW ph \in Serving \cup Over, Goto(r, ph)
   PROVE  \E t : Goes(r, t) /\ t.phase = ph /\ t.todo = req[r].todo
<1>1. PICK x \in Request : x = req[r]
  BY RequestRecord
<1> DEFINE t == [x EXCEPT !.phase = ph]
<1>2. req' = [req EXCEPT ![r] = t]
  BY <1>1 DEF Goto, Typed, RequestsTyped
<1>3. /\ t \in Request /\ t.phase = ph
      /\ t.driver = x.driver /\ t.vehicle = x.vehicle /\ t.at = x.at
      /\ t.inc = x.inc /\ t.started = x.started /\ t.todo = x.todo
  BY <1>1 DEF Request
<1> HIDE DEF t
<1> QED
  BY <1>1, <1>2, <1>3 DEF Goes, Serves, Becomes

LEMMA FoundEffect ==
   ASSUME Typed, NEW r \in Requests, NEW i \in Nat,
          req' = [req EXCEPT ![r] = [req[r] EXCEPT !.phase = "check", !.inc = i]]
   PROVE  \E t : Serves(r, t) /\ t.phase = "check" /\ t.inc = i
<1>1. PICK x \in Request : x = req[r]
  BY RequestRecord
<1> DEFINE t == [x EXCEPT !.phase = "check", !.inc = i]
<1>2. req' = [req EXCEPT ![r] = t]
  BY <1>1
<1>3. /\ t \in Request /\ t.phase = "check" /\ t.inc = i
      /\ t.driver = x.driver /\ t.vehicle = x.vehicle /\ t.at = x.at
  BY <1>1 DEF Request, Serving
<1> HIDE DEF t
<1> QED
  BY <1>1, <1>2, <1>3 DEF Serves, Becomes

LEMMA LookEffect ==
   ASSUME Typed, NEW r \in Requests, NEW found \in SUBSET (1..Len(incidents)),
          NEW next \in Serving, TakeLatest(r, found, next)
   PROVE  \E t : \/ found = {} /\ Goes(r, t) /\ t.phase = next
                 \/ Serves(r, t) /\ t.phase = "check" /\ t.inc \in 1..Len(incidents)
<1>1. CASE found = {}
  <2>1. Goto(r, next)
    BY <1>1 DEF TakeLatest, Goto, Typed, RequestsTyped
  <2> QED
    BY <1>1, <2>1, PhaseEffect
<1>2. CASE found # {}
  <2>1. PICK i \in 1..Len(incidents) : i = Latest(found)
    BY <1>2, LatestIsFound
  <2>2. i \in Nat
    BY <2>1, LenProperties DEF Typed, RowsTyped
  <2>3. req' = [req EXCEPT ![r] = [req[r] EXCEPT !.phase = "check", !.inc = i]]
    BY <1>2, <2>1 DEF TakeLatest, Typed, RequestsTyped
  <2>4. \E t : Serves(r, t) /\ t.phase = "check" /\ t.inc = i
    BY <2>2, <2>3, FoundEffect
  <2> QED
    BY <2>1, <2>4
<1> QED
  BY <1>1, <1>2

\* The row that is inserted.
NewRow(r) == [driver |-> req[r].driver, vehicle |-> req[r].vehicle, at |-> req[r].at, by |-> r]

LEMMA CreateEffect ==
   ASSUME Typed, NEW r \in Requests, CreateIncident(r)
   PROVE  /\ NewRow(r) \in Incident
          /\ incidents' = Append(incidents, NewRow(r))
          /\ Len(incidents') = Len(incidents) + 1
          /\ incidents' \in Seq(Incident)
          /\ \A i \in 1..Len(incidents) : incidents'[i] = incidents[i]
          /\ incidents'[Len(incidents) + 1] = NewRow(r)
          /\ \E t : Serves(r, t) /\ t.phase = "check" /\ t.inc = Len(incidents) + 1
<1>1. NewRow(r) \in Incident
  BY RequestRecord, RequestsAreNumbered
     DEF RequestFits, CreateIncident, Serving, NewRow, Incident, Request
<1>2. incidents' = Append(incidents, NewRow(r))
  BY DEF CreateIncident, NewRow
<1>3. incidents \in Seq(Incident) /\ Len(incidents) \in Nat
  BY LenProperties DEF Typed, RowsTyped
<1> HIDE DEF NewRow
<1>4. /\ Len(incidents') = Len(incidents) + 1
      /\ incidents' \in Seq(Incident)
      /\ \A i \in 1..Len(incidents) : incidents'[i] = incidents[i]
      /\ incidents'[Len(incidents) + 1] = NewRow(r)
  BY <1>1, <1>2, <1>3, AppendProperties
<1>5. req' = [req EXCEPT ![r] = [req[r] EXCEPT !.phase = "check", !.inc = Len(incidents) + 1]]
  BY <1>4 DEF CreateIncident, Typed, RequestsTyped
<1>6. Len(incidents) + 1 \in Nat
  BY <1>3
<1> QED
  BY <1>1, <1>2, <1>4, <1>5, <1>6, FoundEffect

LEMMA DueEffect ==
   ASSUME Typed, NEW r \in Requests, NEW b \in BOOLEAN, NEW due \in SUBSET FanOut,
          req' = [req EXCEPT ![r] = [req[r] EXCEPT !.phase = "fan_out", !.started = b, !.todo = due]]
   PROVE  \E t : /\ Serves(r, t) /\ t.phase = "fan_out" /\ t.inc = req[r].inc
                 /\ t.started = b /\ t.todo = due
<1>1. PICK x \in Request : x = req[r]
  BY RequestRecord
<1> DEFINE t == [x EXCEPT !.phase = "fan_out", !.started = b, !.todo = due]
<1>2. req' = [req EXCEPT ![r] = t]
  BY <1>1
<1>3. /\ t \in Request /\ t.phase = "fan_out" /\ t.inc = x.inc
      /\ t.driver = x.driver /\ t.vehicle = x.vehicle /\ t.at = x.at
      /\ t.started = b /\ t.todo = due
  BY <1>1 DEF Request, Serving
<1> HIDE DEF t
<1> QED
  BY <1>1, <1>2, <1>3 DEF Serves, Becomes

LEMMA CheckEffect ==
   ASSUME Typed, NEW r \in Requests, CheckStarted(r)
   PROVE  \E t : \/ /\ ~StartedBy(req[r].inc, req[r].driver)
                    /\ Goes(r, t) /\ t.phase = "write"
                 \/ /\ Serves(r, t) /\ t.phase = "fan_out" /\ t.inc = req[r].inc
                    /\ t.started /\ t.todo = NoWeatherYet(req[r].inc)
<1>1. CASE StartedBy(req[r].inc, req[r].driver)
  <2> DEFINE due == NoWeatherYet(req[r].inc)
  <2>1. due \in SUBSET FanOut
    BY DEF NoWeatherYet, FanOut
  <2>2. req' = [req EXCEPT ![r] =
                  [req[r] EXCEPT !.phase = "fan_out", !.started = TRUE, !.todo = due]]
    BY <1>1 DEF CheckStarted, Typed, RequestsTyped
  <2> HIDE DEF due
  <2>3. \E t : /\ Serves(r, t) /\ t.phase = "fan_out" /\ t.inc = req[r].inc
               /\ t.started = TRUE /\ t.todo = due
    BY <2>1, <2>2, DueEffect
  <2> QED
    BY <2>3 DEF due
<1>2. CASE ~StartedBy(req[r].inc, req[r].driver)
  <2>1. Goto(r, "write")
    BY <1>2 DEF CheckStarted, Goto, Typed, RequestsTyped
  <2>2. "write" \in Serving
    BY DEF Serving
  <2> QED
    BY <1>2, <2>1, <2>2, PhaseEffect
<1> QED
  BY <1>1, <1>2

LEMMA WriteEffect ==
   ASSUME Typed, NEW r \in Requests, WriteEvents(r)
   PROVE  \E t : /\ Serves(r, t) /\ t.phase = "fan_out" /\ t.inc = req[r].inc
                 /\ t.todo = FanOut
<1>1. PICK x \in Request : x = req[r]
  BY RequestRecord
<1> DEFINE t == [x EXCEPT !.phase = "fan_out", !.todo = FanOut]
<1>2. req' = [req EXCEPT ![r] = t]
  BY <1>1 DEF WriteEvents, Typed, RequestsTyped
<1>3. /\ t \in Request /\ t.phase = "fan_out" /\ t.inc = x.inc
      /\ t.driver = x.driver /\ t.vehicle = x.vehicle /\ t.at = x.at
      /\ t.todo = FanOut
  BY <1>1 DEF Request, Serving
<1> HIDE DEF t
<1> QED
  BY <1>1, <1>2, <1>3 DEF Serves, Becomes

LEMMA DropEffect ==
   ASSUME Typed, NEW r \in Requests,
          req' = [req EXCEPT ![r] = [req[r] EXCEPT !.todo = req[r].todo \ {First(req[r].todo)}]]
   PROVE  \E t : /\ Goes(r, t) /\ t.phase = req[r].phase
                 /\ t.todo = req[r].todo \ {First(req[r].todo)}
<1>1. PICK x \in Request : x = req[r]
  BY RequestRecord
<1>2. PICK rest \in SUBSET FanOut : rest = x.todo \ {First(x.todo)}
  BY <1>1 DEF Request
<1> DEFINE t == [x EXCEPT !.todo = rest]
<1>3. req' = [req EXCEPT ![r] = t]
  BY <1>1, <1>2
<1>4. /\ t \in Request /\ t.phase = x.phase
      /\ t.driver = x.driver /\ t.vehicle = x.vehicle /\ t.at = x.at
      /\ t.inc = x.inc /\ t.started = x.started /\ t.todo = rest
  BY <1>1, <1>2 DEF Request
<1> HIDE DEF t
<1> QED
  BY <1>1, <1>2, <1>3, <1>4 DEF Goes, Serves, Becomes

LEMMA EnqueueEffect ==
   ASSUME Typed, NEW r \in Requests, EnqueueNext(r)
   PROVE  /\ First(req[r].todo) \in req[r].todo
          /\ \E t : /\ Goes(r, t) /\ t.phase = "fan_out"
                    /\ t.todo = req[r].todo \ {First(req[r].todo)}
<1>1. req[r].todo \in SUBSET FanOut /\ req[r].todo # {} /\ req[r].phase = "fan_out"
  BY RequestRecord DEF Request, EnqueueNext
<1>2. req' = [req EXCEPT ![r] = [req[r] EXCEPT !.todo = req[r].todo \ {First(req[r].todo)}]]
  BY DEF EnqueueNext, Typed, RequestsTyped
<1> QED
  BY <1>1, <1>2, FirstIsDue, DropEffect

LEMMA FailEffect ==
   ASSUME Typed, NEW r \in Requests, EnqueueFails(r)
   PROVE  \E t : /\ Goes(r, t)
                 /\ \/ /\ First(req[r].todo) \in WeatherTasks /\ t.phase = "fan_out"
                       /\ t.todo = req[r].todo \ {First(req[r].todo)}
                    \/ t.phase = "failed"
<1>1. req[r].phase = "fan_out"
  BY DEF EnqueueFails
<1>2. CASE First(req[r].todo) \in WeatherTasks
  <2>1. req' = [req EXCEPT ![r] = [req[r] EXCEPT !.todo = req[r].todo \ {First(req[r].todo)}]]
    BY <1>2 DEF EnqueueFails, Typed, RequestsTyped
  <2> QED
    BY <1>1, <1>2, <2>1, DropEffect
<1>3. CASE First(req[r].todo) \notin WeatherTasks
  <2>1. Goto(r, "failed")
    BY <1>3 DEF EnqueueFails, Goto, Typed, RequestsTyped
  <2>2. "failed" \in Over
    BY DEF Over
  <2> QED
    BY <2>1, <2>2, PhaseEffect
<1> QED
  BY <1>2, <1>3

-----------------------------------------------------------------------------
(* The types are kept. *)

LEMMA InitTyped == Init => Typed
<1> SUFFICES ASSUME Init PROVE Typed
  OBVIOUS
<1>1. Idle \in Request /\ RequestFits(Idle)
  BY RequestsAreNumbered DEF Idle, Request, None, RequestFits, Named, Serving
<1>2. RequestsTyped
  BY <1>1 DEF Init, RequestsTyped
<1>3. RowsTyped
  <2>1. incidents \in Seq(Incident)
    BY EmptySeq DEF Init
  <2> QED
    BY <2>1 DEF Init, RowsTyped
<1>4. AppTyped
  BY InitiationAssumption, RequestsAreNumbered DEF Init, AppTyped, Screen, None
<1> QED
  BY <1>2, <1>3, <1>4 DEF Typed

\* A request's record is replaced by one that fits, and no row is taken away.
LEMMA RequestsStayTyped ==
   ASSUME Typed, NEW r \in Requests, NEW t, Becomes(r, t), RequestFits(t)',
          Len(incidents') \in Nat, Len(incidents) =< Len(incidents'),
          alongside' \in [Requests -> SUBSET Requests]
   PROVE  RequestsTyped'
<1>1. /\ req' \in [Requests -> Request]
      /\ req'[r] = t
      /\ \A q \in Requests : q # r => req'[q] = req[q]
  BY Replaced
<1>2. Len(incidents) \in Nat
  BY LenProperties DEF Typed, RowsTyped
<1>3. ASSUME NEW q \in Requests PROVE RequestFits(req[q])'
  <2>1. CASE q = r
    BY <1>1, <2>1 DEF RequestFits
  <2>2. CASE q # r
    <3>1. RequestFits(req[q]) /\ req'[q] = req[q]
      BY <1>1, <2>2, RequestRecord
    <3> QED
      BY <1>2, <3>1 DEF RequestFits
  <2> QED
    BY <2>1, <2>2
<1> QED
  BY <1>1, <1>3 DEF RequestsTyped

\* When the incidents stay, a record is judged as before.
LEMMA FitsAsBefore ==
   ASSUME NEW t, incidents' = incidents, RequestFits(t)
   PROVE  RequestFits(t)'
BY DEF RequestFits

LEMMA LengthsKnown ==
   ASSUME Typed PROVE Len(incidents) \in Nat /\ Len(incidents) =< Len(incidents)
BY LenProperties DEF Typed, RowsTyped

\* A step that replaces one record, and leaves the incidents and the meetings.
LEMMA RecordStepTyped ==
   ASSUME Typed, NEW r \in Requests, NEW t, Becomes(r, t), RequestFits(t),
          UNCHANGED <<incidents, alongside>>
   PROVE  RequestsTyped'
BY RequestsStayTyped, FitsAsBefore, LengthsKnown DEF Typed, RequestsTyped

LEMMA RowsStayTyped ==
   ASSUME Typed, UNCHANGED <<incidents, terminal>>,
          events' \subseteq Start /\ \A e \in events' : e.inc \in 1..Len(incidents),
          queued' \subseteq Task /\ \A q \in queued' : q.inc \in 1..Len(incidents)
   PROVE  RowsTyped'
BY DEF Typed, RowsTyped

LEMMA DatabaseStaysTyped ==
   ASSUME Typed, UNCHANGED <<database, queued>>
   PROVE  RowsTyped'
BY RowsStayTyped DEF Typed, RowsTyped, database

LEMMA AppStaysTyped ==
   ASSUME Typed, UNCHANGED app, crashes' \in Nat, outages' \in Nat, crashes' + outages' =< MaxFaults
   PROVE  AppTyped'
BY DEF Typed, AppTyped

LEMMA AppUntouched ==
   ASSUME Typed, UNCHANGED <<app, bounds>>
   PROVE  AppTyped'
BY AppStaysTyped DEF Typed, AppTyped, bounds

\* The server's steps that neither write nor publish.
LEMMA ServeTyped ==
   ASSUME Typed, NEW r \in Requests,
          FindByDriver(r) \/ FindByVehicle(r) \/ CheckStarted(r) \/ Answer(r)
             \/ EnqueueFails(r) \/ Die(r) \/ Refuse(r)
   PROVE  RequestsTyped'
<1>0. req[r] \in Request /\ RequestFits(req[r]) /\ UNCHANGED <<incidents, alongside>>
  BY RequestRecord DEF FindByDriver, FindByVehicle, TakeLatest, CheckStarted, Answer,
     EnqueueFails, Die, Refuse, database
<1>1. CASE FindByDriver(r)
  <2> DEFINE found == OwnedBy(req[r].driver)
  <2>1. found \in SUBSET (1..Len(incidents)) /\ "by_vehicle" \in Serving
    BY LenProperties DEF OwnedBy, Serving, Typed, RowsTyped
  <2>2. TakeLatest(r, found, "by_vehicle") /\ req[r].phase = "by_driver"
    BY <1>1 DEF FindByDriver
  <2> HIDE DEF found
  <2>3. PICK t : \/ Goes(r, t) /\ t.phase = "by_vehicle"
                 \/ Serves(r, t) /\ t.phase = "check" /\ t.inc \in 1..Len(incidents)
    BY <2>1, <2>2, LookEffect
  <2>4. RequestFits(t) /\ Becomes(r, t)
    BY <1>0, <2>2, <2>3 DEF Goes, Serves, RequestFits, Named, Serving
  <2> QED
    BY <1>0, <2>4, RecordStepTyped
<1>2. CASE FindByVehicle(r)
  <2> DEFINE found == {i \in DOMAIN incidents : incidents[i].vehicle = req[r].vehicle}
  <2>1. found \in SUBSET (1..Len(incidents)) /\ "create" \in Serving
    BY LenProperties DEF Serving, Typed, RowsTyped
  <2>2. TakeLatest(r, found, "create") /\ req[r].phase = "by_vehicle"
    BY <1>2 DEF FindByVehicle
  <2> HIDE DEF found
  <2>3. PICK t : \/ Goes(r, t) /\ t.phase = "create"
                 \/ Serves(r, t) /\ t.phase = "check" /\ t.inc \in 1..Len(incidents)
    BY <2>1, <2>2, LookEffect
  <2>4. RequestFits(t) /\ Becomes(r, t)
    BY <1>0, <2>2, <2>3 DEF Goes, Serves, RequestFits, Named, Serving
  <2> QED
    BY <1>0, <2>4, RecordStepTyped
<1>3. CASE CheckStarted(r)
  <2>1. PICK t : Serves(r, t) /\ t.phase \in {"write", "fan_out"} /\ t.inc = req[r].inc
    BY <1>3, CheckEffect DEF Goes
  <2>2. req[r].phase = "check"
    BY <1>3 DEF CheckStarted
  <2>3. RequestFits(t) /\ Becomes(r, t)
    BY <1>0, <2>1, <2>2 DEF Serves, RequestFits, Named, Serving
  <2> QED
    BY <1>0, <2>3, RecordStepTyped
<1>4. CASE Answer(r)
  <2>1. req[r].phase = "fan_out" /\ req[r].todo = {} /\ Goto(r, "answered") /\ "answered" \in Over
    BY <1>4 DEF Answer, Over
  <2>2. PICK t : Goes(r, t) /\ t.phase = "answered" /\ t.todo = req[r].todo
    BY <2>1, PhaseEffect
  <2>3. RequestFits(t) /\ Becomes(r, t)
    BY <1>0, <2>1, <2>2 DEF Goes, Serves, RequestFits, Named, Serving
  <2> QED
    BY <1>0, <2>3, RecordStepTyped
<1>5. CASE EnqueueFails(r)
  <2>1. PICK t : Goes(r, t) /\ t.phase \in {"fan_out", "failed"}
    BY <1>5, FailEffect
  <2>2. req[r].phase = "fan_out"
    BY <1>5 DEF EnqueueFails
  <2>3. RequestFits(t) /\ Becomes(r, t)
    BY <1>0, <2>1, <2>2 DEF Goes, Serves, RequestFits, Named, Serving
  <2> QED
    BY <1>0, <2>3, RecordStepTyped
<1>6. CASE Die(r)
  <2>1. req[r].phase \in Serving /\ Goto(r, "died") /\ "died" \in Over
    BY <1>6 DEF Die, Over
  <2>2. PICK t : Goes(r, t) /\ t.phase = "died"
    BY <2>1, PhaseEffect
  <2>3. RequestFits(t) /\ Becomes(r, t)
    BY <1>0, <2>1, <2>2 DEF Goes, Serves, RequestFits, Named, Serving
  <2> QED
    BY <1>0, <2>3, RecordStepTyped
<1>7. CASE Refuse(r)
  <2>1. req[r].phase = "sent" /\ Goto(r, "refused") /\ "refused" \in Over
    BY <1>7 DEF Refuse, Over
  <2>2. PICK t : Goes(r, t) /\ t.phase = "refused"
    BY <2>1, PhaseEffect
  <2>3. RequestFits(t) /\ Becomes(r, t)
    BY <1>0, <2>1, <2>2 DEF Goes, Serves, RequestFits, Named, Serving
  <2> QED
    BY <1>0, <2>3, RecordStepTyped
<1> QED
  BY <1>1, <1>2, <1>3, <1>4, <1>5, <1>6, <1>7

\* The steps that write or publish.
LEMMA WriteTyped ==
   ASSUME Typed, NEW r \in Requests,
          CreateIncident(r) \/ WriteEvents(r) \/ EnqueueNext(r)
   PROVE  RowsTyped' /\ RequestsTyped'
<1>0. req[r] \in Request /\ RequestFits(req[r])
  BY RequestRecord
<1>1. CASE CreateIncident(r)
  <2>1. /\ Len(incidents') = Len(incidents) + 1 /\ incidents' \in Seq(Incident)
    BY <1>1, CreateEffect
  <2>2. PICK t : Serves(r, t) /\ t.phase = "check" /\ t.inc = Len(incidents) + 1
    BY <1>1, CreateEffect
  <2>3. UNCHANGED <<events, terminal, queued, alongside>> /\ req[r].phase = "create"
    BY <1>1 DEF CreateIncident
  <2>4. RequestFits(t)'
    BY <1>0, <2>1, <2>2, <2>3, LengthsKnown DEF Serves, RequestFits, Named, Serving
  <2>5. RequestsTyped'
    BY <2>1, <2>2, <2>3, <2>4, LengthsKnown, RequestsStayTyped DEF Serves, Typed, RequestsTyped
  <2>6. 1..Len(incidents) \subseteq 1..Len(incidents')
    BY <2>1, LengthsKnown
  <2>7. RowsTyped'
    BY <2>1, <2>3, <2>6 DEF Typed, RowsTyped
  <2> QED
    BY <2>5, <2>7
<1>2. CASE WriteEvents(r)
  <2>1. PICK t : Serves(r, t) /\ t.phase = "fan_out" /\ t.inc = req[r].inc
    BY <1>2, WriteEffect
  <2>2. UNCHANGED <<incidents, terminal, queued, alongside>> /\ req[r].phase = "write"
    BY <1>2 DEF WriteEvents
  <2>3. RequestFits(t)
    BY <1>0, <2>1, <2>2 DEF Serves, RequestFits, Named, Serving
  <2>4. RequestsTyped'
    BY <2>1, <2>2, <2>3, RecordStepTyped DEF Serves
  <2> DEFINE e == [inc |-> req[r].inc, driver |-> req[r].driver, by |-> r]
  <2>5. e \in Start /\ e.inc \in 1..Len(incidents)
    BY <1>0, <2>2, LengthsKnown DEF RequestFits, Named, Start
  <2>6. events' = events \cup {e}
    BY <1>2 DEF WriteEvents
  <2> HIDE DEF e
  <2>7. RowsTyped'
    BY <2>2, <2>5, <2>6, RowsStayTyped DEF Typed, RowsTyped
  <2> QED
    BY <2>4, <2>7
<1>3. CASE EnqueueNext(r)
  <2>1. PICK t : Goes(r, t) /\ t.phase = "fan_out" /\ First(req[r].todo) \in req[r].todo
    BY <1>3, EnqueueEffect
  <2>2. UNCHANGED <<incidents, terminal, events, alongside>> /\ req[r].phase = "fan_out"
    BY <1>3 DEF EnqueueNext, database
  <2>3. RequestFits(t)
    BY <1>0, <2>1, <2>2 DEF Goes, Serves, RequestFits, Named, Serving
  <2>4. RequestsTyped'
    BY <2>1, <2>2, <2>3, RecordStepTyped DEF Goes, Serves
  <2> DEFINE q == [task |-> First(req[r].todo), inc |-> req[r].inc, by |-> r]
  <2>5. q \in Task /\ q.inc \in 1..Len(incidents)
    BY <1>0, <2>1, <2>2, LengthsKnown DEF RequestFits, Named, Task, Request
  <2>6. queued' = queued \cup {q}
    BY <1>3 DEF EnqueueNext
  <2> HIDE DEF q
  <2>7. RowsTyped'
    BY <2>2, <2>5, <2>6, RowsStayTyped DEF Typed, RowsTyped
  <2> QED
    BY <2>4, <2>7
<1> QED
  BY <1>1, <1>2, <1>3

LEMMA NextTyped == Typed /\ [Next]_vars => Typed'
<1> SUFFICES ASSUME Typed, [Next]_vars PROVE Typed'
  OBVIOUS
<1>1. ASSUME NEW d \in Drivers, NEW r \in Requests, NEW v \in InReach[d], Begin(d, v, r)
      PROVE  Typed'
  <2>1. PICK t : /\ Becomes(r, t)
                 /\ t.phase = "sent" /\ t.driver = d /\ t.vehicle = v /\ t.at = 0
    BY <1>1, BeginEffect
  <2>2. v \in Vehicles
    BY InitiationAssumption
  <2>3. RequestFits(t)
    BY <2>1, <2>2 DEF RequestFits, Named, Serving
  <2>4. UNCHANGED <<database, queued, alongside, bounds>>
    BY <1>1 DEF Begin
  <2>5. RequestsTyped'
    BY <2>1, <2>3, <2>4, RecordStepTyped DEF database
  <2>6. app' = [app EXCEPT ![d] = [screen |-> "waiting", req |-> r]]
    BY <1>1 DEF Begin
  <2>7. AppTyped'
    BY <2>4, <2>6, RequestsAreNumbered DEF Typed, AppTyped, Screen, bounds
  <2> QED
    BY <2>4, <2>5, <2>7, DatabaseStaysTyped DEF Typed
<1>2. ASSUME NEW d \in Drivers, Wait(d) \/ AskAgain(d) PROVE Typed'
  <2>1. UNCHANGED <<database, queued, req, alongside, bounds>>
    BY <1>2 DEF Wait, AskAgain, GotAnswer, GotError, LoseTrack, Recovered, NotRecovered
  <2>2. \E s \in Screen : app' = [app EXCEPT ![d].screen = s]
    BY <1>2 DEF Wait, AskAgain, GotAnswer, GotError, LoseTrack, Recovered, NotRecovered, Screen
  <2>3. AppTyped'
    BY <2>1, <2>2 DEF Typed, AppTyped, bounds
  <2>4. RequestsTyped'
    BY <2>1 DEF Typed, RequestsTyped, RequestFits, database
  <2> QED
    BY <2>1, <2>3, <2>4, DatabaseStaysTyped DEF Typed
<1>3. ASSUME NEW r \in Requests, Arrive(r) PROVE Typed'
  <2>1. PICK t : /\ Becomes(r, t) /\ t.phase = "by_driver" /\ t.at \in Requests
                 /\ t.driver = req[r].driver /\ t.vehicle = req[r].vehicle
    BY <1>3, ArriveEffect
  <2>2. RequestFits(t)
    BY <1>3, <2>1, RequestRecord, RequestsAreNumbered DEF Arrive, RequestFits, Named, Serving
  <2>3. UNCHANGED <<database, queued, app, bounds>>
    BY <1>3 DEF Arrive
  <2>4. alongside' \in [Requests -> SUBSET Requests]
    BY <1>3 DEF Arrive, Typed, RequestsTyped
  <2>5. RequestsTyped'
    BY <2>1, <2>2, <2>3, <2>4, RequestsStayTyped, FitsAsBefore, LengthsKnown DEF database
  <2> QED
    BY <2>3, <2>5, DatabaseStaysTyped, AppUntouched DEF Typed
<1>4. ASSUME NEW r \in Requests,
             FindByDriver(r) \/ FindByVehicle(r) \/ CheckStarted(r) \/ Answer(r) \/ Refuse(r)
      PROVE  Typed'
  <2>1. UNCHANGED <<database, queued, app, bounds>>
    BY <1>4 DEF FindByDriver, FindByVehicle, TakeLatest, CheckStarted, Answer, Refuse
  <2> QED
    BY <1>4, <2>1, ServeTyped, DatabaseStaysTyped, AppUntouched DEF Typed
<1>5. ASSUME NEW r \in Requests, EnqueueFails(r) \/ Die(r) PROVE Typed'
  <2>1. UNCHANGED <<database, queued, app>>
    BY <1>5 DEF EnqueueFails, Die
  <2>2. crashes' \in Nat /\ outages' \in Nat /\ crashes' + outages' =< MaxFaults
    BY <1>5, InitiationAssumption DEF EnqueueFails, Die, Typed, AppTyped
  <2> QED
    BY <1>5, <2>1, <2>2, ServeTyped, DatabaseStaysTyped, AppStaysTyped DEF Typed
<1>6. ASSUME NEW r \in Requests, CreateIncident(r) \/ WriteEvents(r) \/ EnqueueNext(r)
      PROVE  Typed'
  <2>1. UNCHANGED <<app, bounds>>
    BY <1>6 DEF CreateIncident, WriteEvents, EnqueueNext
  <2> QED
    BY <1>6, <2>1, WriteTyped, AppUntouched DEF Typed
<1>7. ASSUME NEW q \in queued, WeatherCaptured(q) PROVE Typed'
  <2>1. UNCHANGED <<incidents, events, queued, req, alongside, app, bounds>>
    BY <1>7 DEF WeatherCaptured
  <2>2. terminal' \subseteq (1..Len(incidents)) \X WeatherTasks
    BY <1>7 DEF WeatherCaptured, Typed, RowsTyped
  <2>3. RowsTyped'
    BY <2>1, <2>2 DEF Typed, RowsTyped
  <2>4. RequestsTyped'
    BY <2>1 DEF Typed, RequestsTyped, RequestFits
  <2> QED
    BY <2>1, <2>3, <2>4, AppUntouched DEF Typed
<1>8. ASSUME UNCHANGED vars PROVE Typed'
  BY <1>8 DEF vars, Typed, RowsTyped, RequestsTyped, AppTyped, RequestFits
<1> QED
  BY <1>1, <1>2, <1>3, <1>4, <1>5, <1>6, <1>7, <1>8 DEF Next, Admit, Serve

\* The parts give the type invariant of the specification.
LEMMA TypedMeansTypeOK == Typed => TypeOK
<1> SUFFICES ASSUME Typed PROVE TypeOK
  OBVIOUS
<1>1. DOMAIN incidents = 1..Len(incidents)
  BY LenProperties DEF Typed, RowsTyped
<1>2. \A r \in Requests :
         /\ req[r].phase \in Named => req[r].inc \in DOMAIN incidents
         /\ req[r].phase # "unsent" => req[r].driver \in Drivers /\ req[r].vehicle \in Vehicles
  BY <1>1, RequestRecord DEF RequestFits
<1> QED
  BY <1>1, <1>2 DEF Typed, RowsTyped, RequestsTyped, AppTyped, TypeOK, Named

-----------------------------------------------------------------------------
(* Races. *)

\* Steps that no part of RaceInv speaks of.
LEMMA RaceElsewhere ==
   ASSUME RaceInv, UNCHANGED <<incidents, events, req, alongside>>
   PROVE  RaceInv'
<1>1. \A q, r \in Requests : Raced(q, r)' <=> Raced(q, r)
  BY DEF Raced
<1>2. OutsideMeetsNobody' /\ ServedTogether'
  BY <1>1 DEF RaceInv, OutsideMeetsNobody, ServedTogether, Raced
<1>3. IncidentsMissedByRace'
  BY DEF RaceInv, IncidentsMissedByRace, MissedIncident, Raced
<1>4. StartsMissedByRace'
  BY DEF RaceInv, StartsMissedByRace, MissedStart, Raced
<1>5. OneIncidentUnlessRaced' /\ OneStartUnlessRaced'
  BY DEF RaceInv, OneIncidentUnlessRaced, OneStartUnlessRaced, Raced
<1> QED
  BY <1>2, <1>3, <1>4, <1>5 DEF RaceInv

\* A step of one request that adds no row: what it leaves unfound has raced.
LEMMA RaceWhenItMovesOn ==
   ASSUME Typed, RaceInv, NEW r \in Requests, NEW t, Becomes(r, t),
          UNCHANGED <<incidents, events, alongside>>,
          t.phase \in Outside => req[r].phase \in Outside,
          t.phase \in Serving => req[r].phase \in Serving,
          MissedIncident(t, r), MissedStart(t, r)
   PROVE  RaceInv'
<1>1. /\ req'[r] = t
      /\ \A q \in Requests : q # r => req'[q] = req[q]
  BY Replaced
<1>2. OutsideMeetsNobody'
  BY <1>1 DEF RaceInv, OutsideMeetsNobody
<1>3. ServedTogether'
  BY <1>1 DEF RaceInv, ServedTogether, Raced
<1>4. IncidentsMissedByRace'
  BY <1>1 DEF RaceInv, IncidentsMissedByRace, MissedIncident, Raced
<1>5. StartsMissedByRace'
  BY <1>1 DEF RaceInv, StartsMissedByRace, MissedStart, Raced
<1>6. OneIncidentUnlessRaced' /\ OneStartUnlessRaced'
  BY DEF RaceInv, OneIncidentUnlessRaced, OneStartUnlessRaced, Raced
<1> QED
  BY <1>2, <1>3, <1>4, <1>5, <1>6 DEF RaceInv

\* A request that arrives meets all that are in service.
LEMMA RaceWhenItArrives ==
   ASSUME Typed, RaceInv, NEW r \in Requests, Arrive(r)
   PROVE  RaceInv'
<1>1. PICK t : /\ Becomes(r, t) /\ t.phase = "by_driver"
               /\ t.driver = req[r].driver /\ t.vehicle = req[r].vehicle
  BY ArriveEffect
<1>2. /\ req'[r] = t
      /\ \A q \in Requests : q # r => req'[q] = req[q]
  BY <1>1, Replaced
<1>3. /\ alongside'[r] = {q \in Requests : req[q].phase \in Serving}
      /\ \A q \in Requests : q # r => alongside'[q] = alongside[q]
      /\ UNCHANGED <<incidents, events>>
  BY DEF Arrive, Typed, RequestsTyped, database
<1>4. alongside[r] = {} /\ req[r].phase = "sent"
  BY DEF Arrive, RaceInv, OutsideMeetsNobody, Outside
<1>5. \A q, o \in Requests : Raced(q, o) => (q \in alongside'[o] \/ o \in alongside'[q])
  BY <1>3, <1>4 DEF Raced
<1>6. OutsideMeetsNobody'
  BY <1>1, <1>2, <1>3 DEF RaceInv, OutsideMeetsNobody, Outside
<1>7. ServedTogether'
  <2> SUFFICES ASSUME NEW q \in Requests, NEW o \in Requests, q # o,
                      req'[q].phase \in Serving, req'[o].phase \in Serving
               PROVE  q \in alongside'[o] \/ o \in alongside'[q]
    BY DEF ServedTogether, Raced
  <2>1. CASE q = r
    BY <1>2, <1>3, <2>1
  <2>2. CASE o = r
    BY <1>2, <1>3, <2>2
  <2>3. CASE q # r /\ o # r
    BY <1>2, <1>5, <2>3 DEF RaceInv, ServedTogether
  <2> QED
    BY <2>1, <2>2, <2>3
<1>8. \A i \in 1..Len(incidents) : incidents[i].by \in Requests
  <2>1. \A i \in 1..Len(incidents) : incidents[i] \in Incident
    BY ElementOfSeq DEF Typed, RowsTyped
  <2> QED
    BY <2>1 DEF Incident
<1>9. \A e \in events : e.by \in Requests
  BY DEF Typed, RowsTyped, Start
<1>10. IncidentsMissedByRace'
  BY <1>1, <1>2, <1>3, <1>5, <1>8
     DEF RaceInv, IncidentsMissedByRace, MissedIncident, Raced
<1>11. StartsMissedByRace'
  BY <1>1, <1>2, <1>3, <1>5, <1>9 DEF RaceInv, StartsMissedByRace, MissedStart, Raced
<1>12. DOMAIN incidents = 1..Len(incidents)
  BY LenProperties DEF Typed, RowsTyped
<1>13. OneIncidentUnlessRaced'
  BY <1>3, <1>5, <1>8, <1>12 DEF RaceInv, OneIncidentUnlessRaced, Raced
<1>14. OneStartUnlessRaced'
  BY <1>3, <1>5, <1>9 DEF RaceInv, OneStartUnlessRaced, Raced
<1> QED
  BY <1>6, <1>7, <1>10, <1>11, <1>13, <1>14 DEF RaceInv

\* A new incident: those of its driver or vehicle that it missed have raced,
\* and whoever is looking now races with it.
LEMMA RaceWhenItCreates ==
   ASSUME Typed, RaceInv, NEW r \in Requests, CreateIncident(r)
   PROVE  RaceInv'
<1> DEFINE n == Len(incidents) + 1
<1>1. /\ Len(incidents') = n
      /\ \A i \in 1..Len(incidents) : incidents'[i] = incidents[i]
      /\ incidents'[n] = NewRow(r)
      /\ incidents' \in Seq(Incident)
  BY CreateEffect
<1>2. PICK t : Serves(r, t) /\ t.phase = "check"
  BY CreateEffect
<1>3. /\ req'[r] = t
      /\ \A q \in Requests : q # r => req'[q] = req[q]
  BY <1>2, Replaced DEF Serves
<1>4. UNCHANGED <<events, alongside>> /\ req[r].phase = "create" /\ req[r].phase \in Serving
  BY DEF CreateIncident, Serving
<1>5. Len(incidents) \in Nat /\ \A i \in 1..n : i \in 1..Len(incidents) \/ i = n
  BY LengthsKnown
<1>6. OutsideMeetsNobody'
  BY <1>2, <1>3, <1>4 DEF RaceInv, OutsideMeetsNobody, Outside
<1>7. ServedTogether'
  BY <1>3, <1>4 DEF RaceInv, ServedTogether, Raced
<1>8. NewRow(r).by = r /\ NewRow(r).driver = req[r].driver /\ NewRow(r).vehicle = req[r].vehicle
  BY DEF NewRow
<1>9. IncidentsMissedByRace'
  <2> SUFFICES ASSUME NEW q \in Requests PROVE MissedIncident(req[q], q)'
    BY DEF IncidentsMissedByRace
  <2>1. CASE q = r
    BY <1>2, <1>3, <2>1 DEF MissedIncident
  <2>2. CASE q # r
    <3>1. MissedIncident(req[q], q) /\ req'[q] = req[q]
      BY <1>3, <2>2 DEF RaceInv, IncidentsMissedByRace
    <3>2. req[q].phase \in {"by_vehicle", "create"} => Raced(r, q)
      BY <1>4, <2>2 DEF RaceInv, ServedTogether, Serving
    <3> QED
      BY <1>1, <1>4, <1>5, <1>8, <3>1, <3>2 DEF MissedIncident, Raced
  <2> QED
    BY <2>1, <2>2
<1>10. StartsMissedByRace'
  BY <1>2, <1>3, <1>4 DEF RaceInv, StartsMissedByRace, MissedStart, Raced
<1>11. DOMAIN incidents = 1..Len(incidents) /\ DOMAIN incidents' = 1..n
  BY <1>1, LenProperties DEF Typed, RowsTyped
<1>12. \A i \in 1..Len(incidents) :
          (incidents[i].driver = req[r].driver \/ incidents[i].vehicle = req[r].vehicle)
             => Raced(incidents[i].by, r)
  BY <1>4 DEF RaceInv, IncidentsMissedByRace, MissedIncident
<1>13. OneIncidentUnlessRaced'
  <2> SUFFICES ASSUME NEW i \in 1..n, NEW j \in 1..n, i # j,
                      \/ incidents'[i].driver = incidents'[j].driver
                      \/ incidents'[i].vehicle = incidents'[j].vehicle
               PROVE  Raced(incidents[i].by, incidents[j].by)'
    BY <1>11 DEF OneIncidentUnlessRaced
  <2>1. CASE i \in 1..Len(incidents) /\ j \in 1..Len(incidents)
    BY <1>1, <1>4, <1>11, <2>1 DEF RaceInv, OneIncidentUnlessRaced, Raced
  <2>2. CASE i = n /\ j \in 1..Len(incidents)
    BY <1>1, <1>4, <1>8, <1>12, <2>2 DEF Raced
  <2>3. CASE j = n /\ i \in 1..Len(incidents)
    BY <1>1, <1>4, <1>8, <1>12, <2>3 DEF Raced
  <2> QED
    BY <1>5, <2>1, <2>2, <2>3
<1>14. OneStartUnlessRaced'
  BY <1>4 DEF RaceInv, OneStartUnlessRaced, Raced
<1> QED
  BY <1>6, <1>7, <1>9, <1>10, <1>13, <1>14 DEF RaceInv

\* A new start: those of its driver on its incident that it missed have raced.
LEMMA RaceWhenItStarts ==
   ASSUME Typed, RaceInv, NEW r \in Requests, WriteEvents(r)
   PROVE  RaceInv'
<1>1. PICK t : Serves(r, t) /\ t.phase = "fan_out"
  BY WriteEffect
<1>2. /\ req'[r] = t
      /\ \A q \in Requests : q # r => req'[q] = req[q]
  BY <1>1, Replaced DEF Serves
<1>3. /\ UNCHANGED <<incidents, alongside>>
      /\ req[r].phase = "write" /\ req[r].phase \in Serving
  BY DEF WriteEvents, Serving
<1> DEFINE n == [inc |-> req[r].inc, driver |-> req[r].driver, by |-> r]
<1>4. events' = events \cup {n}
  BY DEF WriteEvents
<1>5. n.inc = req[r].inc /\ n.driver = req[r].driver /\ n.by = r
  OBVIOUS
<1> HIDE DEF n
<1>6. OutsideMeetsNobody'
  BY <1>1, <1>2, <1>3 DEF RaceInv, OutsideMeetsNobody, Outside
<1>7. ServedTogether'
  BY <1>2, <1>3 DEF RaceInv, ServedTogether, Raced
<1>8. IncidentsMissedByRace'
  BY <1>1, <1>2, <1>3 DEF RaceInv, IncidentsMissedByRace, MissedIncident, Raced
<1>9. StartsMissedByRace'
  <2> SUFFICES ASSUME NEW q \in Requests PROVE MissedStart(req[q], q)'
    BY DEF StartsMissedByRace
  <2>1. CASE q = r
    BY <1>1, <1>2, <2>1 DEF MissedStart
  <2>2. CASE q # r
    <3>1. MissedStart(req[q], q) /\ req'[q] = req[q]
      BY <1>2, <2>2 DEF RaceInv, StartsMissedByRace
    <3>2. req[q].phase = "write" => Raced(r, q)
      BY <1>3, <2>2 DEF RaceInv, ServedTogether, Serving
    <3> QED
      BY <1>3, <1>4, <1>5, <3>1, <3>2 DEF MissedStart, Raced
  <2> QED
    BY <2>1, <2>2
<1>10. OneIncidentUnlessRaced'
  BY <1>3 DEF RaceInv, OneIncidentUnlessRaced, Raced
<1>11. \A e \in events : (e.inc = n.inc /\ e.driver = n.driver) => Raced(e.by, r)
  BY <1>3, <1>5 DEF RaceInv, StartsMissedByRace, MissedStart
<1>12. OneStartUnlessRaced'
  <2> SUFFICES ASSUME NEW e \in events', NEW f \in events',
                      e # f, e.inc = f.inc, e.driver = f.driver
               PROVE  Raced(e.by, f.by)'
    BY DEF OneStartUnlessRaced
  <2>1. CASE e \in events /\ f \in events
    BY <1>3, <2>1 DEF RaceInv, OneStartUnlessRaced, Raced
  <2>2. CASE e = n /\ f \in events
    BY <1>3, <1>5, <1>11, <2>2 DEF Raced
  <2>3. CASE f = n /\ e \in events
    BY <1>3, <1>5, <1>11, <2>3 DEF Raced
  <2> QED
    BY <1>4, <2>1, <2>2, <2>3
<1> QED
  BY <1>6, <1>7, <1>8, <1>9, <1>10, <1>12 DEF RaceInv

LEMMA InitRaces == Init => RaceInv
BY DEF Init, Idle, RaceInv, OutsideMeetsNobody, ServedTogether, IncidentsMissedByRace,
   MissedIncident, StartsMissedByRace, MissedStart, OneIncidentUnlessRaced,
   OneStartUnlessRaced, Outside, Serving

\* A request that is not about to create or to write has missed nothing.
LEMMA NothingMissed ==
   ASSUME NEW r, NEW t, t.phase \notin {"by_vehicle", "create", "write"}
   PROVE  MissedIncident(t, r) /\ MissedStart(t, r)
BY DEF MissedIncident, MissedStart

LEMMA NextRaces == Typed /\ RaceInv /\ [Next]_vars => RaceInv'
<1> SUFFICES ASSUME Typed, RaceInv, [Next]_vars PROVE RaceInv'
  OBVIOUS
<1> USE DEF Goes, Serves
<1>1. ASSUME NEW d \in Drivers, NEW r \in Requests, NEW v \in InReach[d], Begin(d, v, r)
      PROVE  RaceInv'
  <2>1. PICK t : Becomes(r, t) /\ t.phase = "sent"
    BY <1>1, BeginEffect
  <2>2. UNCHANGED <<incidents, events, alongside>> /\ req[r].phase \in Outside
    BY <1>1 DEF Begin, database, Outside
  <2>3. t.phase \notin Serving /\ t.phase \notin {"by_vehicle", "create", "write"}
    BY <2>1 DEF Serving
  <2> QED
    BY <2>1, <2>2, <2>3, NothingMissed, RaceWhenItMovesOn
<1>2. ASSUME NEW d \in Drivers, Wait(d) \/ AskAgain(d) PROVE RaceInv'
  <2>1. UNCHANGED <<incidents, events, req, alongside>>
    BY <1>2 DEF Wait, AskAgain, GotAnswer, GotError, LoseTrack, Recovered, NotRecovered, database
  <2> QED
    BY <2>1, RaceElsewhere
<1>3. ASSUME NEW r \in Requests, Refuse(r) PROVE RaceInv'
  <2>1. Goto(r, "refused") /\ "refused" \in Over /\ req[r].phase \in Outside
    BY <1>3 DEF Refuse, Over, Outside
  <2>2. PICK t : Becomes(r, t) /\ t.phase = "refused"
    BY <2>1, PhaseEffect
  <2>3. UNCHANGED <<incidents, events, alongside>>
    BY <1>3 DEF Refuse, database
  <2>4. t.phase \notin Serving /\ t.phase \notin {"by_vehicle", "create", "write"}
    BY <2>2 DEF Serving
  <2> QED
    BY <2>1, <2>2, <2>3, <2>4, NothingMissed, RaceWhenItMovesOn
<1>4. ASSUME NEW r \in Requests, FindByDriver(r) PROVE RaceInv'
  <2> DEFINE found == OwnedBy(req[r].driver)
  <2>1. found \in SUBSET (1..Len(incidents)) /\ "by_vehicle" \in Serving /\ "by_driver" \in Serving
    BY LenProperties DEF OwnedBy, Serving, Typed, RowsTyped
  <2>2. TakeLatest(r, found, "by_vehicle") /\ req[r].phase = "by_driver"
    BY <1>4 DEF FindByDriver
  <2>3. DOMAIN incidents = 1..Len(incidents)
    BY LenProperties DEF Typed, RowsTyped
  <2>4. found = {} => \A i \in 1..Len(incidents) : incidents[i].driver # req[r].driver
    BY <2>3 DEF OwnedBy
  <2>5. UNCHANGED <<incidents, events, alongside>>
    BY <1>4 DEF FindByDriver, TakeLatest, database
  <2> HIDE DEF found
  <2>6. PICK t : \/ found = {} /\ Goes(r, t) /\ t.phase = "by_vehicle"
                 \/ Serves(r, t) /\ t.phase = "check" /\ t.inc \in 1..Len(incidents)
    BY <2>1, <2>2, LookEffect
  <2>7. MissedIncident(t, r) /\ MissedStart(t, r) /\ Becomes(r, t)
    BY <2>4, <2>6 DEF MissedIncident, MissedStart
  <2>8. t.phase \notin Outside /\ req[r].phase \in Serving
    BY <2>1, <2>2, <2>6 DEF Outside
  <2> QED
    BY <2>5, <2>7, <2>8, RaceWhenItMovesOn
<1>5. ASSUME NEW r \in Requests, FindByVehicle(r) PROVE RaceInv'
  <2> DEFINE found == {i \in DOMAIN incidents : incidents[i].vehicle = req[r].vehicle}
  <2>1. found \in SUBSET (1..Len(incidents)) /\ "by_vehicle" \in Serving /\ "create" \in Serving
    BY LenProperties DEF Serving, Typed, RowsTyped
  <2>2. TakeLatest(r, found, "create") /\ req[r].phase = "by_vehicle"
    BY <1>5 DEF FindByVehicle
  <2>3. DOMAIN incidents = 1..Len(incidents)
    BY LenProperties DEF Typed, RowsTyped
  <2>4. found = {} => \A i \in 1..Len(incidents) : incidents[i].vehicle # req[r].vehicle
    BY <2>3
  <2>5. UNCHANGED <<incidents, events, alongside>>
    BY <1>5 DEF FindByVehicle, TakeLatest, database
  <2> HIDE DEF found
  <2>6. PICK t : \/ found = {} /\ Goes(r, t) /\ t.phase = "create"
                 \/ Serves(r, t) /\ t.phase = "check" /\ t.inc \in 1..Len(incidents)
    BY <2>1, <2>2, LookEffect
  <2>7. MissedIncident(req[r], r)
    BY DEF RaceInv, IncidentsMissedByRace
  <2>8. MissedIncident(t, r) /\ MissedStart(t, r) /\ Becomes(r, t)
    BY <2>2, <2>4, <2>6, <2>7 DEF MissedIncident, MissedStart
  <2>9. t.phase \notin Outside /\ req[r].phase \in Serving
    BY <2>1, <2>2, <2>6 DEF Outside
  <2> QED
    BY <2>5, <2>8, <2>9, RaceWhenItMovesOn
<1>6. ASSUME NEW r \in Requests, CheckStarted(r) PROVE RaceInv'
  <2>1. PICK t : /\ Serves(r, t) /\ t.inc = req[r].inc
                 /\ \/ ~StartedBy(req[r].inc, req[r].driver) /\ t.phase = "write"
                    \/ t.phase = "fan_out"
    BY <1>6, CheckEffect
  <2>2. MissedIncident(t, r) /\ MissedStart(t, r) /\ Becomes(r, t)
    BY <2>1 DEF MissedIncident, MissedStart, StartedBy
  <2>3. t.phase \notin Outside /\ req[r].phase \in Serving
    BY <1>6, <2>1 DEF Outside, CheckStarted, Serving
  <2>4. UNCHANGED <<incidents, events, alongside>>
    BY <1>6 DEF CheckStarted, database
  <2> QED
    BY <2>2, <2>3, <2>4, RaceWhenItMovesOn
<1>7. ASSUME NEW r \in Requests, EnqueueNext(r) \/ EnqueueFails(r) PROVE RaceInv'
  <2>1. PICK t : Becomes(r, t) /\ t.phase \in {"fan_out", "failed"}
    BY <1>7, EnqueueEffect, FailEffect
  <2>2. UNCHANGED <<incidents, events, alongside>> /\ req[r].phase \in Serving
    BY <1>7 DEF EnqueueNext, EnqueueFails, database, Serving
  <2>3. t.phase \notin Outside /\ t.phase \notin {"by_vehicle", "create", "write"}
    BY <2>1 DEF Outside
  <2> QED
    BY <2>1, <2>2, <2>3, NothingMissed, RaceWhenItMovesOn
<1>8. ASSUME NEW r \in Requests, NEW ph \in {"answered", "died"}, Goto(r, ph),
             req[r].phase \in Serving, UNCHANGED <<incidents, events, alongside>>
      PROVE  RaceInv'
  <2>1. ph \in Serving \cup Over
    BY DEF Over
  <2>2. PICK t : Becomes(r, t) /\ t.phase = ph
    BY <1>8, <2>1, PhaseEffect
  <2>3. t.phase \notin Outside /\ t.phase \notin {"by_vehicle", "create", "write"}
    BY <2>2 DEF Outside
  <2> QED
    BY <1>8, <2>2, <2>3, NothingMissed, RaceWhenItMovesOn
<1>9. ASSUME NEW r \in Requests, Answer(r) \/ Die(r) PROVE RaceInv'
  BY <1>8, <1>9 DEF Answer, Die, database, Serving
<1>10. ASSUME NEW q \in queued, WeatherCaptured(q) PROVE RaceInv'
  BY <1>10, RaceElsewhere DEF WeatherCaptured
<1>11. ASSUME UNCHANGED vars PROVE RaceInv'
  BY <1>11, RaceElsewhere DEF vars
<1> QED
  BY <1>1, <1>2, <1>3, <1>4, <1>5, <1>6, <1>7, <1>9, <1>10, <1>11,
     RaceWhenItArrives, RaceWhenItCreates, RaceWhenItStarts DEF Next, Admit, Serve

-----------------------------------------------------------------------------
(* Promises. *)

\* One request moves, tasks are only added, the promises of its record hold.
LEMMA PromiseWhenItMovesOn ==
   ASSUME Typed, PromiseInv, NEW r \in Requests, NEW t, Becomes(r, t),
          UNCHANGED terminal, queued \subseteq queued', outages' = 0 => outages = 0,
          CapturesDue(t, r)', WeatherDue(t)'
   PROVE  PromiseInv'
<1>1. /\ req'[r] = t
      /\ \A q \in Requests : q # r => req'[q] = req[q]
  BY Replaced
<1>2. \A x, i : Queued(x, i) => Queued(x, i)'
  BY DEF Queued
<1>3. ASSUME NEW q \in Requests PROVE CapturesDue(req[q], q)' /\ WeatherDue(req[q])'
  <2>1. CASE q = r
    BY <1>1, <2>1 DEF CapturesDue, WeatherDue, Queued
  <2>2. CASE q # r
    <3>1. CapturesDue(req[q], q) /\ WeatherDue(req[q]) /\ req'[q] = req[q]
      BY <1>1, <2>2 DEF PromiseInv
    <3>2. CapturesDue(req[q], q)'
      BY <3>1 DEF CapturesDue
    <3>3. WeatherDue(req[q])'
      BY <1>2, <3>1 DEF WeatherDue, Queued
    <3> QED
      BY <3>2, <3>3
  <2> QED
    BY <2>1, <2>2
<1>4. \A p \in terminal' : Queued(p[2], p[1])'
  BY <1>2 DEF PromiseInv, Queued
<1> QED
  BY <1>3, <1>4 DEF PromiseInv

\* A request that is not at its fan-out, or past it, promises nothing.
LEMMA NothingDue ==
   ASSUME NEW r, NEW t, t.phase \notin Delivering
   PROVE  CapturesDue(t, r)' /\ WeatherDue(t)'
BY DEF CapturesDue, WeatherDue

LEMMA PromiseElsewhere ==
   ASSUME PromiseInv, UNCHANGED <<queued, terminal, req, outages>>
   PROVE  PromiseInv'
<1>1. \A q \in Requests : CapturesDue(req[q], q)' /\ WeatherDue(req[q])'
  BY DEF PromiseInv, CapturesDue, WeatherDue, Queued
<1>2. \A p \in terminal' : Queued(p[2], p[1])'
  BY DEF PromiseInv, Queued
<1> QED
  BY <1>1, <1>2 DEF PromiseInv

\* The steps before the fan-out, and those that end a request without an answer.
LEMMA PromiseOutside ==
   ASSUME Typed, PromiseInv, NEW r \in Requests, NEW t, Becomes(r, t),
          UNCHANGED <<queued, terminal, outages>>, t.phase \notin Delivering
   PROVE  PromiseInv'
BY NothingDue, PromiseWhenItMovesOn

\* What was started is repaired as far as the weather goes; the rest is not due.
LEMMA PromiseWhenItChecks ==
   ASSUME Typed, PromiseInv, NEW r \in Requests, CheckStarted(r)
   PROVE  PromiseInv'
<1>1. PICK t : \/ Goes(r, t) /\ t.phase = "write"
               \/ /\ Serves(r, t) /\ t.phase = "fan_out" /\ t.inc = req[r].inc
                  /\ t.started /\ t.todo = NoWeatherYet(req[r].inc)
  BY CheckEffect
<1>2. UNCHANGED <<queued, terminal, outages>> /\ Becomes(r, t)
  BY <1>1 DEF CheckStarted, database, bounds, Goes, Serves
<1>3. CASE t.phase = "write"
  BY <1>2, <1>3, PromiseOutside DEF Delivering
<1>4. CASE t.phase # "write"
  <2>1. CapturesDue(t, r)'
    BY <1>1, <1>4 DEF CapturesDue
  <2>2. \A x \in WeatherTasks : x \in t.todo \/ Queued(x, t.inc)
    <3> SUFFICES ASSUME NEW x \in WeatherTasks, x \notin t.todo PROVE Queued(x, t.inc)
      OBVIOUS
    <3>1. <<t.inc, x>> \in terminal
      BY <1>1, <1>4 DEF NoWeatherYet
    <3> QED
      BY <3>1 DEF PromiseInv
  <2>3. WeatherDue(t)'
    BY <1>2, <2>2 DEF WeatherDue, Queued
  <2> QED
    BY <1>2, <2>1, <2>3, PromiseWhenItMovesOn
<1> QED
  BY <1>3, <1>4

LEMMA PromiseWhenItStarts ==
   ASSUME Typed, PromiseInv, NEW r \in Requests, WriteEvents(r)
   PROVE  PromiseInv'
<1>1. PICK t : Serves(r, t) /\ t.phase = "fan_out" /\ t.todo = FanOut
  BY WriteEffect
<1>2. UNCHANGED <<queued, terminal, outages>> /\ Becomes(r, t)
  BY <1>1 DEF WriteEvents, bounds, Serves
<1>3. CapturesDue(t, r)' /\ WeatherDue(t)'
  BY <1>1 DEF CapturesDue, WeatherDue, FanOut
<1> QED
  BY <1>2, <1>3, PromiseWhenItMovesOn

LEMMA PromiseWhenItQueues ==
   ASSUME Typed, PromiseInv, NEW r \in Requests, EnqueueNext(r)
   PROVE  PromiseInv'
<1> DEFINE n == [task |-> First(req[r].todo), inc |-> req[r].inc, by |-> r]
<1>1. PICK t : /\ Goes(r, t) /\ t.phase = "fan_out"
               /\ t.todo = req[r].todo \ {First(req[r].todo)}
  BY EnqueueEffect
<1>2. /\ queued' = queued \cup {n} /\ UNCHANGED <<terminal, outages>>
      /\ req[r].phase = "fan_out"
  BY DEF EnqueueNext, database, bounds
<1>3. CapturesDue(req[r], r) /\ WeatherDue(req[r])
  BY DEF PromiseInv
<1>4. CapturesDue(t, r)'
  <2> SUFFICES ASSUME ~t.started, NEW x \in CaptureTasks, x \notin t.todo
               PROVE  [task |-> x, inc |-> t.inc, by |-> r] \in queued'
    BY DEF CapturesDue
  <2>1. x \in req[r].todo \/ [task |-> x, inc |-> t.inc, by |-> r] \in queued
    BY <1>1, <1>2, <1>3 DEF CapturesDue, Goes, Delivering
  <2> QED
    BY <1>1, <1>2, <2>1 DEF Goes
<1>5. WeatherDue(t)'
  <2> SUFFICES ASSUME outages = 0, NEW x \in WeatherTasks, x \notin t.todo
               PROVE  Queued(x, t.inc)'
    BY <1>2 DEF WeatherDue
  <2>1. x \in req[r].todo \/ Queued(x, t.inc)
    BY <1>1, <1>2, <1>3 DEF WeatherDue, Goes, Delivering
  <2>2. CASE x = First(req[r].todo)
    <3>1. n \in queued' /\ n.task = x /\ n.inc = t.inc
      BY <1>1, <1>2, <2>2 DEF Goes
    <3> HIDE DEF n
    <3> QED
      BY <3>1 DEF Queued
  <2>3. CASE x # First(req[r].todo)
    BY <1>1, <1>2, <2>1, <2>3 DEF Queued
  <2> QED
    BY <2>2, <2>3
<1> QED
  BY <1>1, <1>2, <1>4, <1>5, PromiseWhenItMovesOn DEF Goes, Serves

LEMMA PromiseWhenItFails ==
   ASSUME Typed, PromiseInv, NEW r \in Requests, EnqueueFails(r)
   PROVE  PromiseInv'
<1>1. PICK t : /\ Goes(r, t)
               /\ \/ /\ First(req[r].todo) \in WeatherTasks /\ t.phase = "fan_out"
                     /\ t.todo = req[r].todo \ {First(req[r].todo)}
                  \/ t.phase = "failed"
  BY FailEffect
<1>2. /\ UNCHANGED <<queued, terminal>> /\ outages' = outages + 1
      /\ req[r].phase = "fan_out"
  BY DEF EnqueueFails, database
<1>3. CapturesDue(req[r], r)
  BY DEF PromiseInv
<1>4. WeatherTasks \cap CaptureTasks = {}
  BY InitiationAssumption DEF CaptureTasks
<1>5. CapturesDue(t, r)'
  BY <1>1, <1>2, <1>3, <1>4 DEF CapturesDue, Goes, Delivering
<1>6. outages' # 0
  BY <1>2 DEF Typed, AppTyped
<1>7. WeatherDue(t)'
  BY <1>6 DEF WeatherDue
<1> QED
  BY <1>1, <1>2, <1>5, <1>6, <1>7, PromiseWhenItMovesOn DEF Goes, Serves

LEMMA PromiseWhenItAnswers ==
   ASSUME Typed, PromiseInv, NEW r \in Requests, Answer(r)
   PROVE  PromiseInv'
<1>1. Goto(r, "answered") /\ "answered" \in Over
  BY DEF Answer, Over
<1>2. PICK t : Goes(r, t) /\ t.phase = "answered" /\ t.todo = req[r].todo
  BY <1>1, PhaseEffect
<1>3. UNCHANGED <<queued, terminal, outages>> /\ req[r].phase = "fan_out"
  BY DEF Answer, database, bounds
<1>4. CapturesDue(req[r], r) /\ WeatherDue(req[r])
  BY DEF PromiseInv
<1>5. CapturesDue(t, r)'
  BY <1>2, <1>3, <1>4 DEF CapturesDue, Goes, Delivering
<1>6. WeatherDue(t)'
  BY <1>2, <1>3, <1>4 DEF WeatherDue, Goes, Delivering, Queued
<1> QED
  BY <1>2, <1>3, <1>5, <1>6, PromiseWhenItMovesOn DEF Goes, Serves

LEMMA InitPromises == Init => PromiseInv
BY DEF Init, Idle, PromiseInv, CapturesDue, WeatherDue, Delivering

LEMMA NextPromises == Typed /\ PromiseInv /\ [Next]_vars => PromiseInv'
<1> SUFFICES ASSUME Typed, PromiseInv, [Next]_vars PROVE PromiseInv'
  OBVIOUS
<1>1. ASSUME NEW d \in Drivers, NEW r \in Requests, NEW v \in InReach[d], Begin(d, v, r)
      PROVE  PromiseInv'
  <2>1. PICK t : Becomes(r, t) /\ t.phase = "sent"
    BY <1>1, BeginEffect
  <2>2. UNCHANGED <<queued, terminal, outages>> /\ t.phase \notin Delivering
    BY <1>1, <2>1 DEF Begin, database, bounds, Delivering
  <2> QED
    BY <2>1, <2>2, PromiseOutside
<1>2. ASSUME NEW d \in Drivers, Wait(d) \/ AskAgain(d) PROVE PromiseInv'
  <2>1. UNCHANGED <<queued, terminal, req, outages>>
    BY <1>2 DEF Wait, AskAgain, GotAnswer, GotError, LoseTrack, Recovered, NotRecovered,
       database, bounds
  <2> QED
    BY <2>1, PromiseElsewhere
<1>3. ASSUME NEW r \in Requests, Arrive(r) PROVE PromiseInv'
  <2>1. PICK t : Becomes(r, t) /\ t.phase = "by_driver"
    BY <1>3, ArriveEffect
  <2>2. UNCHANGED <<queued, terminal, outages>> /\ t.phase \notin Delivering
    BY <1>3, <2>1 DEF Arrive, database, bounds, Delivering
  <2> QED
    BY <2>1, <2>2, PromiseOutside
<1>4. ASSUME NEW r \in Requests, NEW ph \in {"refused", "died"}, Goto(r, ph),
             UNCHANGED <<queued, terminal, outages>>
      PROVE  PromiseInv'
  <2>1. ph \in Serving \cup Over
    BY DEF Over
  <2>2. PICK t : Goes(r, t) /\ t.phase = ph
    BY <1>4, <2>1, PhaseEffect
  <2>3. Becomes(r, t) /\ t.phase \notin Delivering
    BY <2>2 DEF Delivering, Goes, Serves
  <2> QED
    BY <1>4, <2>3, PromiseOutside
<1>5. ASSUME NEW r \in Requests, Refuse(r) \/ Die(r) PROVE PromiseInv'
  BY <1>4, <1>5 DEF Refuse, Die, database, bounds
<1>6. ASSUME NEW r \in Requests, NEW found \in SUBSET (1..Len(incidents)),
             NEW next \in {"by_vehicle", "create"}, TakeLatest(r, found, next)
      PROVE  PromiseInv'
  <2>1. next \in Serving
    BY DEF Serving
  <2>2. PICK t : \/ Goes(r, t) /\ t.phase = next
                 \/ Serves(r, t) /\ t.phase = "check" /\ t.inc \in 1..Len(incidents)
    BY <1>6, <2>1, LookEffect
  <2>3. Becomes(r, t) /\ t.phase \notin Delivering
    BY <2>2 DEF Delivering, Goes, Serves
  <2>4. UNCHANGED <<queued, terminal, outages>>
    BY <1>6 DEF TakeLatest, database, bounds
  <2> QED
    BY <2>3, <2>4, PromiseOutside
<1>7. ASSUME NEW r \in Requests, FindByDriver(r) PROVE PromiseInv'
  <2>1. OwnedBy(req[r].driver) \in SUBSET (1..Len(incidents))
    BY LenProperties DEF OwnedBy, Typed, RowsTyped
  <2> QED
    BY <1>6, <1>7, <2>1 DEF FindByDriver
<1>8. ASSUME NEW r \in Requests, FindByVehicle(r) PROVE PromiseInv'
  <2>1. {i \in DOMAIN incidents : incidents[i].vehicle = req[r].vehicle}
           \in SUBSET (1..Len(incidents))
    BY LenProperties DEF Typed, RowsTyped
  <2> QED
    BY <1>6, <1>8, <2>1 DEF FindByVehicle
<1>9. ASSUME NEW r \in Requests, CreateIncident(r) PROVE PromiseInv'
  <2>1. PICK t : Serves(r, t) /\ t.phase = "check"
    BY <1>9, CreateEffect
  <2>2. UNCHANGED <<queued, terminal, outages>> /\ t.phase \notin Delivering
    BY <1>9, <2>1 DEF CreateIncident, bounds, Delivering
  <2> QED
    BY <2>1, <2>2, PromiseOutside DEF Serves
<1>10. ASSUME NEW q \in queued, WeatherCaptured(q) PROVE PromiseInv'
  <2>1. /\ UNCHANGED <<queued, req, outages>>
        /\ terminal' = terminal \cup {<<q.inc, q.task>>}
    BY <1>10 DEF WeatherCaptured, bounds
  <2>2. \A x \in Requests : CapturesDue(req[x], x)' /\ WeatherDue(req[x])'
    BY <2>1 DEF PromiseInv, CapturesDue, WeatherDue, Queued
  <2>3. \A p \in terminal' : Queued(p[2], p[1])'
    BY <2>1 DEF PromiseInv, Queued
  <2> QED
    BY <2>2, <2>3 DEF PromiseInv
<1>11. ASSUME UNCHANGED vars PROVE PromiseInv'
  BY <1>11, PromiseElsewhere DEF vars
<1> QED
  BY <1>1, <1>2, <1>3, <1>5, <1>7, <1>8, <1>9, <1>10, <1>11, PromiseWhenItChecks,
     PromiseWhenItStarts, PromiseWhenItQueues, PromiseWhenItFails, PromiseWhenItAnswers
     DEF Next, Admit, Serve
-----------------------------------------------------------------------------
(* The theorems. *)

InitiationInv == Typed /\ RaceInv /\ PromiseInv

LEMMA InitiationInvHolds == Spec => []InitiationInv
<1>1. Init => InitiationInv
  BY InitTyped, InitRaces, InitPromises DEF InitiationInv
<1>2. InitiationInv /\ [Next]_vars => InitiationInv'
  BY NextTyped, NextRaces, NextPromises DEF InitiationInv
<1> QED
  BY <1>1, <1>2, PTL DEF Spec

\* A crash gives one incident and one start of the protocol, however many
\* times the drivers' apps retry and however late their requests arrive, unless
\* the requests were in service together: initiate_driver_incident looks for
\* the driver's incident, the vehicle's and the protocol event before it
\* writes, and only a request served beside it can write in between.
THEOREM StartsOnce == Spec => []StartsOnceUnlessRaced
<1>1. InitiationInv => StartsOnceUnlessRaced
  BY TypedMeansTypeOK DEF InitiationInv, RaceInv, StartsOnceUnlessRaced
<1> QED
  BY <1>1, InitiationInvHolds, PTL

\* What an answer of initiate_incident says was begun was queued: the captures
\* and the notification by the request that started the protocol, the weather
\* tasks by whichever request, unless the broker refused.
THEOREM AnswersHold == Spec => []AnswersAreTrue
<1>1. InitiationInv => AnswersAreTrue
  <2> SUFFICES ASSUME InitiationInv PROVE AnswersAreTrue
    OBVIOUS
  <2>1. \A r \in Requests : req[r].phase = "answered" => req[r].todo = {}
    BY RequestRecord DEF InitiationInv, RequestFits
  <2>2. StartedAnswerIsComplete
    BY <2>1 DEF InitiationInv, PromiseInv, CapturesDue, Delivering, StartedAnswerIsComplete
  <2>3. AnsweredHasWeather
    BY <2>1 DEF InitiationInv, PromiseInv, WeatherDue, Queued, Delivering, AnsweredHasWeather
  <2> QED
    BY <2>2, <2>3 DEF AnswersAreTrue
<1> QED
  BY <1>1, InitiationInvHolds, PTL

=============================================================================
