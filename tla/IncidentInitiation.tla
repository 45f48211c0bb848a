------------------------- MODULE IncidentInitiation -------------------------
(***************************************************************************)
(* How a driver's crash report becomes an incident: the driver app's start *)
(* screen (driver-app/src/screens/IncidentStartLoadingScreen.tsx), which   *)
(* gives a request twelve seconds and then asks whether it took effect,    *)
(* and the API's POST /driver/incidents/initiate                           *)
(* (backend/app/api/routes_driver.py, services/incident_workflow_service). *)
(*                                                                         *)
(* A request is served by several statements, each reading the committed   *)
(* rows as they are at that moment (READ COMMITTED, no lock, no unique     *)
(* index), so an action is one statement or one commit, and the requests   *)
(* interleave between them.  The app sends no Idempotency-Key; with a key, *)
(* a match (lines 132-148) implies the test of lines 150-159 that follows  *)
(* it, so one read stands for both.                                        *)
(*                                                                         *)
(* No code of the product closes an incident: every incident stays active. *)
(***************************************************************************)
EXTENDS Integers, FiniteSets, Sequences

CONSTANTS
    Drivers,        \* drivers of one organisation
    Vehicles,       \* its vehicles
    InReach,        \* the vehicles each driver is assigned to or can scan
    WeatherTasks,   \* the weather captures queued, "weather" and "weather_map"
    MaxRequests,    \* bound: initiation requests the apps send
    MaxFaults       \* bound: API processes lost while serving, and
                    \* publications the broker refuses

ASSUME InitiationAssumption ==
    /\ WeatherTasks \subseteq {"weather", "weather_map"}
    /\ InReach \in [Drivers -> SUBSET Vehicles]
    /\ MaxRequests \in Nat
    /\ MaxFaults \in Nat

VARIABLES
    incidents,      \* committed incident rows, in the order of their commits
    events,         \* committed incident_protocol_initiated/lockdown pairs
    queued,         \* tasks published to the broker
    terminal,       \* <<incident, weather task>> whose final event is written
    req,            \* the requests
    alongside,      \* history: the requests in service when one arrived
    app,            \* each driver's start screen
    crashes, outages \* faults so far

database == <<incidents, events, terminal>>
bounds == <<crashes, outages>>
vars == <<incidents, events, queued, terminal, req, alongside, app, crashes, outages>>

Requests == 1..MaxRequests
None == 0                               \* no incident, no request

CaptureTasks == {"dashcam", "telematics", "notify"}
FanOut == WeatherTasks \cup CaptureTasks

\* The order of the publications, and the next one of those that are due.
Order == <<"weather", "weather_map", "dashcam", "telematics", "notify">>

First(due) ==
    Order[CHOOSE n \in DOMAIN Order :
            /\ Order[n] \in due
            /\ \A m \in DOMAIN Order : Order[m] \in due => n =< m]

\* Where a request is: on its way, in service (one phase per statement), over.
Serving == {"by_driver", "by_vehicle", "create", "check", "write", "fan_out"}
Over == {"answered", "refused", "failed", "died"}

Idle == [phase |-> "unsent", driver |-> None, vehicle |-> None, at |-> 0,
         inc |-> None, started |-> FALSE, todo |-> {}]

Init ==
    /\ incidents = <<>>
    /\ events = {}
    /\ queued = {}
    /\ terminal = {}
    /\ req = [r \in Requests |-> Idle]
    /\ alongside = [r \in Requests |-> {}]
    /\ app = [d \in Drivers |-> [screen |-> "home", req |-> None]]
    /\ crashes = 0
    /\ outages = 0

-----------------------------------------------------------------------------
(* The driver app                                                          *)

\* The driver starts the protocol, from the home screen (resuming or
\* discarding what was there) or with "Retry startup".
Begin(d, v, r) ==
    /\ app[d].screen \notin {"waiting", "recovering"}
    /\ req[r].phase = "unsent"
    /\ \A q \in Requests : q < r => req[q].phase # "unsent"
    /\ req' = [req EXCEPT ![r] = [Idle EXCEPT !.phase = "sent", !.driver = d, !.vehicle = v]]
    /\ app' = [app EXCEPT ![d] = [screen |-> "waiting", req |-> r]]
    /\ UNCHANGED <<database, queued, alongside, bounds>>

\* The answer arrives within the timeout.
GotAnswer(d) ==
    /\ app[d].screen = "waiting"
    /\ req[app[d].req].phase = "answered"
    /\ app' = [app EXCEPT ![d].screen = "instructions"]
    /\ UNCHANGED <<database, queued, req, alongside, bounds>>

\* An error answer, 4xx or 500, is shown with the retry button.
GotError(d) ==
    /\ app[d].screen = "waiting"
    /\ req[app[d].req].phase \in {"refused", "failed"}
    /\ app' = [app EXCEPT ![d].screen = "error"]
    /\ UNCHANGED <<database, queued, req, alongside, bounds>>

\* Twelve seconds passed or the network failed: the request may still be on
\* its way, in service or answered.  The app asks for the active incident.
LoseTrack(d) ==
    /\ app[d].screen = "waiting"
    /\ app' = [app EXCEPT ![d].screen = "recovering"]
    /\ UNCHANGED <<database, queued, req, alongside, bounds>>

OwnedBy(d) == {i \in DOMAIN incidents : incidents[i].driver = d}

\* Mutant of Recovered: an answer without an incident will do.
RecoveredRegardless(d) ==
    /\ app[d].screen = "recovering"
    /\ app' = [app EXCEPT ![d].screen = "instructions"]
    /\ UNCHANGED <<database, queued, req, alongside, bounds>>

\* GET /driver/incidents/active found an incident: the app goes on with it.
Recovered(d) ==
    /\ app[d].screen = "recovering"
    /\ OwnedBy(d) # {}
    /\ app' = [app EXCEPT ![d].screen = "instructions"]
    /\ UNCHANGED <<database, queued, req, alongside, bounds>>

\* It found none, or failed too.  A killed app that restarts is here as well.
NotRecovered(d) ==
    /\ app[d].screen = "recovering"
    /\ app' = [app EXCEPT ![d].screen = "error"]
    /\ UNCHANGED <<database, queued, req, alongside, bounds>>

-----------------------------------------------------------------------------
(* The API, serving request r                                              *)

Goto(r, phase) == req' = [req EXCEPT ![r].phase = phase]

\* The request is admitted, its vehicle resolved from the QR token or the
\* driver's assignment, be it much later or never; its transaction begins, whose
\* start dates the rows it writes.
Arrive(r) ==
    /\ req[r].phase = "sent"
    /\ req' = [req EXCEPT ![r].phase = "by_driver",
                          ![r].at = Cardinality({q \in Requests : req[q].at > 0}) + 1]
    /\ alongside' = [alongside EXCEPT ![r] = {q \in Requests : req[q].phase \in Serving}]
    /\ UNCHANGED <<database, queued, app, bounds>>

\* 429, or 400/404 when no vehicle can be resolved.
Refuse(r) ==
    /\ req[r].phase = "sent"
    /\ Goto(r, "refused")
    /\ UNCHANGED <<database, queued, alongside, app, bounds>>

Latest(found) == CHOOSE i \in found : \A j \in found : incidents[j].at =< incidents[i].at

\* A read of the active incidents: take the latest found, or go on to next.
TakeLatest(r, found, next) ==
    /\ req' = [req EXCEPT ![r] =
                 IF found = {} THEN [@ EXCEPT !.phase = next]
                 ELSE [@ EXCEPT !.phase = "check", !.inc = Latest(found)]]
    /\ UNCHANGED <<database, queued, alongside, app, bounds>>

\* Mutant of FindByDriver: the vehicle's incidents are not looked up.
FindByDriverOnly(r) ==
    /\ req[r].phase = "by_driver"
    /\ TakeLatest(r, OwnedBy(req[r].driver), "create")

FindByDriver(r) ==
    /\ req[r].phase = "by_driver"
    /\ TakeLatest(r, OwnedBy(req[r].driver), "by_vehicle")

FindByVehicle(r) ==
    /\ req[r].phase = "by_vehicle"
    /\ TakeLatest(r, {i \in DOMAIN incidents : incidents[i].vehicle = req[r].vehicle}, "create")

CreateIncident(r) ==
    /\ req[r].phase = "create"
    /\ incidents' = Append(incidents, [driver |-> req[r].driver, vehicle |-> req[r].vehicle,
                                       at |-> req[r].at, by |-> r])
    /\ req' = [req EXCEPT ![r].phase = "check", ![r].inc = Len(incidents')]
    /\ UNCHANGED <<events, terminal, queued, alongside, app, bounds>>

StartedBy(i, d) == \E e \in events : e.inc = i /\ e.driver = d

NoWeatherYet(i) == {t \in WeatherTasks : <<i, t>> \notin terminal}

\* Has this driver's protocol started on the incident?  If so only the
\* weather tasks without a final event are due: that read follows this one,
\* which can no longer change, so the two are one step.
CheckStarted(r) ==
    /\ req[r].phase = "check"
    /\ req' = [req EXCEPT ![r] =
                 IF StartedBy(req[r].inc, req[r].driver)
                 THEN [@ EXCEPT !.phase = "fan_out", !.started = TRUE,
                                !.todo = NoWeatherYet(req[r].inc)]
                 ELSE [@ EXCEPT !.phase = "write"]]
    /\ UNCHANGED <<database, queued, alongside, app, bounds>>

\* The protocol and the lockdown event, in one commit; everything is due.
WriteEvents(r) ==
    /\ req[r].phase = "write"
    /\ events' = events \cup {[inc |-> req[r].inc, driver |-> req[r].driver, by |-> r]}
    /\ req' = [req EXCEPT ![r].phase = "fan_out", ![r].todo = FanOut]
    /\ UNCHANGED <<incidents, terminal, queued, alongside, app, bounds>>

EnqueueNext(r) ==
    /\ req[r].phase = "fan_out"
    /\ req[r].todo # {}
    /\ queued' = queued \cup {[task |-> First(req[r].todo), inc |-> req[r].inc, by |-> r]}
    /\ req' = [req EXCEPT ![r].todo = @ \ {First(@)}]
    /\ UNCHANGED <<database, alongside, app, bounds>>

\* Mutant of EnqueueFails: no failed publication fails the request.
EnqueueFailsQuietly(r) ==
    /\ req[r].phase = "fan_out"
    /\ req[r].todo # {}
    /\ crashes + outages < MaxFaults
    /\ outages' = outages + 1
    /\ req' = [req EXCEPT ![r].todo = @ \ {First(@)}]
    /\ UNCHANGED <<database, queued, alongside, app, crashes>>

\* The broker refuses: a weather task is skipped, the others fail the request.
EnqueueFails(r) ==
    /\ req[r].phase = "fan_out"
    /\ req[r].todo # {}
    /\ crashes + outages < MaxFaults
    /\ outages' = outages + 1
    /\ req' = [req EXCEPT ![r] =
                 IF First(req[r].todo) \in WeatherTasks
                 THEN [@ EXCEPT !.todo = req[r].todo \ {First(req[r].todo)}]
                 ELSE [@ EXCEPT !.phase = "failed"]]
    /\ UNCHANGED <<database, queued, alongside, app, crashes>>

\* 200, safety_notified true, capture_started unless it had started before.
Answer(r) ==
    /\ req[r].phase = "fan_out"
    /\ req[r].todo = {}
    /\ Goto(r, "answered")
    /\ UNCHANGED <<database, queued, alongside, app, bounds>>

\* The process serving r is lost; what it committed and published stays.
Die(r) ==
    /\ req[r].phase \in Serving
    /\ crashes + outages < MaxFaults
    /\ crashes' = crashes + 1
    /\ Goto(r, "died")
    /\ UNCHANGED <<database, queued, alongside, app, outages>>

\* A worker runs a weather task, which ends with its captured or failed event.
WeatherCaptured(q) ==
    /\ q.task \in WeatherTasks
    /\ <<q.inc, q.task>> \notin terminal
    /\ terminal' = terminal \cup {<<q.inc, q.task>>}
    /\ UNCHANGED <<incidents, events, queued, req, alongside, app, bounds>>

-----------------------------------------------------------------------------
Serve(r) ==
    \/ FindByDriver(r) \/ FindByVehicle(r) \/ CreateIncident(r)
    \/ CheckStarted(r) \/ WriteEvents(r) \/ EnqueueNext(r) \/ Answer(r)

Admit(r) == Arrive(r) \/ Refuse(r)

Wait(d) == GotAnswer(d) \/ GotError(d) \/ LoseTrack(d)

AskAgain(d) == Recovered(d) \/ NotRecovered(d)

Next ==
    \/ \E d \in Drivers, r \in Requests : \E v \in InReach[d] : Begin(d, v, r)
    \/ \E d \in Drivers : Wait(d) \/ AskAgain(d)
    \/ \E r \in Requests : Admit(r) \/ Serve(r) \/ EnqueueFails(r) \/ Die(r)
    \/ \E q \in queued : WeatherCaptured(q)

Spec == Init /\ [][Next]_vars

\* A process goes on serving, and the timer fires.  A request need never arrive,
\* and the read of the active incident, which has no time limit in the app,
\* need never end.
Fairness ==
    /\ \A r \in Requests : WF_vars(Serve(r))
    /\ \A d \in Drivers : WF_vars(Wait(d))

FairSpec == Spec /\ Fairness

-----------------------------------------------------------------------------
(* Properties                                                              *)

Incident == [driver : Drivers, vehicle : Vehicles, at : Requests, by : Requests]
Start == [inc : Nat \ {0}, driver : Drivers, by : Requests]
Task == [task : FanOut, inc : Nat \ {0}, by : Requests]
Request == [phase : {"unsent", "sent"} \cup Serving \cup Over,
            driver : Drivers \cup {None}, vehicle : Vehicles \cup {None},
            at : 0..MaxRequests, inc : Nat, started : BOOLEAN,
            todo : SUBSET FanOut]
Screen == {"home", "waiting", "recovering", "instructions", "error"}

\* The types of the rows, the requests and the screens; every request past
\* its lookup, and every event and task, names a committed incident.
TypeOK ==
    /\ incidents \in Seq(Incident)
    /\ events \subseteq Start
    /\ queued \subseteq Task
    /\ terminal \subseteq (DOMAIN incidents) \X WeatherTasks
    /\ req \in [Requests -> Request]
    /\ alongside \in [Requests -> SUBSET Requests]
    /\ app \in [Drivers -> [screen : Screen, req : 0..MaxRequests]]
    /\ crashes \in Nat /\ outages \in Nat
    /\ crashes + outages =< MaxFaults
    /\ \A r \in Requests :
          /\ req[r].phase \in {"check", "write", "fan_out", "answered"}
                => req[r].inc \in DOMAIN incidents
          /\ req[r].phase \notin {"unsent"} =>
                req[r].driver \in Drivers /\ req[r].vehicle \in Vehicles
    /\ \A e \in events \cup queued : e.inc \in DOMAIN incidents

Raced(q, r) == q \in alongside[r] \/ r \in alongside[q]

\* A driver, or a vehicle, gets a second active incident only when the two
\* requests that created them were in service together: a retry after a
\* request has ended, however it ended, reuses its incident.
OneIncidentUnlessRaced ==
    \A i, j \in DOMAIN incidents :
        /\ i # j
        /\ \/ incidents[i].driver = incidents[j].driver
           \/ incidents[i].vehicle = incidents[j].vehicle
        => Raced(incidents[i].by, incidents[j].by)

\* The protocol and lockdown events of a driver on an incident are written
\* twice only by two requests that were in service together.
OneStartUnlessRaced ==
    \A e, f \in events :
        (e # f /\ e.inc = f.inc /\ e.driver = f.driver) => Raced(e.by, f.by)

\* The answer capture_started is given only after both captures and the
\* notification were accepted by the broker.
StartedAnswerIsComplete ==
    \A r \in Requests : (req[r].phase = "answered" /\ ~req[r].started) =>
        \A t \in CaptureTasks : [task |-> t, inc |-> req[r].inc, by |-> r] \in queued

\* Unless the broker refused, an answered request leaves both weather tasks
\* queued or done for its incident, also when the request that started the
\* protocol died before queueing them.
AnsweredHasWeather ==
    outages = 0 =>
        \A r \in Requests : req[r].phase = "answered" =>
            \A t \in WeatherTasks : \E q \in queued : q.task = t /\ q.inc = req[r].inc

\* A crash gives one incident and one start of the protocol, but for requests
\* that were in service together.
StartsOnceUnlessRaced == TypeOK /\ OneIncidentUnlessRaced /\ OneStartUnlessRaced

\* What an answer says was begun was queued.
AnswersAreTrue == StartedAnswerIsComplete /\ AnsweredHasWeather

\* Only a recovery read that never ends keeps the start screen loading: a
\* driver whose reads end is shown the instructions or an error.
AppSettles ==
    \A d \in Drivers :
        []<>(app[d].screen # "recovering") =>
            <>[](app[d].screen \in {"home", "instructions", "error"})

Notified(d) == \E q \in queued : q.task = "notify" /\ req[q.by].driver = d

\* A driver who is shown the instructions, be it by an answer or by the
\* recovery after a timeout, has a notification queued sooner or later, when
\* no process died and no publication was refused.
InstructionsMeanNotified ==
    \A d \in Drivers :
        (app[d].screen = "instructions") ~> (Notified(d) \/ crashes > 0 \/ outages > 0)

\* The driver is led on, and what the instructions promise is under way.
DriverIsServed == AppSettles /\ InstructionsMeanNotified

=============================================================================
