-------------------------- MODULE WeatherSnapshots --------------------------
(***************************************************************************)
(* The weather of one incident: two Celery tasks that the driver's         *)
(* initiation queues, and queues again while their outcome is missing      *)
(* (api/routes_driver.py, initiate_incident; tasks/evidence_tasks.py).     *)
(* The one reads the weather and appends events                            *)
(* (services/weather_snapshot_service.py); the other renders a map, stores *)
(* it and records it, all under a lock on the incident's row               *)
(* (services/weather/map_snapshot_service.py).                             *)
(*                                                                         *)
(* An action is a commit with the reads before it, an answer from outside, *)
(* or an object written.  An event refers to its incident, so that no one  *)
(* else appends an event for the incident while a map's lock is held.      *)
(***************************************************************************)
EXTENDS Naturals, Sequences, FiniteSets

CONSTANTS
    MaxAsks,    \* bound: the initiation and its repetitions
    MaxMishaps  \* bound: workers lost, and errors

ASSUME WeatherAssumption == MaxAsks \in Nat \ {0} /\ MaxMishaps \in Nat

VARIABLES
    initiation, \* the request of the driver that is served, and what it still has to queue
    setting,    \* whether the app sent its position and a window
    weather,    \* per task: the step of its run
    lock,       \* the task that holds the lock on the incident's row
    requested,  \* per kind: the requested events committed
    outcomes,   \* per kind: the events captured and failed, in their order
    mapRows,    \* the tasks with a committed artifact
    mapObjects, \* the tasks with a map in the vault
    unlocked,   \* history: tasks that had to report a failure without the lock
    met,        \* history: two snapshot tasks ran at once
    mishaps     \* workers lost and errors so far

weatherEvents == <<requested, outcomes>>
mapStore == <<mapRows, mapObjects>>
weatherVars == <<initiation, setting, weather, lock, weatherEvents, mapStore, unlocked, met, mishaps>>

Kinds == {"snapshot", "map"}
WeatherTasks == Kinds \X (1..MaxAsks)
NoTask == <<"none", 0>>

WeatherRunning == {"locate", "request", "refuse", "ask", "store", "tell", "fail"}

\* No request has come yet.
WeatherInit ==
    /\ initiation = [serves |-> 0, due |-> {}]
    /\ setting \in [positioned : BOOLEAN, window : BOOLEAN]
    /\ weather = [t \in WeatherTasks |-> "none"]
    /\ lock = NoTask
    /\ requested = [k \in Kinds |-> 0]
    /\ outcomes = [k \in Kinds |-> <<>>]
    /\ mapRows = {} /\ mapObjects = {}
    /\ unlocked = {} /\ met = FALSE /\ mishaps = 0

-----------------------------------------------------------------------------
(* The initiation                                                          *)

Missing == {k \in Kinds : outcomes[k] = <<>>}

\* Everything is due the first time, then what has no outcome yet.
Initiate ==
    /\ initiation.serves < MaxAsks /\ initiation.due = {}
    /\ initiation' = [serves |-> initiation.serves + 1,
                      due |-> IF initiation.serves = 0 THEN Kinds ELSE Missing]
    /\ UNCHANGED <<setting, weather, lock, weatherEvents, mapStore, unlocked, met, mishaps>>

Queue(k) ==
    /\ k \in initiation.due
    /\ initiation' = [initiation EXCEPT !.due = @ \ {k}]
    /\ weather' = [weather EXCEPT ![<<k, initiation.serves>>] = "queued"]
    /\ UNCHANGED <<setting, lock, weatherEvents, mapStore, unlocked, met, mishaps>>

-----------------------------------------------------------------------------
(* Both tasks                                                              *)

WeatherAt(t, step) == weather[t] = step
WeatherTo(t, step) == weather' = [weather EXCEPT ![t] = step]
Kind(t) == t[1]

\* The end of a transaction gives the lock back.
Unlock(t) == lock' = IF lock = t THEN NoTask ELSE lock
MayAppend(t) == lock \in {NoTask, t}

\* The app's position if it sent one, else what the provider says of the vehicle:
\* where it is, where it was, or nothing.
Located(found) == setting.positioned \/ found
MayRaise == ~setting.positioned

Outcome(t, what) == outcomes' = [outcomes EXCEPT ![Kind(t)] = Append(@, what)]

-----------------------------------------------------------------------------
(* The snapshot                                                            *)

Look(t) ==
    /\ Kind(t) = "snapshot" /\ WeatherAt(t, "queued")
    /\ WeatherTo(t, IF outcomes[Kind(t)] = <<>> THEN "locate" ELSE "over")
    /\ met' = (met \/ \E u \in WeatherTasks \ {t} : Kind(u) = Kind(t) /\ weather[u] \in WeatherRunning)
    /\ UNCHANGED <<initiation, setting, lock, weatherEvents, mapStore, unlocked, mishaps>>

Locate(t) ==
    /\ Kind(t) = "snapshot" /\ WeatherAt(t, "locate")
    /\ \/ MayRaise /\ WeatherTo(t, "fail")
       \/ \E found \in BOOLEAN : WeatherTo(t, IF Located(found) /\ setting.window THEN "request" ELSE "refuse")
    /\ UNCHANGED <<initiation, setting, lock, weatherEvents, mapStore, unlocked, met, mishaps>>

\* Mutant of Request: without a place or a window the task ends quietly.
RequestOrEnd(t) ==
    /\ weather[t] \in {"request", "refuse"} /\ MayAppend(t)
    /\ requested' = [requested EXCEPT ![Kind(t)] = @ + 1]
    /\ WeatherTo(t, IF WeatherAt(t, "request") THEN "ask" ELSE "over")
    /\ UNCHANGED <<initiation, setting, lock, outcomes, mapStore, unlocked, met, mishaps>>

\* The event that tells what is asked for; without a place or a window nothing is.
Request(t) ==
    /\ weather[t] \in {"request", "refuse"} /\ MayAppend(t)
    /\ requested' = [requested EXCEPT ![Kind(t)] = @ + 1]
    /\ WeatherTo(t, IF WeatherAt(t, "request") THEN "ask" ELSE "fail")
    /\ UNCHANGED <<initiation, setting, lock, outcomes, mapStore, unlocked, met, mishaps>>

AskWeather(t) ==
    /\ Kind(t) = "snapshot" /\ WeatherAt(t, "ask")
    /\ \E step \in {"tell", "fail"} : WeatherTo(t, step)
    /\ UNCHANGED <<initiation, setting, lock, weatherEvents, mapStore, unlocked, met, mishaps>>

TellWeather(t) ==
    /\ Kind(t) = "snapshot" /\ WeatherAt(t, "tell") /\ MayAppend(t)
    /\ Outcome(t, "captured")
    /\ WeatherTo(t, "over")
    /\ UNCHANGED <<initiation, setting, lock, requested, mapStore, unlocked, met, mishaps>>

-----------------------------------------------------------------------------
(* The map                                                                 *)

\* Mutant of Acquire: the look comes before the lock, not under it.
AcquireUnseen(t) ==
    /\ Kind(t) = "map" /\ WeatherAt(t, "queued")
    /\ lock = NoTask
    /\ lock' = t
    /\ WeatherTo(t, "locate")
    /\ UNCHANGED <<initiation, setting, weatherEvents, mapStore, unlocked, met, mishaps>>

\* The lock, and the look under it.
Acquire(t) ==
    /\ Kind(t) = "map" /\ WeatherAt(t, "queued")
    /\ lock = NoTask
    /\ IF outcomes["map"] = <<>> THEN lock' = t /\ WeatherTo(t, "locate")
                                 ELSE UNCHANGED lock /\ WeatherTo(t, "over")
    /\ UNCHANGED <<initiation, setting, weatherEvents, mapStore, unlocked, met, mishaps>>

\* An error of the provider is reported after a rollback, which gives the lock
\* away; an unknown place is reported under it.
LocateMap(t) ==
    /\ Kind(t) = "map" /\ WeatherAt(t, "locate")
    /\ \/ /\ MayRaise /\ WeatherTo(t, "fail")
          /\ Unlock(t) /\ unlocked' = unlocked \cup {t}
       \/ /\ \E found \in BOOLEAN : WeatherTo(t, IF Located(found) THEN "ask" ELSE "fail")
          /\ UNCHANGED <<lock, unlocked>>
    /\ UNCHANGED <<initiation, setting, weatherEvents, mapStore, met, mishaps>>

\* The base image must be had, the radar's overlay need not.
RenderMap(t) ==
    /\ Kind(t) = "map" /\ WeatherAt(t, "ask")
    /\ \E step \in {"store", "fail"} : WeatherTo(t, step)
    /\ UNCHANGED <<initiation, setting, lock, weatherEvents, mapStore, unlocked, met, mishaps>>

\* The row is flushed before the object is written, under its own new key, and
\* taken back when the vault refuses.
StoreMap(t) ==
    /\ Kind(t) = "map" /\ WeatherAt(t, "store")
    /\ \/ mapObjects' = mapObjects \cup {t} /\ WeatherTo(t, "tell")
       \/ UNCHANGED mapObjects /\ WeatherTo(t, "fail")
    /\ UNCHANGED <<initiation, setting, lock, weatherEvents, mapRows, unlocked, met, mishaps>>

\* Row and events are one commit.
TellMap(t) ==
    /\ Kind(t) = "map" /\ WeatherAt(t, "tell")
    /\ mapRows' = mapRows \cup {t}
    /\ requested' = [requested EXCEPT !["map"] = @ + 1]
    /\ Outcome(t, "captured")
    /\ Unlock(t)
    /\ WeatherTo(t, "over")
    /\ UNCHANGED <<initiation, setting, mapObjects, unlocked, met, mishaps>>

-----------------------------------------------------------------------------
(* Failures                                                                *)

\* The failure is an outcome too.  A map's carries the requested event with it
\* unless the transaction was rolled back.
TellFailure(t) ==
    /\ WeatherAt(t, "fail") /\ MayAppend(t)
    /\ requested' = IF lock = t THEN [requested EXCEPT !["map"] = @ + 1] ELSE requested
    /\ Outcome(t, "failed")
    /\ Unlock(t)
    /\ WeatherTo(t, "over")
    /\ UNCHANGED <<initiation, setting, mapStore, unlocked, met, mishaps>>

Mishap == mishaps < MaxMishaps /\ mishaps' = mishaps + 1

\* The broker refuses the message; the driver's answer does not tell.
QueueRefused(k) ==
    /\ Mishap
    /\ k \in initiation.due
    /\ initiation' = [initiation EXCEPT !.due = @ \ {k}]
    /\ UNCHANGED <<setting, weather, lock, weatherEvents, mapStore, unlocked, met>>

\* The lock cannot be had, for instance within the time limit: that is reported
\* without a look.
LockRefused(t) ==
    /\ Mishap
    /\ Kind(t) = "map" /\ WeatherAt(t, "queued")
    /\ WeatherTo(t, "fail")
    /\ unlocked' = unlocked \cup {t}
    /\ UNCHANGED <<initiation, setting, lock, weatherEvents, mapStore, met>>

\* The database fails a read or a commit, and with it the report of the failure:
\* nothing is recorded, and the task is not tried again.
WeatherBreaks(t) ==
    /\ Mishap
    /\ weather[t] \in {"queued", "locate", "request", "refuse", "store", "tell", "fail"}
    /\ WeatherTo(t, "dead")
    /\ Unlock(t)
    /\ UNCHANGED <<initiation, setting, weatherEvents, mapStore, unlocked, met>>

\* The worker is lost; its transaction is rolled back and the message comes again.
WeatherLost(t) ==
    /\ Mishap
    /\ weather[t] \in WeatherRunning
    /\ WeatherTo(t, "queued")
    /\ Unlock(t)
    /\ UNCHANGED <<initiation, setting, weatherEvents, mapStore, unlocked, met>>

-----------------------------------------------------------------------------
WeatherWork(t) ==
    \/ Look(t) \/ Locate(t) \/ Request(t) \/ AskWeather(t) \/ TellWeather(t)
    \/ Acquire(t) \/ LocateMap(t) \/ RenderMap(t) \/ StoreMap(t) \/ TellMap(t)
    \/ TellFailure(t)

WeatherNext ==
    \/ Initiate
    \/ \E k \in Kinds : Queue(k) \/ QueueRefused(k)
    \/ \E t \in WeatherTasks :
          WeatherWork(t) \/ LockRefused(t) \/ WeatherBreaks(t) \/ WeatherLost(t)

\* Workers serve the queue and a request that has come is carried on.
WeatherSpec ==
    /\ WeatherInit /\ [][WeatherNext]_weatherVars
    /\ \A t \in WeatherTasks : WF_weatherVars(WeatherWork(t))
    /\ \A k \in Kinds : WF_weatherVars(Queue(k))

-----------------------------------------------------------------------------
(* Properties                                                              *)

\* The types; the lock is held by a map task that is at work.
WeatherTypeOK ==
    /\ weather \in [WeatherTasks -> {"none", "queued", "over", "dead"} \cup WeatherRunning]
    /\ lock \in WeatherTasks \cup {NoTask}
    /\ lock # NoTask => Kind(lock) = "map" /\ weather[lock] \in WeatherRunning
    /\ \A k \in Kinds : outcomes[k] \in Seq({"captured", "failed"}) /\ requested[k] \in Nat
    /\ mapRows \cup mapObjects \cup unlocked \subseteq WeatherTasks

CountOutcomes(k, what) == Cardinality({at \in DOMAIN outcomes[k] : outcomes[k][at] = what})

\* A map that is reported as captured has its row, and the row its object; and
\* whatever was captured was asked for before.
MapIsKept ==
    /\ CountOutcomes("map", "captured") = Cardinality(mapRows)
    /\ mapRows \subseteq mapObjects
    /\ \A k \in Kinds : CountOutcomes(k, "captured") =< requested[k]

\* An incident has one outcome of a kind.  The lock keeps a second map away, but
\* not the failure that a run had to report without it; nothing keeps two
\* snapshot tasks apart that run at once.
OneOutcome ==
    /\ CountOutcomes("map", "captured") =< 1
    /\ Len(outcomes["map"]) =< 1 + Cardinality(unlocked)
    /\ Len(outcomes["snapshot"]) =< 1 \/ met

\* What the events tell of the weather is what was captured, once.
WeatherIsHonest == WeatherTypeOK /\ MapIsKept /\ OneOutcome

\* Every request of the driver leaves the incident with an outcome of both kinds,
\* and every task ends, unless a worker was lost, a commit failed or the broker
\* refused; in particular nobody waits for the lock for ever.
WeatherEnds ==
    /\ \A k \in Kinds : (k \in initiation.due) ~> (outcomes[k] # <<>> \/ mishaps > 0)
    /\ \A t \in WeatherTasks : WeatherAt(t, "queued") ~> weather[t] \in {"over", "dead"}
=============================================================================
