-------------------------- MODULE ViolationHistory --------------------------
(***************************************************************************)
(* A driver's roadside inspections for the incidents of one carrier: the   *)
(* Celery task that pulls them from the authority, or takes the ones that  *)
(* a recent pull has cached, and matches them with the vehicles the driver *)
(* had (tasks/evidence_tasks.py, capture_driver_violation_history;         *)
(* db/repo/fmcsa_inspections.py), the nightly refresh of the cache         *)
(* (tasks/fmcsa_repoll_tasks.py), and the synchronisation that writes the  *)
(* vehicles' history meanwhile.                                            *)
(*                                                                         *)
(* How an incident gets its operation, its evidence request and its        *)
(* message is in IncidentCaptures, which composes this module.  An action  *)
(* is a commit with the reads before it, or an answer of the authority and *)
(* the commit after it.  The refresh for open incidents is left out: an    *)
(* operation does not name its evidence request, so that it queues         *)
(* nothing, and what it marks as stale is too old to be used as it is.     *)
(* All incidents have the same driver.                                     *)
(***************************************************************************)
EXTENDS TmsSync

CONSTANTS
    Cases,        \* the incidents
    Reports,      \* bound: numbers of inspection reports
    Driver,       \* the driver; the history's other rows have none
    Pulled,       \* bound, by sample: inspections the authority may answer with
    Known         \* bound, by sample: unit history rows that may be there already

VARIABLES
    scope,       \* the instance: incidents, syncs, sample, and how many refreshes
                 \* of the cache and lost workers there are at most
    task,        \* per incident: the message and the run that works on it
    capture,     \* per incident: status of the operation
    evidence,    \* per incident: status of the evidence request
    link,        \* per incident and report: the match that was stored
    told,        \* the incidents whose log says that the capture succeeded
    cache,       \* the newest snapshot that is neither stale nor too old, or 0
    pulls,       \* what the authority answered for each snapshot
    inspections, \* the inspections stored for the carrier
    warming,     \* messages of the nightly refresh under way
    stored,      \* history: the snapshots whose inspections were stored, in order
    basis,       \* history: what a run matched: snapshot, inspections, vehicles
    lostRuns,    \* history: the incidents whose run was lost, each with the snapshot
                 \* it had not stored yet, or 0
    refreshes, losses

historyVars == <<scope, task, capture, evidence, link, told, cache, pulls, inspections, warming, stored, basis,
                 lostRuns, refreshes, losses>>

Unmatched == [r \in Reports |-> NoMatch]
NoBasis ==
    [snapshot |-> 0, stored |-> <<>>, pending |-> {}, promised |-> {},
     inspections |-> [r \in Reports |-> Nil], units |-> {}]
TaskIdle == [pc |-> "queued", snapshot |-> 0]
TaskOver == [TaskIdle EXCEPT !.pc = "over"]

\* The incidents whose capture is queued already.
HistoryInit(asked) ==
    /\ task = [i \in Cases |-> IF i \in asked THEN TaskIdle ELSE [TaskIdle EXCEPT !.pc = "none"]]
    /\ capture = [i \in Cases |-> IF i \in asked THEN "queued" ELSE "none"]
    /\ evidence = [i \in Cases |-> IF i \in asked THEN "in_progress" ELSE "none"]
    /\ link = [i \in Cases |-> Unmatched]
    /\ told = {}
    /\ cache = 0 /\ pulls = <<>>
    /\ inspections = [r \in Reports |-> Nil]
    /\ warming = 0 /\ stored = <<>>
    /\ basis = [i \in Cases |-> NoBasis]
    /\ lostRuns = {} /\ refreshes = 0 /\ losses = 0

-----------------------------------------------------------------------------
(* The task                                                                *)

TaskAt(i, pc) == task[i].pc = pc
TaskTo(i, pc) == task' = [task EXCEPT ![i].pc = pc]

BeginCapture(i) ==
    /\ TaskAt(i, "queued")
    /\ capture' = [capture EXCEPT ![i] = "running"]
    /\ TaskTo(i, "cached")
    /\ UNCHANGED <<evidence, link, told, cache, pulls, inspections, warming, stored, basis, lostRuns, refreshes, losses>>

UseCache(i) ==
    /\ TaskAt(i, "cached")
    /\ cache # 0
    /\ task' = [task EXCEPT ![i] = [pc |-> "match", snapshot |-> cache]]
    /\ UNCHANGED <<capture, evidence, link, told, cache, pulls, inspections, warming, stored, basis,
                   lostRuns, refreshes, losses>>

\* The snapshot is committed as succeeded, in front of the inspections.
PullInspections(i) ==
    /\ TaskAt(i, "cached")
    /\ cache = 0
    /\ \E answer \in [Reports -> Pulled[scope.sample] \cup {Nil}] : pulls' = Append(pulls, answer)
    /\ cache' = Len(pulls) + 1
    /\ task' = [task EXCEPT ![i] = [pc |-> "store", snapshot |-> Len(pulls) + 1]]
    /\ UNCHANGED <<capture, evidence, link, told, inspections, warming, stored, basis, lostRuns, refreshes, losses>>

\* The authority does not answer: the request has failed, and so has the
\* operation; the task is not retried.
PullFails(i) ==
    /\ TaskAt(i, "cached")
    /\ cache = 0
    /\ TaskTo(i, "failed")
    /\ UNCHANGED <<capture, evidence, link, told, cache, pulls, inspections, warming, stored, basis,
                   lostRuns, refreshes, losses>>

\* Inserted or updated by the number of the report, in one commit.
StoreInspections(i) ==
    /\ TaskAt(i, "store")
    /\ inspections' = [r \in Reports |-> IF pulls[task[i].snapshot][r] = Nil THEN inspections[r]
                                         ELSE pulls[task[i].snapshot][r]]
    /\ stored' = Append(stored, task[i].snapshot)
    /\ TaskTo(i, "match")
    /\ UNCHANGED <<capture, evidence, link, told, cache, pulls, warming, basis, lostRuns, refreshes, losses>>

\* The vehicles of the driver, in no order.  Without any, the assignments stand
\* in, whose rows name no vehicle and match nothing.
DriversUnits == {units[u] : u \in {v \in UnitIds : units[v] # Nil /\ units[v].driver = Driver}}

\* The snapshots that a run has pulled and not stored yet.
Pending == {task[i].snapshot : i \in {j \in Cases : TaskAt(j, "store")}}

\* The incident's matches are replaced in one commit.
MatchInspections(i) ==
    /\ TaskAt(i, "match")
    /\ \E order \in SetToSeqs(DriversUnits) :
        link' = [link EXCEPT ![i] = [r \in Reports |-> IF inspections[r] = Nil THEN NoMatch
                                                       ELSE Attribute(inspections[r], order)]]
    /\ basis' = [basis EXCEPT ![i] =
            [snapshot |-> task[i].snapshot, stored |-> stored, pending |-> Pending,
             promised |-> {r \in Reports : pulls[task[i].snapshot][r] # Nil},
             inspections |-> inspections, units |-> DriversUnits]]
    /\ TaskTo(i, "tell")
    /\ UNCHANGED <<capture, evidence, told, cache, pulls, inspections, warming, stored, lostRuns, refreshes, losses>>

TellCaptured(i) ==
    /\ TaskAt(i, "tell")
    /\ told' = told \cup {i}
    /\ TaskTo(i, "fulfil")
    /\ UNCHANGED <<capture, evidence, link, cache, pulls, inspections, warming, stored, basis, lostRuns, refreshes, losses>>

SettleEvidence(i) ==
    /\ task[i].pc \in {"fulfil", "failed"}
    /\ evidence' = [evidence EXCEPT ![i] = IF TaskAt(i, "fulfil") THEN "fulfilled" ELSE "failed"]
    /\ TaskTo(i, IF TaskAt(i, "fulfil") THEN "succeed" ELSE "fail")
    /\ UNCHANGED <<capture, link, told, cache, pulls, inspections, warming, stored, basis, lostRuns, refreshes, losses>>

\* Mutant of EndCapture: a failure is returned without its status.
EndCaptureSilently(i) ==
    /\ task[i].pc \in {"succeed", "fail"}
    /\ capture' = [capture EXCEPT ![i] = IF TaskAt(i, "succeed") THEN "succeeded" ELSE @]
    /\ task' = [task EXCEPT ![i] = TaskOver]
    /\ UNCHANGED <<evidence, link, told, cache, pulls, inspections, warming, stored, basis, lostRuns, refreshes, losses>>

EndCapture(i) ==
    /\ task[i].pc \in {"succeed", "fail"}
    /\ capture' = [capture EXCEPT ![i] = IF TaskAt(i, "succeed") THEN "succeeded" ELSE "failed"]
    /\ task' = [task EXCEPT ![i] = TaskOver]
    /\ UNCHANGED <<evidence, link, told, cache, pulls, inspections, warming, stored, basis, lostRuns, refreshes, losses>>

\* The message is delivered again, or never: an exception outside of the pull is
\* a loss whose message is not taken up.
CaptureLost(i) ==
    /\ task[i].pc \notin {"none", "queued", "over"}
    /\ losses < scope.losses /\ losses' = losses + 1
    /\ task' = [task EXCEPT ![i] = TaskIdle]
    /\ lostRuns' = lostRuns \cup {<<i, IF TaskAt(i, "store") THEN task[i].snapshot ELSE 0>>}
    /\ UNCHANGED <<capture, evidence, link, told, cache, pulls, inspections, warming, stored, basis, refreshes>>

-----------------------------------------------------------------------------
(* The cache                                                               *)

\* The snapshots of the carrier are stale, and a message is queued that names an
\* operation which does not exist.
RefreshCarrier ==
    /\ refreshes < scope.refreshes /\ refreshes' = refreshes + 1
    /\ cache' = 0
    /\ warming' = warming + 1
    /\ UNCHANGED <<task, capture, evidence, link, told, pulls, inspections, stored, basis, lostRuns, losses>>

\* The task finds no operation and leaves the cache as it is.
WarmCache ==
    /\ warming > 0
    /\ warming' = warming - 1
    /\ UNCHANGED <<task, capture, evidence, link, told, cache, pulls, inspections, stored, basis, lostRuns, refreshes, losses>>

\* The cache's time to live is over.
CacheExpires ==
    /\ cache # 0 /\ cache' = 0
    /\ refreshes < scope.refreshes /\ refreshes' = refreshes + 1
    /\ UNCHANGED <<task, capture, evidence, link, told, pulls, inspections, warming, stored, basis, lostRuns, losses>>

Capture(i) ==
    \/ BeginCapture(i) \/ UseCache(i) \/ PullInspections(i) \/ PullFails(i) \/ StoreInspections(i)
    \/ MatchInspections(i) \/ TellCaptured(i) \/ SettleEvidence(i) \/ EndCapture(i)

CaptureNext ==
    \/ \E i \in Cases : Capture(i) \/ CaptureLost(i)
    \/ RefreshCarrier \/ WarmCache \/ CacheExpires

-----------------------------------------------------------------------------
(* Properties                                                              *)

HistoryTypeOK ==
    /\ \A i \in Cases : capture[i] \in {"none", "queued", "running", "succeeded", "failed"}
                        /\ evidence[i] \in {"none", "in_progress", "fulfilled", "failed"}
    /\ cache \in 0..Len(pulls)
    /\ \A u \in UnitIds : units[u] # Nil => Given(units[u].start)
    /\ connection \in [status : {"active", "error"}, synced : BOOLEAN]

\* How well a vehicle of the driver explains an inspection, and by which right.
Explains(inspection, unit) ==
    /\ WithinWindow(inspection, unit)
    /\ SameVin(inspection, unit) \/ (SamePlate(inspection, unit)
          /\ (StatesKnown(inspection, unit) => inspection.state = unit.state))

\* The brief shows an inspection only if a vehicle the driver had on that day
\* explains it with more than low confidence, and no match is stored for less
\* than the best of those vehicles.
BriefIsDefensible ==
    \A i \in Cases : \A r \in Reports :
        LET used == basis[i].inspections[r]
            able == {u \in basis[i].units : used # Nil /\ Explains(used, u)}
        IN IF able = {} THEN link[i][r] = NoMatch
           ELSE /\ \E u \in able : link[i][r] = Match(used, u)
                /\ \A u \in able : Rank(Match(used, u).confidence) =< Rank(link[i][r].confidence)

\* A run of this incident was lost, and one that had not stored its snapshot.
WasLost(i) == \E l \in lostRuns : l[1] = i
LeftUnstored(s) == \E l \in lostRuns : l[2] = s

\* A run that reported success had every inspection of the snapshot it relied on,
\* as that pull or one stored after it gave it: unless it found that very
\* snapshot in the cache while the run that had pulled it was about to store it,
\* or after that run was lost.
HistoryIsComplete ==
    \A i \in told :
        LET kept == basis[i].stored
            relied == basis[i].snapshot
        IN /\ Contains(kept, relied) \/ relied \in basis[i].pending \/ LeftUnstored(relied)
           /\ \A at \in DOMAIN kept : kept[at] = relied =>
                \A r \in basis[i].promised :
                    \E later \in at..Len(kept) : basis[i].inspections[r] = pulls[kept[later]][r]

\* An operation that succeeded has its event, its request and its matches; one
\* that failed has a failed request, and keeps an earlier run's matches only
\* when that run was lost.
CaptureTellsTruth ==
    \A i \in Cases :
        /\ capture[i] = "succeeded" => evidence[i] = "fulfilled" /\ i \in told /\ basis[i] # NoBasis
        /\ capture[i] = "failed" => evidence[i] = "failed" /\ (basis[i] = NoBasis \/ WasLost(i))

HistoryIsHonest == HistoryTypeOK /\ BriefIsDefensible /\ HistoryIsComplete /\ CaptureTellsTruth

=============================================================================
