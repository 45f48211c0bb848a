------------------------------- MODULE TmsSync -------------------------------
(***************************************************************************)
(* The synchronisation of an organisation's cache with its transport       *)
(* management system (services/tms_sync_service.py, tms_sync_tasks.py and  *)
(* the repositories' upsert_from_tms), for one connection that the nightly *)
(* task and the "Sync now" button may work on at once.                     *)
(*                                                                         *)
(* A connection's entities are selected one after the other.  The rows of  *)
(* an entity are upserted one by one, each with a look for the row and a   *)
(* commit of its own.  Every entity is treated alike; of the six, the      *)
(* model has the trailers, for all whose content does not matter here, and *)
(* the driver's unit history, which the inspections are matched with.      *)
(***************************************************************************)
EXTENDS InspectionMatch, FiniteSets

CONSTANTS
    Syncs,      \* the tasks that synchronise the connection
    UnitIds,    \* bound: external ids of the unit history's rows
    TrailerIds, \* bound: external ids of trailers
    Feed        \* the rows the system may answer with, a field being Nil if missing

\* A row always has the field of its start, if only as missing.
ASSUME FeedAssumption ==
    IsFiniteSet(UnitIds) /\ \A fields \in Feed : "start" \in DOMAIN fields

VARIABLES
    connection, \* its status and whether a sync has left its time
    sync,       \* the tasks
    trailers,   \* the cached trailers
    units,      \* the cached unit history
    broken      \* history: tasks that ended in a database error

tmsVars == <<connection, sync, trailers, units, broken>>

NotStarted == [pc |-> "queued", entity |-> "trailer", pending |-> {}, row |-> <<Nil, Nil>>,
               found |-> FALSE, failed |-> FALSE]

\* Rows of earlier syncs, and the syncs that take place.
TmsInit(started, known) ==
    /\ connection = [status |-> "active", synced |-> FALSE]
    /\ sync = [s \in Syncs |-> IF s \in started THEN NotStarted ELSE [NotStarted EXCEPT !.pc = "over"]]
    /\ trailers = {}
    /\ units \in known
    /\ broken = {}

SyncAt(s, pc) == sync[s].pc = pc
SyncOver(s) == sync' = [sync EXCEPT ![s] = [NotStarted EXCEPT !.pc = "over"]]

\* The secret names the source; without one the connection is in error.
ResolveSecret(s) ==
    /\ SyncAt(s, "queued")
    /\ \/ /\ sync' = [sync EXCEPT ![s].pc = "select"]
          /\ UNCHANGED connection
       \/ /\ connection' = [connection EXCEPT !.status = "error"]
          /\ SyncOver(s)
    /\ UNCHANGED <<trailers, units, broken>>

Present(entity, id) == IF entity = "trailer" THEN id \in trailers ELSE units[id] # Nil

NextEntity(s, failed) ==
    sync' = [sync EXCEPT ![s].pc = IF sync[s].entity = "trailer" THEN "select" ELSE "finish",
                         ![s].entity = "driver_unit_history", ![s].pending = {},
                         ![s].row = <<Nil, Nil>>, ![s].found = FALSE, ![s].failed = failed]

\* An entity that cannot be selected does not keep the others from it; rows
\* without a key are left out.
SelectRows(s) ==
    /\ SyncAt(s, "select")
    /\ \/ NextEntity(s, TRUE)
       \/ NextEntity(s, sync[s].failed)
       \/ \E rows \in IF sync[s].entity = "trailer" THEN {{<<t, Nil>> : t \in TrailerIds}}
                      ELSE {{<<u, f[u]>> : u \in UnitIds} : f \in [UnitIds -> Feed]} :
            /\ rows # {}
            /\ sync' = [sync EXCEPT ![s].pc = "look", ![s].pending = rows]
    /\ UNCHANGED <<connection, trailers, units, broken>>

LookUpRow(s) ==
    /\ SyncAt(s, "look")
    /\ \E row \in sync[s].pending :
        sync' = [sync EXCEPT ![s].pc = "write", ![s].row = row,
                             ![s].found = Present(sync[s].entity, row[1]),
                             ![s].pending = @ \ {row}]
    /\ UNCHANGED <<connection, trailers, units, broken>>

AfterRow(s) ==
    IF sync[s].pending = {} THEN NextEntity(s, sync[s].failed)
    ELSE sync' = [sync EXCEPT ![s].pc = "look", ![s].row = <<Nil, Nil>>, ![s].found = FALSE]

\* Fields that are missing leave the row's own, all but the confidence, which
\* is that of the fields the row came with.
Merged(id, fields) ==
    LET old == units[id]
        kept == [f \in DOMAIN fields |->
                    IF Given(fields[f]) \/ old = Nil THEN fields[f] ELSE old[f]]
        judged == [fields EXCEPT !.start = kept.start]
    IN [f \in DOMAIN fields \cup {"id", "confidence"} |->
            CASE f = "id" -> id
              [] f = "confidence" -> ClassifyConfidence(judged)
              [] OTHER -> kept[f]]

\* A row of the unit history that is new and has no start is skipped.
UpsertRow(s) ==
    /\ SyncAt(s, "write")
    /\ sync[s].found = Present(sync[s].entity, sync[s].row[1])
    /\ LET id == sync[s].row[1]
           fields == sync[s].row[2]
       IN IF sync[s].entity = "trailer"
          THEN trailers' = trailers \cup {id} /\ UNCHANGED units
          ELSE /\ units' = IF units[id] = Nil /\ ~Given(fields.start) THEN units
                           ELSE [units EXCEPT ![id] = Merged(id, fields)]
               /\ UNCHANGED trailers
    /\ AfterRow(s)
    /\ UNCHANGED <<connection, broken>>

\* The database refuses a row, if for no other reason than that the other task
\* has inserted it since it was looked for.  The session is not rolled back:
\* every later row is skipped, the last commit raises and the connection's
\* status stays what it was.
SyncBreaks(s) ==
    /\ SyncAt(s, "write")
    /\ broken' = broken \cup {s}
    /\ SyncOver(s)
    /\ UNCHANGED <<connection, trailers, units>>

FinishSync(s) ==
    /\ SyncAt(s, "finish")
    /\ connection' = [status |-> IF sync[s].failed THEN "error" ELSE "active", synced |-> TRUE]
    /\ SyncOver(s)
    /\ UNCHANGED <<trailers, units, broken>>

Synchronise(s) ==
    ResolveSecret(s) \/ SelectRows(s) \/ LookUpRow(s) \/ UpsertRow(s) \/ SyncBreaks(s) \/ FinishSync(s)

TmsNext == \E s \in Syncs : Synchronise(s)

==============================================================================
