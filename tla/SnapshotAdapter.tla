--------------------------- MODULE SnapshotAdapter ---------------------------
(***************************************************************************)
(* The storage adapters that only ever send whole snapshots: SQLite, which *)
(* polls, Realm and WatermelonDB, which are told of changes; with the      *)
(* desktop keeping the last snapshot it was sent.                          *)
(*                                                                         *)
(* SQLite's snapshot awaits one query per table, so several of them (the   *)
(* timer's, refresh()'s, the one after a clear) are interleaved with one   *)
(* another and with writes.  A table is a version number, 0 is no rows.    *)
(* Frames keep their order, so they act on the desktop when sent.          *)
(***************************************************************************)
EXTENDS Naturals, Sequences, FiniteSets

CONSTANTS
  SnEngine,   \* engines of the instance, of SnEngines
  SnTables,   \* the tables, in the order sqlite_master lists them
  SnNone,     \* nothing yet
  SnCall,     \* snapshots that can overlap: a bound of the model
  SnMaxWrites \* bound of the model: writes and clears

SnEngines == {"sqlite", "realm", "watermelondb"}
ASSUME SnAssumption == SnEngine \subseteq SnEngines

VARIABLES
  snEngine,
  snDb,      \* table -> version
  snCalls,   \* SQLite: the snapshots in flight
  snLast,    \* lastSnapshotJson
  snLocated, \* `location` is known
  snEvents,  \* change notifications on their way to the adapter
  snRows,    \* WatermelonDB: latestRows
  snView,    \* the desktop's storage[engine]
  snRaced,   \* history: WatermelonDB was reset with a notification on its way
  snWrites   \* model bound

snVars == <<snEngine, snDb, snCalls, snLast, snLocated, snEvents, snRows, snView,
            snRaced, snWrites>>

SnTable == {SnTables[i] : i \in DOMAIN SnTables}
SnEmpty == [t \in SnTable |-> 0]
SnIdle == [phase |-> "idle", todo |-> << >>, read |-> SnEmpty]
SnReading == [phase |-> "read", todo |-> SnTables, read |-> SnEmpty]
SnLocating == [SnReading EXCEPT !.phase = "locate"]

\* A notifying adapter sends what is there when it attaches; SQLite starts a snapshot.
SnInit ==
  /\ snEngine \in SnEngine /\ snDb = SnEmpty
  /\ snCalls \in {[c \in SnCall |-> IF c = first THEN SnLocating ELSE SnIdle] :
                    first \in IF snEngine = "sqlite" THEN {CHOOSE c \in SnCall : TRUE} ELSE {SnNone}}
  /\ snLocated = FALSE
  /\ snLast = SnNone /\ snEvents = << >> /\ snRows = SnEmpty
  /\ snView = IF snEngine = "sqlite" THEN SnNone ELSE [rows |-> SnEmpty, located |-> FALSE]
  /\ snRaced = FALSE /\ snWrites = 0

SnSend(rows) == snView' = [rows |-> rows, located |-> snLocated]

\* The app writes; Realm names the table, WatermelonDB hands over its new records.
SnWrite(t) ==
  /\ snWrites < SnMaxWrites /\ snWrites' = snWrites + 1
  /\ snDb' = [snDb EXCEPT ![t] = snWrites + 1]
  /\ snEvents' = IF snEngine = "sqlite" THEN snEvents
                 ELSE Append(snEvents, [table |-> t, version |-> snWrites + 1])
  /\ UNCHANGED <<snEngine, snCalls, snLast, snLocated, snRows, snView, snRaced>>

\* The timer, or the app's refresh(); only the first snapshot of all waits for the PRAGMA.
SnPoll(c) ==
  /\ snEngine = "sqlite" /\ snCalls[c] = SnIdle
  /\ snCalls' = [snCalls EXCEPT ![c] = SnReading]
  /\ UNCHANGED <<snEngine, snDb, snLast, snLocated, snEvents, snRows, snView, snRaced, snWrites>>

SnLocate(c) ==
  /\ snCalls[c].phase = "locate"
  /\ snCalls' = [snCalls EXCEPT ![c].phase = "read"]
  /\ snLocated' \in BOOLEAN
  /\ UNCHANGED <<snEngine, snDb, snLast, snEvents, snRows, snView, snRaced, snWrites>>

SnReads(c) ==
  /\ snCalls[c].phase = "read" /\ snCalls[c].todo # << >>
  /\ LET t == Head(snCalls[c].todo)
     IN snCalls' = [snCalls EXCEPT ![c].read[t] = snDb[t], ![c].todo = Tail(@)]
  /\ UNCHANGED <<snEngine, snDb, snLast, snLocated, snEvents, snRows, snView, snRaced, snWrites>>

\* Mutant: lastSnapshotJson is kept for the newest snapshot, not for the last one sent.
MutSnFinish(c) ==
  /\ snCalls[c].phase = "read" /\ snCalls[c].todo = << >>
  /\ snCalls' = [snCalls EXCEPT ![c] = SnIdle]
  /\ UNCHANGED <<snEngine, snDb, snLocated, snEvents, snRows, snRaced, snWrites>>
  /\ snLast' = snDb
  /\ IF snCalls[c].read = snLast THEN UNCHANGED snView ELSE SnSend(snCalls[c].read)

\* Rows like the last ones sent are not sent again.
SnFinish(c) ==
  /\ snCalls[c].phase = "read" /\ snCalls[c].todo = << >>
  /\ snCalls' = [snCalls EXCEPT ![c] = SnIdle]
  /\ UNCHANGED <<snEngine, snDb, snLocated, snEvents, snRows, snRaced, snWrites>>
  /\ snLast' = snCalls[c].read
  /\ IF snCalls[c].read = snLast THEN UNCHANGED snView ELSE SnSend(snCalls[c].read)

\* storage/clear of SQLite: a DELETE per table, then a snapshot.
SnClear(c) ==
  /\ snEngine = "sqlite" /\ snCalls[c] = SnIdle
  /\ snWrites < SnMaxWrites /\ snWrites' = snWrites + 1
  /\ \E todo \in {SnTables} \cup {<<t>> : t \in SnTable} :
       snCalls' = [snCalls EXCEPT ![c] = [SnReading EXCEPT !.phase = "delete", !.todo = todo]]
  /\ UNCHANGED <<snEngine, snDb, snLast, snLocated, snEvents, snRows, snView, snRaced>>

SnDelete(c) ==
  /\ snCalls[c].phase = "delete"
  /\ snDb' = [snDb EXCEPT ![Head(snCalls[c].todo)] = 0]
  /\ snCalls' = [snCalls EXCEPT ![c] = IF Len(@.todo) = 1 THEN SnReading
                                       ELSE [@ EXCEPT !.todo = Tail(@)]]
  /\ UNCHANGED <<snEngine, snLast, snLocated, snEvents, snRows, snView, snRaced, snWrites>>

\* storage/clear of the others: the rows are gone, no notification is counted on.
SnReset ==
  /\ snEngine # "sqlite" /\ snWrites < SnMaxWrites /\ snWrites' = snWrites + 1
  /\ \E T \in {SnTable} \cup IF snEngine = "realm" THEN {{t} : t \in SnTable} ELSE {} :
       snDb' = [t \in SnTable |-> IF t \in T THEN 0 ELSE snDb[t]]
  /\ snRows' = snDb'
  /\ snRaced' = (snRaced \/ (snEngine = "watermelondb" /\ snEvents # << >>))
  /\ SnSend(snRows')
  /\ UNCHANGED <<snEngine, snCalls, snLast, snLocated, snEvents>>

\* Realm reads all collections again; WatermelonDB replaces one table's rows.
SnNotified ==
  /\ snEvents # << >> /\ snEvents' = Tail(snEvents)
  /\ snRows' = IF snEngine = "realm" THEN snDb
               ELSE [snRows EXCEPT ![Head(snEvents).table] = Head(snEvents).version]
  /\ UNCHANGED <<snEngine, snDb, snCalls, snLast, snLocated, snRaced, snWrites>>
  /\ SnSend(snRows')

SnStep(c) == SnLocate(c) \/ SnReads(c) \/ SnFinish(c) \/ SnDelete(c)

SnNext ==
  \/ \E t \in SnTable : SnWrite(t)
  \/ \E c \in SnCall : SnPoll(c) \/ SnClear(c) \/ SnStep(c)
  \/ SnReset \/ SnNotified

\* Queries end, notifications are delivered, and the interval goes on.
SnFairness ==
  /\ \A c \in SnCall : WF_snVars(SnStep(c)) /\ WF_snVars(SnPoll(c))
  /\ WF_snVars(SnNotified)

SnSpec == SnInit /\ [][SnNext]_snVars /\ SnFairness

-----------------------------------------------------------------------------

\* An older snapshot can be sent after a newer one, and a snapshot can be torn by a write
\* between two of its queries; whatever happened, once the app stops writing the desktop
\* ends up showing what the database holds.  The exception is a WatermelonDB reset with a
\* notification on its way.
SnHeals == <>[](~snRaced => snView # SnNone /\ snView.rows = snDb)

=============================================================================
