-------------------------------- MODULE MCLogs --------------------------------
(***************************************************************************)
(* Logs and what is derived from them: the partitioned log with its        *)
(* consumer groups, change data capture, the event store, the unbundled    *)
(* database, the join of two streams.  They share nothing: a behaviour     *)
(* runs one of them, and the variables of the others keep their values.    *)
(***************************************************************************)
EXTENDS PartitionedLog

CONSTANTS
    CKey, CValue, NoRow, Shown, MaxSeq,                                     \* CDC
    Stream, Polling, Live, NoSnapshot, SnapshotInterval, MaxEvents, MaxStops, \* EventStore
    UKey, UValue, NoRecord, System, MaxULsn, MaxReopens,                    \* Unbundled
    JKey, Duration, Latenesses, WindowSize, MaxArrivals, MaxTs              \* StreamJoin

VARIABLES
    system,                                                         \* the system in use
    rows, changes, nextSeq, overlooked, cpos, handled, view, index, \* CDC
    events, proj, snaps, stops, gapped,                             \* EventStore
    wal, walFile, store, stream, systems, reopens, asOf, covered, whole, \* Unbundled
    joinType, lateness, arrived, buffered, matched, watermark, emitted, aggregating, closed \* StreamJoin

ASSUME RowAssumption == NoRow \notin CValue

ASSUME ProjectionAssumption == Polling \cap Live = {}

ASSUME JoinAssumption ==
    Duration \in Int /\ Latenesses \subseteq Int /\ WindowSize \in Nat \ {0}

CD == INSTANCE CDC
ES == INSTANCE EventStore
UB == INSTANCE Unbundled
SJ == INSTANCE StreamJoin

cdcVars == <<rows, changes, nextSeq, overlooked, cpos, handled, view, index>>
eventVars == <<events, proj, snaps, stops, gapped>>
unbundledVars == <<wal, walFile, store, stream, systems, reopens, asOf, covered, whole>>
joinVars == <<joinType, lateness, arrived, buffered, matched, watermark, emitted, aggregating, closed>>
logsVars == <<system, logVars, cdcVars, eventVars, unbundledVars, joinVars>>

\* A topic of one partition and three messages, and one of two and two.
MCShapes == {<<1, 3>>, <<2, 2>>}

\* The variables of the system in use; the others have one value.  Messages that were
\* delivered and messages that are excused are treated alike.
InUse ==
    CASE system = "partitioned log" ->
           <<shape, cleanup, parts, files, committed, consumers, sent, regroups, restarts,
             delivered \cup excused>>
      [] system = "change data capture" -> cdcVars
      [] system = "event store" -> eventVars
      [] system = "unbundled" -> unbundledVars
      [] system = "join" -> joinVars
LogsView == <<system, InUse>>

LogsInit ==
    /\ system \in {"partitioned log", "change data capture", "event store", "unbundled", "join"}
    /\ LogInit /\ CD!CdcInit /\ ES!EventInit /\ UB!UnbundledInit /\ SJ!JoinInit
    /\ system # "partitioned log" => shape = <<1, 3>> /\ cleanup = "compact"
    /\ system # "join" => joinType = "inner" /\ lateness = 0

LogsNext ==
    /\ UNCHANGED system
    /\ \/ /\ system = "partitioned log" /\ LogNext
          /\ UNCHANGED <<cdcVars, eventVars, unbundledVars, joinVars>>
       \/ /\ system = "change data capture" /\ CD!CdcNext
          /\ UNCHANGED <<logVars, eventVars, unbundledVars, joinVars>>
       \/ /\ system = "event store" /\ ES!EventNext
          /\ UNCHANGED <<logVars, cdcVars, unbundledVars, joinVars>>
       \/ /\ system = "unbundled" /\ UB!UnbundledNext
          /\ UNCHANGED <<logVars, cdcVars, eventVars, joinVars>>
       \/ /\ system = "join" /\ SJ!JoinNext
          /\ UNCHANGED <<logVars, cdcVars, eventVars, unbundledVars>>

LogsSpec == LogsInit /\ [][LogsNext]_logsVars

(***************************************************************************)
(* Properties                                                              *)
(***************************************************************************)

\* change-data-capture: a view, a search index or a consumer that has read the
\* log to its end agrees with the table, whatever was compacted between its reads,
\* wherever a snapshot was taken and however often a poll was cut short; only that
\* the index may keep an old token of a key when compact removed a delete of it
\* which the index had not read.
DerivedFromLog == system = "change data capture" => CD!DerivedFromLog

\* event-sourcing-store: a projection and its snapshots reflect exactly the events
\* up to their position, through live events, catching up, loads and restarts.
ProjectionsExact == system = "event store" => ES!ProjectionsExact

\* unbundled-database: a derived system shows the records as of its position.
DerivedAsOf == system = "unbundled" => UB!DerivedAsOf

\* stream-join-processor: the results are the windowed join of the events that were
\* accepted, each once, and an inner join without lateness closes every window of
\* the aggregator once.
JoinExact == system = "join" => SJ!ResultsAreJoin /\ SJ!WindowsCloseOnce
=============================================================================
