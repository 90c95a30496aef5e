------------------------------- MODULE Unbundled -------------------------------
(***************************************************************************)
(* unbundled-database/unbundled_database.py: WriteAheadLog, StorageEngine, *)
(* CDCStream, the derived systems and UnbundledDatabase.                   *)
(*                                                                         *)
(* A record is the value of its one field, which the systems index.  A     *)
(* system is kept as a SecondaryIndex and as a counting MaterializedView   *)
(* at once; a FullTextSearch of one word per record is the former again.   *)
(* A new process starts with the log of the file and an empty storage      *)
(* engine, which is rebuilt when the application asks for it.              *)
(***************************************************************************)
EXTENDS Integers, Sequences, FiniteSets, SequencesExt, FiniteSetsExt

CONSTANTS
    UKey, UValue, NoRecord,
    System,         \* names of the derived systems
    MaxULsn,        \* bound: entries of the log
    MaxReopens      \* bound: restarts

VARIABLES
    wal,            \* WriteAheadLog._entries
    walFile,        \* its file
    store,          \* StorageEngine._data
    stream,         \* CDCStream._events
    systems,        \* DerivedSystem: subscribed or not, position, index, counts
    reopens,        \* counted for the bound
    asOf,           \* history: the records after each entry of the log
    covered,        \* history: whether the events account for every record there is
    whole           \* history: systems that were given every record

unbundledVars == <<wal, walFile, store, stream, systems, reopens, asOf, covered, whole>>

Empty == [k \in UKey |-> NoRecord]
NewSystem == [subscribed |-> FALSE, pos |-> 0,
              index |-> [v \in UValue |-> {}], counts |-> [v \in UValue |-> 0]]
NextLsn == Len(walFile) + 1
Latest == IF stream = <<>> THEN 0 ELSE Last(stream).lsn

\* StorageEngine.apply
Applied(data, e) == [data EXCEPT ![e.key] = e.value]

\* process_event: an update or a delete takes the old value out, an insert or an
\* update puts the new one in.
IndexAfter(index, e) ==
    [v \in UValue |-> (index[v] \ IF v = e.old THEN {e.key} ELSE {})
                         \cup IF v = e.new THEN {e.key} ELSE {}]
CountsAfter(counts, e) ==
    [v \in UValue |-> (IF v = e.old THEN Max({0, counts[v] - 1}) ELSE counts[v])
                         + (IF v = e.new THEN 1 ELSE 0)]
Processed(s, e) == [s EXCEPT !.pos = e.lsn, !.index = IndexAfter(@, e), !.counts = CountsAfter(@, e)]

\* emit: an insert has no old value, a delete no new one.
Event(e, old) == [lsn |-> e.lsn, key |-> e.key, new |-> e.value, old |-> old]

\* put and delete: the log, the storage engine, then emit.  A delete of a record
\* that is not there returns at once.
Write(k, v) ==
    LET e == [lsn |-> NextLsn, key |-> k, value |-> v]
    IN  /\ NextLsn <= MaxULsn
        /\ v # NoRecord \/ store[k] # NoRecord
        /\ wal' = Append(wal, e) /\ walFile' = Append(walFile, e)
        /\ store' = Applied(store, e)
        /\ stream' = Append(stream, Event(e, store[k]))
        /\ asOf' = [asOf EXCEPT ![e.lsn] = store']
        /\ UNCHANGED <<systems, reopens, covered, whole>>

\* snapshot_and_stream: an insert for each record, then the position of the latest event.
SnapshotPosition_Early == 0
SnapshotPosition == Latest
Snapshotted(s) ==
    LET live == SelectSeq(SetToSeq(UKey), LAMBDA k : store[k] # NoRecord)
        event(k) == [lsn |-> 0, key |-> k, new |-> store[k], old |-> NoRecord]
    IN  [FoldLeft(LAMBDA acc, k : Processed(acc, event(k)), s, live) EXCEPT !.pos = SnapshotPosition]

\* add_derived_system, with a new system; without events there is no snapshot.
AddDerivedSystem(n, catchUp) ==
    LET snapshot == catchUp /\ stream # <<>>
        s == [NewSystem EXCEPT !.subscribed = TRUE]
    IN  /\ ~systems[n].subscribed
        /\ systems' = [systems EXCEPT ![n] = IF snapshot THEN Snapshotted(s) ELSE s]
        /\ whole' = IF snapshot \/ covered THEN whole \cup {n} ELSE whole \ {n}
        /\ UNCHANGED <<wal, walFile, store, stream, reopens, asOf, covered>>

Unsubscribe(n) ==
    /\ systems[n].subscribed
    /\ systems' = [systems EXCEPT ![n].subscribed = FALSE]
    /\ UNCHANGED <<wal, walFile, store, stream, reopens, asOf, covered, whole>>

\* flush: process_pending
Flush ==
    /\ systems' = [n \in System |-> IF systems[n].subscribed
          THEN FoldLeft(Processed, systems[n],
                        SelectSeq(stream, LAMBDA e : e.lsn > systems[n].pos)) ELSE systems[n]]
    /\ UNCHANGED <<wal, walFile, store, stream, reopens, asOf, covered, whole>>

\* rebuild_system clears the system and replays the events of this process.
Rebuilt(s) == FoldLeft(Processed, [NewSystem EXCEPT !.subscribed = s.subscribed], stream)
RebuildSystem(n) ==
    /\ systems[n] # NewSystem
    /\ systems' = [systems EXCEPT ![n] = Rebuilt(@)]
    /\ whole' = IF covered THEN whole \cup {n} ELSE whole \ {n}
    /\ UNCHANGED <<wal, walFile, store, stream, reopens, asOf, covered>>

\* StorageEngine.rebuild: what is left of the log, from the first entry
RebuildStorage ==
    /\ store' = FoldLeft(Applied, Empty, wal)
    /\ covered' = (covered /\ store' = store)
    /\ whole' = IF store' = store THEN whole ELSE {}
    /\ asOf' = [asOf EXCEPT ![Latest] = store']
    /\ UNCHANGED <<wal, walFile, stream, systems, reopens>>

\* truncate_before leaves the file alone.
TruncateBefore(lsn) ==
    /\ wal' = SelectSeq(wal, LAMBDA e : e.lsn >= lsn)
    /\ UNCHANGED <<walFile, store, stream, systems, reopens, asOf, covered, whole>>

Reopen ==
    /\ reopens < MaxReopens
    /\ wal' = walFile /\ store' = Empty /\ stream' = <<>>
    /\ systems' = [n \in System |-> NewSystem]
    /\ reopens' = reopens + 1
    /\ asOf' = [l \in 0..MaxULsn |-> Empty] /\ covered' = TRUE /\ whole' = {}
    /\ UNCHANGED walFile

UnbundledInit ==
    /\ wal = <<>> /\ walFile = <<>> /\ store = Empty /\ stream = <<>>
    /\ systems = [n \in System |-> NewSystem] /\ reopens = 0
    /\ asOf = [l \in 0..MaxULsn |-> Empty] /\ covered = TRUE /\ whole = {}

UnbundledNext ==
    \/ \E k \in UKey, v \in UValue \cup {NoRecord} : Write(k, v)
    \/ \E n \in System : \/ \E c \in BOOLEAN : AddDerivedSystem(n, c)
                         \/ Unsubscribe(n) \/ RebuildSystem(n)
    \/ \E lsn \in 1..MaxULsn : TruncateBefore(lsn)
    \/ Flush \/ RebuildStorage \/ Reopen

UnbundledSpec == UnbundledInit /\ [][UnbundledNext]_unbundledVars

(***************************************************************************)
(* Properties                                                              *)
(***************************************************************************)

\* A derived system that was given every record, by a snapshot, from the first
\* event or by a rebuild, shows the records as of its position, in its index and
\* in its counts, and a flush brings a subscribed one to the present.
DerivedAsOf ==
    \A n \in whole :
        LET then == asOf[systems[n].pos]
        IN  /\ \A v \in UValue : systems[n].index[v] = {k \in UKey : then[k] = v}
            /\ \A v \in UValue : systems[n].counts[v] = Cardinality({k \in UKey : then[k] = v})
            /\ systems[n].pos = Latest => then = store
=============================================================================
