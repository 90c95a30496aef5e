--------------------------------- MODULE LSM ---------------------------------
(***************************************************************************)
(* log-structured-merge-tree/lsm.py: a memtable with its log, sorted       *)
(* tables on disk, flushing, compaction, and opening after a stop.         *)
(*                                                                         *)
(* put, delete, close and compact are cut at their file operations, and    *)
(* the process may stop between any two.  A table is opened under its own  *)
(* name and has its footer only at the end: a stop in between leaves a     *)
(* file on which load_index raises, and the store does not open any more.  *)
(* (Entries whose last bytes happen to read as a footer, and a record of   *)
(* the log cut in two, are left out; so is the sparse index, but for what  *)
(* range_scan does where it is empty.)                                     *)
(***************************************************************************)
EXTENDS Integers, Sequences, FiniteSets, FiniteSetsExt

CONSTANTS
    Key, Value,
    Absent,         \* None for a reader; as a stored value, TOMBSTONE
    MaxOps,         \* bound: puts and deletes
    MaxStops,       \* bound: times the store is stopped
    MaxTable,       \* bound: highest table number from which a compaction starts
    FlushAt,        \* memtable_threshold
    MergeAt         \* compaction_threshold

VARIABLES
    wal,            \* the records of wal.log
    memtable,       \* _memtable
    ssts,           \* the .sst files that have their footer: entries by sequence number
    unfinished,     \* the number of the .sst file without a footer, if there is one
    tables,         \* _sstables: sequence numbers, newest last
    seq,            \* _seq
    todo,           \* merged tables not removed yet
    closing,        \* close() was called
    up, pc,         \* the store is open; where the running call stands
    ops, stops,     \* counts for the bounds
    stored          \* history: the map the callers have been told

lsmVars == <<wal, memtable, ssts, unfinished, tables, seq, todo, closing, up, pc, ops, stops, stored>>

ToSet(list) == {list[i] : i \in DOMAIN list}
Empty == [k \in {} |-> Absent]
Put1(f, k, v) == [x \in DOMAIN f \cup {k} |-> IF x = k THEN v ELSE f[x]]
Drop(f, S) == [x \in DOMAIN f \ S |-> f[x]]

\* _replay_wal: the last record of a key.
ReplayWal ==
    [k \in {wal[i].key : i \in DOMAIN wal} |->
        wal[Max({i \in DOMAIN wal : wal[i].key = k})].val]

\* get: the memtable, then the tables from the newest to the oldest.
Lookup(mem, list, k) ==
    LET holds == {i \in DOMAIN list : k \in DOMAIN ssts[list[i]]}
    IN  IF k \in DOMAIN mem THEN mem[k]
        ELSE IF holds = {} THEN Absent ELSE ssts[list[Max(holds)]][k]

\* _load_existing_sstables: the files by sequence number.
SortedTables == [i \in 1 .. Cardinality(DOMAIN ssts) |->
                    CHOOSE s \in DOMAIN ssts : Cardinality({t \in DOMAIN ssts : t < s}) = i - 1]

(***************************************************************************)
(* put, delete, flush                                                      *)
(***************************************************************************)

\* WAL.append and WAL.truncate
WalRecord(k, v) == Append(wal, [key |-> k, val |-> v])
TruncateWal == wal' = <<>>

\* SSTable.write: the next number's file is opened and the entries go to it; it
\* is a table when its footer is written.
OpenTable == unfinished' = {seq} /\ seq' = seq + 1
WriteTable(entries) ==
    \E s \in unfinished :
        /\ ssts' = Put1(ssts, s, entries)
        /\ unfinished' = {}

\* put, and delete with a tombstone: log, memtable, and a flush when it is full.
Store(k, v) ==
    /\ up /\ pc = "idle" /\ ~closing /\ ops < MaxOps
    /\ wal' = WalRecord(k, v)
    /\ memtable' = Put1(memtable, k, v)
    /\ pc' = IF Cardinality(DOMAIN memtable') >= FlushAt THEN "flush" ELSE "idle"
    /\ stored' = [stored EXCEPT ![k] = v]
    /\ ops' = ops + 1
    /\ UNCHANGED <<closing, ssts, unfinished, tables, seq, todo, up, stops>>

\* _flush writes the table, then truncates the log and starts a new memtable.
FlushOpen ==
    /\ pc = "flush"
    /\ OpenTable
    /\ pc' = "writing"
    /\ UNCHANGED <<closing, wal, memtable, ssts, tables, todo, up, ops, stops, stored>>

FlushWrite ==
    /\ pc = "writing"
    /\ WriteTable(memtable)
    /\ tables' = Append(tables, seq - 1)
    /\ pc' = "truncate"
    /\ UNCHANGED <<closing, wal, memtable, seq, todo, up, ops, stops, stored>>

FlushTruncate ==
    /\ pc = "truncate"
    /\ TruncateWal
    /\ memtable' = Empty
    /\ pc' = IF Len(tables) >= MergeAt THEN "compact" ELSE "idle"
    /\ UNCHANGED <<closing, ssts, unfinished, tables, seq, todo, up, ops, stops, stored>>

(***************************************************************************)
(* compact                                                                 *)
(***************************************************************************)

Newest(k) == Max({s \in ToSet(tables) : k \in DOMAIN ssts[s]})

\* The newest entry of each key; tombstones are dropped.
Merged ==
    LET keys == UNION {DOMAIN ssts[s] : s \in ToSet(tables)}
    IN  [k \in {j \in keys : ssts[Newest(j)][j] # Absent} |-> ssts[Newest(k)][k]]

CompactOpen ==
    /\ up /\ pc \in {"idle", "compact"} /\ Len(tables) >= 2
    /\ pc = "idle" => ~closing /\ seq <= MaxTable
    /\ OpenTable
    /\ pc' = "merging"
    /\ UNCHANGED <<closing, wal, memtable, ssts, tables, todo, up, ops, stops, stored>>

CompactTables ==
    /\ pc = "merging"
    /\ WriteTable(Merged)
    /\ tables' = <<seq - 1>>
    /\ todo' = ToSet(tables)
    /\ pc' = "removing"
    /\ UNCHANGED <<closing, wal, memtable, seq, up, ops, stops, stored>>

NextRemoved == Min(todo)

RemoveTable ==
    /\ pc = "removing"
    /\ ssts' = Drop(ssts, {NextRemoved})
    /\ todo' = todo \ {NextRemoved}
    /\ pc' = IF todo' = {} THEN "idle" ELSE "removing"
    /\ UNCHANGED <<closing, wal, memtable, unfinished, tables, seq, up, ops, stops, stored>>

(***************************************************************************)
(* Closing, stopping, opening                                              *)
(***************************************************************************)

\* close() flushes before the process ends.
CloseTree ==
    /\ up /\ pc = "idle" /\ ~closing /\ memtable # Empty /\ stops < MaxStops
    /\ pc' = "flush"
    /\ closing' = TRUE
    /\ UNCHANGED <<wal, memtable, ssts, unfinished, tables, seq, todo, up, ops, stops, stored>>

StopTree ==
    /\ up /\ stops < MaxStops
    /\ up' = FALSE
    /\ pc' = "idle"
    /\ memtable' = Empty /\ tables' = <<>> /\ todo' = {}
    /\ closing' = FALSE
    /\ stops' = stops + 1
    /\ UNCHANGED <<wal, ssts, unfinished, seq, ops, stored>>

\* load_index raises on a file that has no footer.
OpenTree ==
    /\ ~up /\ unfinished = {}
    /\ up' = TRUE
    /\ tables' = SortedTables
    /\ seq' = IF DOMAIN ssts = {} THEN 0 ELSE Max(DOMAIN ssts) + 1
    /\ memtable' = ReplayWal
    /\ UNCHANGED <<closing, wal, ssts, unfinished, todo, pc, ops, stops, stored>>

LsmInit ==
    /\ wal = <<>> /\ memtable = Empty
    /\ ssts = [s \in {} |-> Empty] /\ unfinished = {} /\ tables = <<>> /\ seq = 0
    /\ todo = {} /\ closing = FALSE
    /\ up = TRUE /\ pc = "idle"
    /\ ops = 0 /\ stops = 0
    /\ stored = [k \in Key |-> Absent]

LsmNext ==
    \/ \E k \in Key, v \in Value \cup {Absent} : Store(k, v)
    \/ FlushOpen \/ FlushWrite \/ FlushTruncate
    \/ CompactOpen \/ CompactTables \/ RemoveTable
    \/ CloseTree \/ StopTree \/ OpenTree

LsmSpec == LsmInit /\ [][LsmNext]_lsmVars

(***************************************************************************)
(* Properties                                                              *)
(***************************************************************************)

\* Types; the tables in memory are files, a new number is above all of them, and
\* a file without a footer is the one being written, or one a stop left behind.
LsmTypeOK ==
    /\ wal \in Seq([key : Key, val : Value \cup {Absent}])
    /\ DOMAIN memtable \subseteq Key
    /\ \A s \in DOMAIN ssts : DOMAIN ssts[s] \subseteq Key
    /\ up => ToSet(tables) \subseteq DOMAIN ssts /\ \A s \in DOMAIN ssts : s < seq
    /\ up => unfinished = IF pc \in {"writing", "merging"} THEN {seq - 1} ELSE {}
    /\ unfinished \cap DOMAIN ssts = {}

\* range_scan over all keys: tables from the oldest to the newest, then the
\* memtable, each overwriting what was merged before; tombstones are left out.
\* Where compact dropped every entry it wrote a table with an empty sparse index,
\* on which scan raises an IndexError.
ScanRaises == \E s \in ToSet(tables) : ssts[s] = Empty
RangeScan ==
    LET layers == [i \in DOMAIN tables |-> ssts[tables[i]]] \o <<memtable>>
        holds(k) == {i \in DOMAIN layers : k \in DOMAIN layers[i]}
    IN  [k \in Key |-> IF holds(k) = {} THEN Absent ELSE layers[Max(holds(k))][k]]

\* What get returns; of a store that is down, what it would return if it opened
\* with the tables that have their footer.
LsmView == [k \in Key |-> IF up THEN Lookup(memtable, tables, k)
                                ELSE Lookup(ReplayWal, SortedTables, k)]

\* At every step of a flush or a compaction, after every stop and every opening
\* the tree holds the map its callers were told, and a scan that does not raise
\* agrees with get.  A stop inside a table's file costs no entry: the log and the
\* tables beside that file still hold all of them.
LsmDurable ==
    /\ LsmView = stored
    /\ up => ScanRaises \/ RangeScan = stored
=============================================================================
