------------------------------ MODULE HashIndex ------------------------------
(***************************************************************************)
(* hash-index-storage/bitcask.py: append-only data files, an in-memory key *)
(* directory, compaction into merged files with hint files, and the        *)
(* rebuilding of the directory when the store is opened.                   *)
(*                                                                         *)
(* compact() is cut at its file operations, and the process may stop at    *)
(* each of them.  Records and hint files reach the disk as a whole, and    *)
(* the clock moves on between two writes, so that record order is          *)
(* timestamp order.                                                        *)
(***************************************************************************)
EXTENDS Integers, Sequences, FiniteSets, FiniteSetsExt

CONSTANTS
    Key, Value,
    Absent,         \* None for a reader; in a record, the empty value
    Puts,           \* values that are put; Absent among them is the empty string,
                    \*   after which compact leaves keydir pointing to a deleted file
    MaxOps,         \* bound: puts and deletes
    MaxStops,       \* bound: times the store is stopped
    MaxFileId,      \* bound: highest file id from which a compaction starts
    FileSizes,      \* possible values of max_file_size, in records
    StopPoints      \* steps at which the process may stop

VARIABLES
    fileSize,       \* max_file_size
    data,           \* the .data files: records by file id
    hints,          \* the .hint files: positions of keys by file id
    keydir,         \* keydir: file and position by key
    active,         \* active_file_id
    merging,        \* merged_file_id, -1 when no compaction runs
    todo,           \* keys_to_compact not merged yet, or immutable files not deleted yet
    up,             \* the store is open
    pc,             \* where the running call stands
    ops, stops,     \* counts for the bounds
    stored          \* history: the map the callers have been told

hashIndexVars == <<fileSize, data, hints, keydir, active, merging, todo, up, pc, ops, stops, stored>>

None == [file |-> -1, pos |-> 0]
At(f, p) == [file |-> f, pos |-> p]
Without(f, S) == [x \in DOMAIN f \ S |-> f[x]]
With(f, x, v) == [y \in DOMAIN f \cup {x} |-> IF y = x THEN v ELSE f[y]]
Positions(recs, k) == {i \in DOMAIN recs : recs[i].key = k}

\* get: the value of the record that an entry points to.
ValueAt(e) == IF e = None THEN Absent ELSE data[e.file][e.pos].val

(***************************************************************************)
(* Opening                                                                 *)
(***************************************************************************)

\* _scan_data_file: the last record of a key decides, an empty one removes it.
Scanned(f, k) ==
    LET p == Max(Positions(data[f], k))
    IN  IF data[f][p].val = Absent THEN None ELSE At(f, p)

Mentions(f, k) == IF f \in DOMAIN hints THEN k \in DOMAIN hints[f]
                                        ELSE Positions(data[f], k) # {}

\* _rebuild_index: files in the order of their ids, a hint file instead of the
\* data where there is one.
RebuildIndex ==
    [k \in Key |->
        LET fs == {f \in DOMAIN data : Mentions(f, k)}
            f  == Max(fs)
        IN  IF fs = {} THEN None
            ELSE IF f \in DOMAIN hints THEN At(f, hints[f][k]) ELSE Scanned(f, k)]

(***************************************************************************)
(* put and delete                                                          *)
(***************************************************************************)

Full(f) == Len(data[f]) >= fileSize
\* _maybe_rotate
ActiveNow == IF Full(active) THEN active + 1 ELSE active
Rotated == IF Full(active) THEN With(data, active + 1, <<>>) ELSE data

\* _write_record, and the directory entry: put points to its record, delete to none.
WriteRecord(k, v, entry) ==
    /\ up /\ pc = "idle" /\ ops < MaxOps
    /\ data' = [Rotated EXCEPT ![ActiveNow] = Append(@, [key |-> k, val |-> v])]
    /\ active' = ActiveNow
    /\ keydir' = [keydir EXCEPT ![k] = entry]
    /\ stored' = [stored EXCEPT ![k] = v]
    /\ ops' = ops + 1
    /\ UNCHANGED <<fileSize, hints, merging, todo, up, pc, stops>>

Put(k, v) == WriteRecord(k, v, At(ActiveNow, Len(Rotated[ActiveNow]) + 1))
Delete(k) == WriteRecord(k, Absent, None)

(***************************************************************************)
(* compact                                                                 *)
(***************************************************************************)

Immutable == DOMAIN data \ {active}

\* latest: the last record of a key in the immutable files, if it is no tombstone.
Latest(k) ==
    LET fs == {f \in Immutable : Positions(data[f], k) # {}}
    IN  IF fs = {} THEN None ELSE Scanned(Max(fs), k)

KeysToCompact == {k \in Key : Latest(k) # None /\ keydir[k].file \in Immutable}

CompactStart ==
    /\ up /\ pc = "idle" /\ Immutable # {} /\ active <= MaxFileId
    /\ pc' = "merging"
    /\ todo' = KeysToCompact
    /\ merging' = active + 1
    /\ data' = With(data, active + 1, <<>>)
    /\ UNCHANGED <<fileSize, hints, keydir, active, up, ops, stops, stored>>

\* The hint of a merged file: the positions of its keys.
HintOf(f) == [k \in {data[f][i].key : i \in DOMAIN data[f]} |-> Max(Positions(data[f], k))]
OldFiles == {f \in DOMAIN data : f < active}
LatestOld(k) ==
    LET f == Max({g \in OldFiles : Positions(data[g], k) # {}}) IN Scanned(f, k)

\* A full merged file is closed and gets its hint before the next one is begun.
MergeRotates ==
    /\ pc = "merging" /\ todo # {} /\ Full(merging)
    /\ hints' = With(hints, merging, HintOf(merging))
    /\ merging' = merging + 1
    /\ data' = With(data, merging + 1, <<>>)
    /\ UNCHANGED <<fileSize, keydir, active, todo, up, pc, ops, stops, stored>>

MergeRecord(k) ==
    /\ pc = "merging" /\ k \in todo /\ ~Full(merging)
    /\ data' = [data EXCEPT ![merging] =
                   Append(@, [key |-> k, val |-> ValueAt(LatestOld(k))])]
    /\ keydir' = [keydir EXCEPT ![k] = At(merging, Len(data[merging]) + 1)]
    /\ todo' = todo \ {k}
    /\ UNCHANGED <<fileSize, hints, active, merging, up, pc, ops, stops, stored>>

WriteHintFile ==
    /\ pc = "merging" /\ todo = {}
    /\ hints' = With(hints, merging, HintOf(merging))
    /\ pc' = "hinted"
    /\ UNCHANGED <<fileSize, data, keydir, active, merging, todo, up, ops, stops, stored>>

\* The active file moves behind the merged ones, and the directory follows it.
RenameActive ==
    /\ pc = "hinted"
    /\ data' = With(Without(data, {active}), merging + 1, data[active])
    /\ keydir' = [k \in Key |-> IF keydir[k].file = active
                                THEN At(merging + 1, keydir[k].pos) ELSE keydir[k]]
    /\ active' = merging + 1
    /\ todo' = OldFiles
    /\ pc' = "deleting"
    /\ UNCHANGED <<fileSize, hints, merging, up, ops, stops, stored>>

NextToDelete_Last == Max(todo)
NextToDelete == Min(todo)

DeleteOld ==
    /\ pc = "deleting" /\ todo # {}
    /\ data' = Without(data, {NextToDelete})
    /\ hints' = Without(hints, {NextToDelete})
    /\ todo' = todo \ {NextToDelete}
    /\ UNCHANGED <<fileSize, keydir, active, merging, up, pc, ops, stops, stored>>

CompactEnds ==
    /\ pc = "deleting" /\ todo = {}
    /\ pc' = "idle"
    /\ merging' = -1
    /\ UNCHANGED <<fileSize, data, hints, keydir, active, todo, up, ops, stops, stored>>

(***************************************************************************)
(* Stopping and opening                                                    *)
(***************************************************************************)

\* The process stops; a put may have got as far as its rotation.
Stop ==
    /\ up /\ pc \in StopPoints /\ stops < MaxStops
    /\ data' \in (IF pc = "idle" THEN {data, Rotated} ELSE {data})
    /\ up' = FALSE
    /\ pc' = "idle"
    /\ stops' = stops + 1
    /\ keydir' = [k \in Key |-> None]
    /\ todo' = {} /\ merging' = -1
    /\ UNCHANGED <<fileSize, hints, active, ops, stored>>

Open ==
    /\ ~up
    /\ up' = TRUE
    /\ keydir' = RebuildIndex
    /\ active' = Max(DOMAIN data)
    /\ UNCHANGED <<fileSize, data, hints, merging, todo, pc, ops, stops, stored>>

HashIndexInit ==
    /\ fileSize \in FileSizes
    /\ data = [f \in {0} |-> <<>>] /\ hints = [f \in {} |-> <<>>]
    /\ keydir = [k \in Key |-> None]
    /\ active = 0 /\ merging = -1 /\ todo = {}
    /\ up = TRUE /\ pc = "idle"
    /\ ops = 0 /\ stops = 0
    /\ stored = [k \in Key |-> Absent]

HashIndexNext ==
    \/ \E k \in Key, v \in Puts : Put(k, v)
    \/ \E k \in Key : Delete(k)
    \/ CompactStart \/ MergeRotates \/ \E k \in Key : MergeRecord(k)
    \/ WriteHintFile \/ RenameActive \/ DeleteOld \/ CompactEnds
    \/ Stop \/ Open

HashIndexSpec == HashIndexInit /\ [][HashIndexNext]_hashIndexVars

(***************************************************************************)
(* Properties                                                              *)
(***************************************************************************)

\* Types; every directory entry points to a record of its key.
HashIndexTypeOK ==
    /\ \A f \in DOMAIN data : data[f] \in Seq([key : Key, val : Value \cup {Absent}])
    /\ active \in Nat /\ (up => active \in DOMAIN data)
    /\ \A k \in Key : keydir[k] # None =>
          /\ keydir[k].file \in DOMAIN data
          /\ keydir[k].pos \in Positions(data[keydir[k].file], k)

\* What get returns, or would return if the store were opened now.
HashIndexView == [k \in Key |-> ValueAt(IF up THEN keydir[k] ELSE RebuildIndex[k])]

\* At every step of a compaction, after every stop and every opening the store
\* holds the map its callers were told.
HashIndexDurable == HashIndexView = stored
=============================================================================
