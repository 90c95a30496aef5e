------------------------------ MODULE HashTable ------------------------------
(***************************************************************************)
(* log-structured-hash-table/bitcask.py: segment files, an in-memory       *)
(* index, compaction of the frozen segments (by call, or from put when     *)
(* there are enough of them), hint files made on demand, recovery.         *)
(*                                                                         *)
(* compact and create_hint_files are cut at their file operations; the     *)
(* process may stop at each, and inside a hint file, which then hides what *)
(* it lacks of its segment.  A record reaches its segment as a whole.      *)
(***************************************************************************)
EXTENDS Integers, Sequences, FiniteSets, FiniteSetsExt

CONSTANTS
    Key, Value,
    Absent,         \* None for a reader; in a record, TOMBSTONE
    MaxOps,         \* bound: puts and deletes
    MaxStops,       \* bound: times the store is stopped
    MaxSegment,     \* bound: highest segment from which a compaction starts
    SegmentSize,    \* records that fill a segment
    CompactAt       \* auto_compact_threshold

VARIABLES
    segs,           \* the segment_*.dat files: records by segment id
    segHints,       \* the .hint files: positions of keys by segment id
    index,          \* _index: segment and position by key
    segActive,      \* the id of _active_path
    segCounter,     \* _segment_counter
    todo,           \* keys to copy, segments to delete or segments to hint
    up, pc,         \* the store is open; where the running call stands
    ops, stops,     \* counts for the bounds
    stored,         \* history: the map the callers have been told
    hidden          \* history: keys left out of a hint file by a stop inside it

hashTableVars == <<segs, segHints, index, segActive, segCounter, todo, up, pc, ops,
                   stops, stored, hidden>>

Nowhere == [seg |-> -1, pos |-> 0]
In(s, p) == [seg |-> s, pos |-> p]
Minus(f, S) == [x \in DOMAIN f \ S |-> f[x]]
Plus(f, x, v) == [y \in DOMAIN f \cup {x} |-> IF y = x THEN v ELSE f[y]]
Records(s, k) == {i \in DOMAIN segs[s] : segs[s][i].key = k}
Get(e) == IF e = Nowhere THEN Absent ELSE segs[e.seg][e.pos].val

\* _scan_segment: the last record of a key; a tombstone takes it out.
ScanSegment(s, k) ==
    LET p == Max(Records(s, k)) IN IF segs[s][p].val = Absent THEN Nowhere ELSE In(s, p)

Names(s, k) == IF s \in DOMAIN segHints THEN k \in DOMAIN segHints[s]
                                        ELSE Records(s, k) # {}

\* _recover and rebuild_index: oldest to newest, a hint file in place of a scan.
Recovered ==
    [k \in Key |->
        LET ss == {s \in DOMAIN segs : Names(s, k)}
            s  == Max(ss)
        IN  IF ss = {} THEN Nowhere
            ELSE IF s \in DOMAIN segHints THEN In(s, segHints[s][k]) ELSE ScanSegment(s, k)]

Frozen == DOMAIN segs \ {segActive}

(***************************************************************************)
(* put and delete                                                          *)
(***************************************************************************)

IsFull == Len(segs[segActive]) >= SegmentSize
WriteTo == IF IsFull THEN segCounter + 1 ELSE segActive
SegsAfterRotation == IF IsFull THEN Plus(segs, WriteTo, <<>>) ELSE segs

Appended(k, v) ==
    /\ up /\ pc = "idle" /\ ops < MaxOps
    /\ segs' = [SegsAfterRotation EXCEPT ![WriteTo] = Append(@, [key |-> k, val |-> v])]
    /\ segActive' = WriteTo
    /\ segCounter' = IF IsFull THEN segCounter + 1 ELSE segCounter
    /\ stored' = [stored EXCEPT ![k] = v]
    /\ hidden' = hidden \ {k}
    /\ ops' = ops + 1
    /\ UNCHANGED <<segHints, todo, up, stops>>

SegPut(k, v) ==
    /\ Appended(k, v)
    /\ index' = [index EXCEPT ![k] = In(WriteTo, Len(SegsAfterRotation[WriteTo]) + 1)]
    /\ pc' = IF Cardinality(DOMAIN segs' \ {segActive'}) >= CompactAt
             THEN "compact" ELSE "idle"

SegDelete(k) ==
    /\ Appended(k, Absent)
    /\ index' = [index EXCEPT ![k] = Nowhere]
    /\ UNCHANGED pc

(***************************************************************************)
(* compact                                                                 *)
(***************************************************************************)

LiveEntry(k) ==
    LET ss == {s \in Frozen : s < segActive /\ Records(s, k) # {}}
    IN  IF ss = {} THEN Nowhere ELSE ScanSegment(Max(ss), k)

EntriesToWrite == {k \in Key : LiveEntry(k) # Nowhere /\ index[k] = LiveEntry(k)}

CompactSegments ==
    /\ up /\ pc \in {"idle", "compact"} /\ Frozen # {}
    /\ pc = "idle" => segActive <= MaxSegment
    /\ todo' = EntriesToWrite
    /\ segCounter' = segCounter + 1
    /\ segs' = Plus(segs, segCounter + 1, <<>>)
    /\ pc' = "copying"
    /\ UNCHANGED <<segHints, index, segActive, up, ops, stops, stored, hidden>>

CopyRecord(k) ==
    /\ pc = "copying" /\ k \in todo
    /\ segs' = [segs EXCEPT ![segCounter] = Append(@, [key |-> k, val |-> Get(index[k])])]
    /\ todo' = todo \ {k}
    /\ UNCHANGED <<segHints, index, segActive, segCounter, up, pc, ops, stops, stored, hidden>>

\* The index follows the copied records, then the renamed active segment.
Moved(k) ==
    IF Records(segCounter, k) # {} THEN In(segCounter, Max(Records(segCounter, k)))
    ELSE IF index[k].seg = segActive THEN In(segCounter + 1, index[k].pos) ELSE index[k]

RenameSegment ==
    /\ pc = "copying" /\ todo = {}
    /\ segs' = Plus(Minus(segs, {segActive}), segCounter + 1, segs[segActive])
    /\ index' = [k \in Key |-> Moved(k)]
    /\ segActive' = segCounter + 1
    /\ segCounter' = segCounter + 1
    /\ todo' = Frozen \ {segCounter}
    /\ pc' = "removing"
    /\ UNCHANGED <<segHints, up, ops, stops, stored, hidden>>

NextToRemove == Min(todo)

RemoveSegment ==
    /\ pc = "removing" /\ todo # {}
    /\ segs' = Minus(segs, {NextToRemove})
    /\ segHints' = Minus(segHints, {NextToRemove})
    /\ todo' = todo \ {NextToRemove}
    /\ UNCHANGED <<index, segActive, segCounter, up, pc, ops, stops, stored, hidden>>

(***************************************************************************)
(* Hint files and recovery                                                 *)
(***************************************************************************)

CreateHintFiles ==
    /\ up /\ pc = "idle" /\ Frozen # {}
    /\ todo' = Frozen
    /\ pc' = "hinting"
    /\ UNCHANGED <<segs, segHints, index, segActive, segCounter, up, ops, stops, stored, hidden>>

\* The live keys of a segment: those the index points to in it.
LiveHint(s) == [k \in {j \in Key : index[j].seg = s} |-> index[k].pos]

HintSegment ==
    /\ pc = "hinting" /\ todo # {}
    /\ segHints' = Plus(segHints, Min(todo), LiveHint(Min(todo)))
    /\ todo' = todo \ {Min(todo)}
    /\ UNCHANGED <<segs, index, segActive, segCounter, up, pc, ops, stops, stored, hidden>>

CallEnds ==
    /\ pc \in {"removing", "hinting"} /\ todo = {}
    /\ pc' = "idle"
    /\ UNCHANGED <<segs, segHints, index, segActive, segCounter, todo, up, ops, stops, stored, hidden>>

RebuildIndexCall ==
    /\ up /\ pc = "idle"
    /\ index' = Recovered
    /\ UNCHANGED <<segs, segHints, segActive, segCounter, todo, up, pc, ops, stops, stored, hidden>>

\* What a stop leaves of the hint file being written: nothing yet, or the entries
\* of the first n records; the keys of the others are hidden from recovery.
HintCut ==
    \/ UNCHANGED <<segHints, hidden>>
    \/ /\ pc = "hinting" /\ todo # {}
       /\ LET s == Min(todo)
              hint == LiveHint(s)
          IN  \E n \in 0 .. Len(segs[s]) :
                 LET written == {k \in DOMAIN hint : hint[k] <= n}
                 IN  /\ segHints' = Plus(segHints, s, [k \in written |-> hint[k]])
                     /\ hidden' = hidden \cup (DOMAIN hint \ written)

\* The process stops; a put may have got as far as its rotation.
SegStop ==
    /\ up /\ stops < MaxStops
    /\ segs' \in (IF pc = "idle" THEN {segs, SegsAfterRotation} ELSE {segs})
    /\ HintCut
    /\ up' = FALSE
    /\ pc' = "idle"
    /\ stops' = stops + 1
    /\ index' = [k \in Key |-> Nowhere]
    /\ todo' = {}
    /\ UNCHANGED <<segActive, segCounter, ops, stored>>

Recover ==
    /\ ~up
    /\ up' = TRUE
    /\ index' = Recovered
    /\ segActive' = Max(DOMAIN segs)
    /\ segCounter' = Max(DOMAIN segs)
    /\ UNCHANGED <<segs, segHints, todo, pc, ops, stops, stored, hidden>>

HashTableInit ==
    /\ segs = [s \in {0} |-> <<>>] /\ segHints = [s \in {} |-> <<>>]
    /\ index = [k \in Key |-> Nowhere]
    /\ segActive = 0 /\ segCounter = 0 /\ todo = {}
    /\ up = TRUE /\ pc = "idle"
    /\ ops = 0 /\ stops = 0
    /\ stored = [k \in Key |-> Absent] /\ hidden = {}

HashTableNext ==
    \/ \E k \in Key, v \in Value : SegPut(k, v)
    \/ \E k \in Key : SegDelete(k)
    \/ CompactSegments \/ \E k \in Key : CopyRecord(k)
    \/ RenameSegment \/ RemoveSegment
    \/ CreateHintFiles \/ HintSegment \/ CallEnds
    \/ RebuildIndexCall \/ SegStop \/ Recover

HashTableSpec == HashTableInit /\ [][HashTableNext]_hashTableVars

(***************************************************************************)
(* Properties                                                              *)
(***************************************************************************)

\* Types; every index entry points to a record of its key.
HashTableTypeOK ==
    /\ \A s \in DOMAIN segs : segs[s] \in Seq([key : Key, val : Value \cup {Absent}])
    /\ up => segActive \in DOMAIN segs /\ segActive <= segCounter
    /\ \A k \in Key : index[k] # Nowhere =>
          index[k].seg \in DOMAIN segs /\ index[k].pos \in Records(index[k].seg, k)

\* What get returns, or would return if the store were opened now.
HashTableView == [k \in Key |-> Get(IF up THEN index[k] ELSE Recovered[k])]

\* At every step of a compaction or of the making of hints, after every stop,
\* recovery or rebuilding, the store holds the map its callers were told, but for
\* keys that a hint file cut by a stop hides until they are written again.
HashTableDurable == \A k \in Key \ hidden : HashTableView[k] = stored[k]
=============================================================================
