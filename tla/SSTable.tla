------------------------------- MODULE SSTable -------------------------------
(***************************************************************************)
(* sstable-and-compaction/sstable.py: SSTableWriter, SSTableReader,        *)
(* merge_sstables and CompactionManager with its two strategies.           *)
(*                                                                         *)
(* Keys are integers.  An entry is its timestamp: the manager keeps        *)
(* tombstones, so that a value and a tombstone are treated alike.  A       *)
(* table's size is the number of its entries.  The caller adds tables that *)
(* are newer than the ones it added before.                                *)
(***************************************************************************)
EXTENDS Integers, Sequences, FiniteSets, SequencesExt, FiniteSetsExt

CONSTANTS
    SKey,               \* keys
    BlockSize,          \* entries under one entry of the sparse index
    MinThreshold,       \* size-tiered: tables of a tier to merge
    SizeThresholds,     \* size-tiered: sequence of the tiers' sizes
    L0Trigger,          \* leveled: tables of level 0 to merge
    LevelBaseSize, Fanout, MaxLevels,
    MaxAdded            \* bound: tables added

VARIABLES
    compaction,         \* _strategy
    sstables,           \* _sstables: entries (key to timestamp) and level
    addedTables         \* history: the tables added, whose number is their timestamp

sstVars == <<compaction, sstables, addedTables>>

Tables == Range(sstables)
Size(t) == Cardinality(DOMAIN t.entries)

(***************************************************************************)
(* SSTableReader                                                           *)
(***************************************************************************)

\* The sparse index: positions of the entries the index names.
Sorted(t) == SetToSortSeq(DOMAIN t.entries, <)
Indexed(t) == {i \in 1..Size(t) : (i - 1) % BlockSize = 0}

\* get: the block of the last indexed key that is not above key, or the first.
Block(t, key) == Max({1} \cup {i \in Indexed(t) : Sorted(t)[i] <= key})
Get(t, key) ==
    LET from  == Block(t, key)
        block == SubSeq(Sorted(t), from, Min({from + BlockSize - 1, Size(t)}))
    IN  IF key \in Range(block) THEN t.entries[key] ELSE 0

MinKey(t) == Min(DOMAIN t.entries)
MaxKey(t) == Max(DOMAIN t.entries)

(***************************************************************************)
(* merge_sstables: of the entries of a key the one with the newest         *)
(* timestamp, of equal ones that of the first table                        *)
(***************************************************************************)

Winner(ts, key) == Max({t.entries[key] : t \in {u \in ts : key \in DOMAIN u.entries}})
MergeSstables(ts, level) ==
    [entries |-> [key \in UNION {DOMAIN t.entries : t \in ts} |-> Winner(ts, key)], level |-> level]

\* The tables of ts leave the list and the merged ones join its end.
Replaced(ts, merged) == SelectSeq(sstables, LAMBDA t : t \notin ts) \o merged

(***************************************************************************)
(* Size-tiered                                                             *)
(***************************************************************************)

Tier(t) == Cardinality({i \in DOMAIN SizeThresholds : Size(t) >= SizeThresholds[i]})
Buckets == [tier \in {Tier(t) : t \in Tables} |-> {t \in Tables : Tier(t) = tier}]
FullTiers == {tier \in DOMAIN Buckets : Cardinality(Buckets[tier]) >= MinThreshold}

\* _stcs_compact: every full bucket becomes one table.
StcsCompact ==
    LET tiers == SetToSortSeq(FullTiers, <)
    IN  /\ FullTiers # {}
        /\ sstables' = Replaced(UNION {Buckets[x] : x \in FullTiers},
                                [i \in DOMAIN tiers |-> MergeSstables(Buckets[tiers[i]], 0)])

(***************************************************************************)
(* Leveled                                                                 *)
(***************************************************************************)

Level(n) == {t \in Tables : t.level = n}
LevelMaxSize(n) == LevelBaseSize * Fanout^(n - 1)
Overlapping_Inside(t, candidates) == {c \in candidates : MinKey(c) < MaxKey(t) /\ MaxKey(c) > MinKey(t)}
Overlapping(t, candidates) == {c \in candidates : MinKey(c) <= MaxKey(t) /\ MaxKey(c) >= MinKey(t)}

\* _lcs_compact at level 0: all its tables with those of level 1 any of them overlaps
L0Full == Cardinality(Level(0)) >= L0Trigger
L0Compact ==
    LET ts == Level(0) \cup UNION {Overlapping(t, Level(1)) : t \in Level(0)}
    IN  L0Full /\ sstables' = Replaced(ts, <<MergeSstables(ts, 1)>>)

\* _lcs_compact at the first level that is too large: the first of its tables that
\* overlap most of the next level, with those it overlaps
TooLarge == {n \in 1..(MaxLevels - 1) : MapThenSumSet(Size, Level(n)) > LevelMaxSize(n)}
Overlaps(t, n) == Cardinality(Overlapping(t, Level(n + 1)))
Best(n) ==
    LET ts == SelectSeq(sstables, LAMBDA t : t.level = n)
    IN  ts[CHOOSE i \in DOMAIN ts :
              /\ \A j \in DOMAIN ts : Overlaps(ts[i], n) >= Overlaps(ts[j], n)
              /\ \A j \in 1..(i - 1) : Overlaps(ts[j], n) < Overlaps(ts[i], n)]
LevelCompact ==
    LET n  == Min(TooLarge)
        ts == {Best(n)} \cup Overlapping(Best(n), Level(n + 1))
    IN  ~L0Full /\ TooLarge # {} /\ sstables' = Replaced(ts, <<MergeSstables(ts, n + 1)>>)

(***************************************************************************)
(* CompactionManager                                                       *)
(***************************************************************************)

RunCompaction ==
    /\ \/ compaction = "size_tiered" /\ StcsCompact
       \/ compaction = "leveled" /\ (L0Compact \/ LevelCompact)
    /\ UNCHANGED <<compaction, addedTables>>

AddSstable(keys) ==
    LET t == [entries |-> [key \in keys |-> Len(addedTables) + 1], level |-> 0]
    IN  /\ Len(addedTables) < MaxAdded
        /\ sstables' = Append(sstables, t)
        /\ addedTables' = Append(addedTables, keys)
        /\ UNCHANGED compaction

SstInit ==
    /\ compaction \in {"size_tiered", "leveled"}
    /\ sstables = <<>> /\ addedTables = <<>>

SstNext == RunCompaction \/ \E keys \in (SUBSET SKey) \ {{}} : AddSstable(keys)

SstSpec == SstInit /\ [][SstNext]_sstVars

(***************************************************************************)
(* Properties                                                              *)
(***************************************************************************)

Newest(key) == Max({0} \cup {i \in DOMAIN addedTables : key \in addedTables[i]})

\* The newest of the entries the tables' sparse indexes find for a key is the one
\* written last, after any compactions of either strategy.  Below level 0, where a
\* reader may stop at the first level that has the key, a level has a key once and
\* no deeper level has a newer entry of it.
CompactionKeepsNewest ==
    /\ \A key \in SKey : Max({0} \cup {Get(t, key) : t \in Tables}) = Newest(key)
    /\ compaction = "leveled" =>
          \A t, u \in Tables : \A key \in DOMAIN t.entries \cap DOMAIN u.entries :
             /\ t.level = u.level /\ t.level > 0 => t = u
             /\ t.level < u.level => t.entries[key] > u.entries[key]
=============================================================================
