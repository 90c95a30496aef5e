------------------------------ MODULE MCStorage ------------------------------
(***************************************************************************)
(* The storage engines, one of which a behaviour uses: the write-ahead log,*)
(* the two hash-indexed stores, the log-structured merge tree, the B-tree, *)
(* the sorted tables with their compaction; and what finds data on several *)
(* nodes: range partitions, the hash ring, secondary indexes, Merkle trees.*)
(* Each is a library of its own, opened by one process; nothing is shared, *)
(* so the variables of the engines that are not in use keep their values.  *)
(***************************************************************************)
EXTENDS WAL, TLC

CONSTANTS
    Key, Value, Absent, Puts, TreeKeys, TreeValue,
    MaxOps, MaxStops, MaxFileId, FileSizes, StopPoints,
    MaxSegment, SegmentSize, CompactAt,
    MaxTable, FlushAt, MergeAt,
    MaxKeys, MaxPages, MaxTreeOps, StopInSplit,
    SKey, BlockSize, MinThreshold, SizeThresholds, L0Trigger, LevelBaseSize, Fanout, MaxLevels, MaxAdded,
    PartKey, PartValue, MaxPartitionSize, MinPartitionSize,
    RingNode, NoNode, VnodeCount, RingSize, ReplicationFactor,
    Pk, Term, NoTerm, NoDoc, Part, MaxPending,
    BlockData, EmptyBlock, MaxLeaves

VARIABLES
    engine,                                                 \* the engine in use
    fileSize, data, hints, keydir, active, merging,         \* HashIndex
    segs, segHints, index, segActive, segCounter, hidden,   \* HashTable
    wal, memtable, ssts, unfinished, tables, seq, closing,  \* LSM
    disk, treeMap,                                          \* BTree
    compaction, sstables, addedTables,                      \* SSTable
    parts, mapped, placed, ring, heldBy, fromHolder,        \* Partitioning
    asyncIndex, docPart, termPart, docs, localIndex, globalIndex, pendingOps, \* SecondaryIndex
    merkle,                                                 \* Merkle
    todo, up, pc, ops, stops, stored                        \* common

HI == INSTANCE HashIndex
HT == INSTANCE HashTable
LS == INSTANCE LSM
BT == INSTANCE BTree WITH stored <- treeMap, Value <- TreeValue
ST == INSTANCE SSTable
PT == INSTANCE Partitioning
SI == INSTANCE SecondaryIndex
MT == INSTANCE Merkle

indexVars == <<fileSize, data, hints, keydir, active, merging>>
tableVars == <<segs, segHints, index, segActive, segCounter, hidden>>
mergeVars == <<wal, memtable, ssts, unfinished, tables, seq, closing>>
treeVars  == <<disk, treeMap>>
sstVars   == <<compaction, sstables, addedTables>>
partVars  == <<parts, mapped>>
ringVars  == <<placed, ring, heldBy, fromHolder>>
secondaryVars == <<asyncIndex, docPart, termPart, docs, localIndex, globalIndex, pendingOps>>
lookupVars == <<ringVars, secondaryVars, merkle>>
callVars  == <<todo, up, pc, stored>>
counts    == <<ops, stops>>
storageVars == <<engine, walVars, indexVars, tableVars, mergeVars, treeVars, sstVars, partVars, lookupVars, callVars, counts>>

Engines == {"log", "hash index", "hash table", "merge tree", "B-tree", "sorted tables", "ranges",
            "hash ring", "secondary index", "merkle"}

\* What has many initial states starts only where it is in use.
NoRing == placed = 0 /\ ring = 0 /\ heldBy = 0 /\ fromHolder = 0
NoSecondary == /\ asyncIndex = 0 /\ docPart = 0 /\ termPart = 0 /\ docs = 0
               /\ localIndex = 0 /\ globalIndex = 0 /\ pendingOps = 0

StorageInit ==
    /\ engine \in Engines
    /\ WalInit /\ HI!HashIndexInit /\ HT!HashTableInit /\ LS!LsmInit /\ BT!BTreeInit
    /\ ST!SstInit /\ PT!RangeInit
    /\ IF engine = "hash ring" THEN PT!RingInit ELSE NoRing
    /\ IF engine = "secondary index" THEN SI!SecondaryInit ELSE NoSecondary
    /\ IF engine = "merkle" THEN MT!MerkleInit ELSE merkle = 0
    /\ engine # "log" => syncMode = "none"
    /\ engine # "hash index" => fileSize = 1
    /\ engine # "sorted tables" => compaction = "leveled"

StorageNext ==
    /\ UNCHANGED engine
    /\ \/ /\ engine = "log" /\ WalNext
          /\ UNCHANGED <<indexVars, tableVars, mergeVars, treeVars, sstVars, partVars, lookupVars, callVars, counts>>
       \/ /\ engine = "hash index" /\ HI!HashIndexNext
          /\ UNCHANGED <<walVars, tableVars, mergeVars, treeVars, sstVars, partVars, lookupVars>>
       \/ /\ engine = "hash table" /\ HT!HashTableNext
          /\ UNCHANGED <<walVars, indexVars, mergeVars, treeVars, sstVars, partVars, lookupVars>>
       \/ /\ engine = "merge tree" /\ LS!LsmNext
          /\ UNCHANGED <<walVars, indexVars, tableVars, treeVars, sstVars, partVars, lookupVars>>
       \/ /\ engine = "B-tree" /\ BT!BTreeNext
          /\ UNCHANGED <<walVars, indexVars, tableVars, mergeVars, sstVars, partVars, lookupVars, callVars>>
       \/ /\ engine = "sorted tables" /\ ST!SstNext
          /\ UNCHANGED <<walVars, indexVars, tableVars, mergeVars, treeVars, partVars, lookupVars, callVars, counts>>
       \/ /\ engine = "ranges" /\ PT!RangeNext
          /\ UNCHANGED <<walVars, indexVars, tableVars, mergeVars, treeVars, sstVars, lookupVars, callVars, counts>>
       \/ /\ \/ engine = "hash ring" /\ PT!RingNext /\ UNCHANGED <<secondaryVars, merkle>>
             \/ engine = "secondary index" /\ SI!SecondaryNext /\ UNCHANGED <<ringVars, merkle>>
             \/ engine = "merkle" /\ MT!MerkleNext /\ UNCHANGED <<ringVars, secondaryVars>>
          /\ UNCHANGED <<walVars, indexVars, tableVars, mergeVars, treeVars, sstVars, partVars, callVars, counts>>

\* The variables of the engine in use; the others have one value.
InUse ==
    CASE engine = "log" -> walVars
      [] engine = "hash index" -> <<indexVars, callVars, counts>>
      [] engine = "hash table" -> <<tableVars, callVars, counts>>
      [] engine = "merge tree" -> <<mergeVars, callVars, counts>>
      [] engine = "B-tree" -> <<treeVars, counts>>
      [] engine = "sorted tables" -> sstVars
      [] engine = "ranges" -> partVars
      [] OTHER -> lookupVars
StorageView == <<engine, InUse>>

StorageSpec == StorageInit /\ [][StorageNext]_storageVars

\* Two tiers, of one entry and of more.
MCThresholds == <<2>>

\* Keys and values are only compared.
StorageSymmetry == Permutations(Key) \cup Permutations(Value)

(***************************************************************************)
(* Properties                                                              *)
(***************************************************************************)

\* The write-ahead log: after any crash a reader sees a batch whole or not at all,
\* and the records in the order of their sequence numbers, without repetition.
LogIntact == WalTypeOK /\ BatchesAtomic /\ ReadableInOrder

\* A reader of the hash-indexed stores and of the merge tree finds the map the
\* callers were told: at every file operation of a compaction, a flush or the
\* writing of hint files, and after the process stopped there (where StopPoints
\* lets it) and the index was rebuilt from what the directory holds.  Left out are
\* keys that a hint file cut by a stop hides, and scans of the merge tree while a
\* table is empty, which raise.  A merge tree that a half-written table keeps from
\* opening still holds the map in its log and its other tables.  Index entries
\* point to records of their key, and tables in memory have their file.
StoresDurable ==
    /\ engine = "hash index" => HI!HashIndexTypeOK /\ HI!HashIndexDurable
    /\ engine = "hash table" => HT!HashTableTypeOK /\ HT!HashTableDurable
    /\ engine = "merge tree" => LS!LsmTypeOK /\ LS!LsmDurable

\* get of the B-tree finds what was stored after splits, removals of leaves and
\* reuse of pages, and after a stop between two page writes of a put or delete
\* that allocates and frees no page; the chain of leaves, the tree and the free
\* list fit together.
TreeSound == engine = "B-tree" => BT!BTreeDurable /\ BT!BTreeShape

\* Compaction of either strategy leaves the newest entry of every key to be found,
\* and orders the levels; splits, deletions and merges of partitions leave routing
\* and scans those of one sorted map.
SortedStores ==
    /\ engine = "sorted tables" => ST!CompactionKeepsNewest
    /\ engine = "ranges" => PT!RangesRouted

\* Where data is found follows what was done to it: keys moved as the hash ring
\* said are where it routes them, an index query finds what a scan finds, Merkle
\* trees differ exactly where their blocks do.
LookupsExact ==
    /\ engine = "hash ring" => PT!KeysAreRouted
    /\ engine = "secondary index" => SI!IndexesAgree
    /\ engine = "merkle" => MT!TreesAgree
=============================================================================
