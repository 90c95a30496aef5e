# Verification of ddia-implementations

The repository is a collection of 37 small Python components, one directory
each, that implement techniques of *Designing Data-Intensive Applications*. The
components do not import each other: each directory has one implementation file
and its tests. This directory holds TLA+ modules that model 32 of them, TLC
configurations that check the modules on small instances, and TLAPS proofs of
the main properties of sixteen of them for every value of the constants.

`PROJECT.json` maps every definition to the source lines it models and lists
runs, mutants, findings, hazards and theorems.

## How to run

    tlc -workers 2 -config Storage.cfg MCStorage  # one run
    tlapm RaftProofs.tla                          # one proof module

## Conventions

* A definition keeps the name of the method it models where TLA+ allows it. A
  variable's comment names the attribute it stands for.
* One action is one whole call, or one part of a call between two points where
  another actor can act or the process can stop. A call that raises without
  changing anything is not an action.
* History variables (marked *history*) record what happened for the properties
  and are never read by a guard.
* `Foo_Bar`, placed before `Foo`, is `Foo` with a plausible programming error.
  It is used only to show that a property notices that error.
* Bounds are constants named `Max...`; workload constants say which part of the
  interface is exercised (`Crashable`, `Deleter`, `StopPoints`, `Modes`).
* The components share nothing, so the modules that TLC runs (`MC...`) put
  several of them side by side: a variable chosen in the initial state
  (`protocol`, `service`, `database`, `cluster`, `engine`, `system`) says which
  one a behaviour uses, and the variables of the others keep their values. The
  state space is the sum, not the product, of theirs. One component that is
  proved about is extended; the rest are instances. The VIEW of these runs is the
  state of the component in use; in `isolation` it also leaves out what ended
  transactions no longer read (`Footprint`).

## Inventory

### Consensus, coordination and transactions

| component | state | operations | hard behaviours | correct when | status |
|---|---|---|---|---|---|
| raft-consensus | per node: role, term, vote, log, commit index, next/match index; cluster: partitioned nodes | tick, request vote, append entries and their responses, submit, partition, heal | messages of one tick interleave with role changes; stale candidates and leaders; partitions | one leader per term; logs match; committed entries stay | Raft |
| byzantine-fault-tolerance | per node: view, message logs, prepared and committed slots, executed requests, next sequence number; cluster: pending messages | submit, pre-prepare, prepare, commit, execute, view change, new view | a lying node; view changes that meet half-done runs | no two honest nodes execute different requests at a number | Pbft |
| two-phase-commit | coordinator log; per participant: log, pending transactions, locks, data | begin, execute (prepare, decide, send), recover, availability | crash between any two calls; participants unavailable in one phase; lock conflicts | all participants end a transaction alike; locks exactly with in-doubt transactions | TwoPhaseCommit |
| total-order-broadcast | per slot: acceptor state, decision; per node: delivered, pending, proposals | broadcast, tick, prepare/accept/decided handlers, crash, recover; LinearizableRegister on top | duelling proposers, crashes between rounds, retries | one value per slot, one order, nothing twice, everything eventually | TotalOrderBroadcast, without the register |
| leader-election | per node: state, leader, election start, heartbeat times, availability | tick, ELECTION, ALIVE, COORDINATOR, HEARTBEAT, fail, recover | concurrent elections, failures during one | the highest available node leads | Bully |
| fencing-tokens | lock table, token counter; per client held tokens; per resource highest token | acquire, release, renew, write | paused clients, expiry, takeover | one live holder; a resource never goes back | FencingTokens, without the unfenced server |
| lamport-clocks | per node clock, event log; request queue and acknowledgements | local event, send, receive, request, release | equal timestamps, repeated requests | timestamps respect causality; nobody is overtaken | Lamport |
| write-skew-detection | versions per key; per transaction snapshot, read set, write buffer, predicate results | begin, read, read_predicate, write, delete, commit, abort, constraints | write skew, phantoms, stale constraints | serializable | SSI |
| snapshot-isolation | version lists with creator and deleter; transaction table | begin, read, write, delete, commit, abort, scan, garbage_collect | order of writes against order of commits; collection under active snapshots | stable snapshots, no lost update | MVCC |

### Replication and membership

| component | state | operations | hard behaviours | correct when | status |
|---|---|---|---|---|---|
| leaderless-replication | per replica: value and version, hints; version counter | put, get with repair, anti-entropy, hints, availability | failed puts, late hints, changing quorums | acknowledged puts survive; reads do not go back | Dynamo |
| read-repair | per replica: value and version | put, get with repair, anti-entropy | other replicas up at each call | a get returns the last put | ReadRepair |
| hinted-handoff | per node: data, hints with expiry; version counter | put, handoff, expiry | several hints for a node, expiry, holders that fail | what a node missed is in a hint for it | HintedHandoff |
| leader-follower-replication | leader log and data; per follower data and LSN; session LSN | put, delete, register, offline, online, catch-up, promote, session read | gaps after trimming, promotion | a follower shows the leader's past | LeaderFollower |
| multi-leader-replication | per node: clock, entry, pending, seen | put, apply, sync | concurrent writes, two topologies, custom merges | nodes converge to the greatest write | MultiLeader |
| gossip-protocol | membership list per node | add, leave, fail, remove, gossip round | late rumours of life and death | the stopped are found and forgotten, the others are not | Gossip |
| conflict-free-replicated-data-types | counters, register, tagged set per replica | update, merge, sync | any merge order, repetition | a replica shows the updates that reached it | Crdt |
| vector-clocks | per node clock; per key siblings | put with a context, receive replica, reconcile | late, repeated and stale versions | clocks are causality; siblings are the latest versions | VersionedStore, without prune |

### Storage, partitioning and indexes

| component | state | operations | hard behaviours | correct when | status |
|---|---|---|---|---|---|
| write-ahead-log | files of records, sequence number, sync position | append, batch, checkpoint, truncate, rotate, replay, reopen | crash with a torn tail, half a batch, half a truncation | replay returns what was acknowledged, batches whole | WAL |
| hash-index-storage | data files, hint files, key directory | put, delete, get, compact, open | stop between two file operations of a compaction | reopening gives the same map | HashIndex |
| log-structured-hash-table | segments, hint files, index | put, delete, get, compact, hint files, rebuild | the same, and hints that grow stale | the same | HashTable |
| log-structured-merge-tree | log, memtable, tables | put, delete, get, scan, flush, compact, close | stop between flush and truncation | the same, scans agree | LSM |
| b-tree-storage-engine | pages, free list, root and counters | put, get, delete, scan, split | splits, removed leaves, reuse of pages, stops | the tree is a sorted map | BTree |
| sstable-and-compaction | tables by level | add, compact by size or level, get | tables that overlap in one key | the newest entry wins | SSTable, without the byte format |
| range-partitioning | partitions with their bounds | put, get, delete, scan, split, merge | keys on a boundary | routing and scans are those of one map | Partitioning |
| consistent-hashing | ring of virtual nodes | add, remove, get_node, get_nodes | arcs round the end of the ring | keys are where they were moved to | Partitioning |
| secondary-index-partitioning | documents, local and global index, pending index operations | put, delete, queries, flush | asynchronous index | a query finds what a scan finds | SecondaryIndex |
| merkle-tree | array of hashes | build, update, proof, diff | padding | trees differ where their blocks do | Merkle, the tree itself |

### Logs, streams and derived data

| component | state | operations | hard behaviours | correct when | status |
|---|---|---|---|---|---|
| partitioned-log | partitions, consumers' offsets, committed offsets, groups | send, poll, seek, commit, join, leave, compact, retention, restart | rebalancing, stale offsets | no message is skipped | PartitionedLog |
| change-data-capture | table, change log, consumer, view, search index | insert, update, delete, poll, refresh, compact, snapshot | compaction against slow readers | derived data equal the table | CDC |
| event-sourcing-store | events, projections, snapshots | append, batch, catch up, live events, snapshots, restart | live events against catching up | a projection folds each event once | EventStore |
| unbundled-database | log, store, change stream, derived systems | put, delete, flush, add, rebuild, reopen | snapshot against stream position | a system shows the records as of its position | Unbundled |
| stream-join-processor | buffers, watermark, results, windows | process, advance time, expire, close windows | edges of window and lateness | results are the windowed join | StreamJoin |

### Not modelled

map-side-join, mapreduce-framework and batch-word-count are sequential
functions over lists and files: no state survives a call and nothing
interleaves. bloom-filter's claim is a probability. avro-serializer is a byte
format without state. Tests say more about these than a model would. Of the
modelled components these parts are left out: LinearizableRegister and the
recursion limit of `_route_messages` (total-order-broadcast),
UnfencedResourceServer (fencing-tokens), `prune` (vector-clocks, unused by the
store), the byte format and the removal of tombstones (sstable), and
KeyRangeMerkleTree, the builder and serialization (merkle-tree).

## Modules

### Consensus and coordination

**Raft** (raft.py). `RaftCluster.tick` ticks all reachable nodes and then
delivers the collected messages one by one, each with its reply. `ClusterTick`
is the first half (any set of reachable nodes may have its timer fire), and
`DeliverRequestVote`, `DeliverAppendEntries` and `DropMessage` are the second,
in the order of the code (`IsNext`). `Submit`, `PartitionNode` and `HealNode`
happen between ticks. A tick in which `_make_append_entries` would index past
the leader's log raises and stops for the later nodes (`Raises`, `Ticked`).

**Pbft** (pbft.py). A node's state is a record, a handler an operator from
state and message to state and responses. `PbftDeliver` and `NextRound` are the
two loops of `run_protocol`. The cluster's calls run until nothing is pending; a
caller that hands a request to the primary and calls `run_protocol(max_rounds)`
itself, as test_pbft.py:79-85 does, may stop after one round or more, and the next
call finds messages pending (`running`, `Called`; `cuts` counts these). Every node may have any
of the code's byzantine modes, at most one of them. A digest is its request or
`Junk`.

**TwoPhaseCommit** (two_phase_commit.py) cuts `execute_transaction` at each call
to a participant (`PrepareYes`, `PrepareNo`, `PrepareUnavailable`,
`SendDecision`) and at each entry of the coordinator log (`LogDecision`,
`Finish`), so that `Crash` can come between any two. `Recover` resolves one
transaction. **AtomicCommit** is the abstract promise, seen from one
transaction: participants end alike, and commit only if all had prepared.

**TotalOrderBroadcast** (total_order_broadcast.py). Paxos per slot. `net` is the
order in which `_route_messages` handles messages, `turn` the node whose tick is
next; broadcast, crash and recovery happen between rounds. Acceptor state
survives a crash, proposals and pending messages do not. `Tick` has a guard of the
bound: a node with more pending messages than the bounded slots can take does not
tick, where the code would go on to further slots.

**Bully** (leader_election.py). `ClusterTick` ticks all nodes, `DeliverMail`
delivers one message with its response, `TickEnds` resolves a split brain. Times
are kept as ages up to the value from which they no longer matter. `calm` counts
ticks since the last failure or recovery.

**FencingTokens** (fencing_tokens.py). LockService, Client and
FencedResourceServer with an explicit clock. A token object is shared by service
and client, as in the code: `Renew` changes it for both.

**Lamport** (lamport.py). Messages are delivered inside the call that sends them.
The events that `_reaches` finds from an event are a prefix of every node's log,
so that an event keeps one number per node instead of its links. A request to all
other nodes is a recursive function over the nodes in order.

### Transactions

**SSI** (ssi_database.py). A transaction's buffer maps keys to values, with
`Absent` for a delete. Predicates are sets of accepted pairs, constraints sets of
accepted snapshots. The mode (`pessimistic`) is chosen in `Init`.

**MVCC** (mvcc_database.py). Version lists in the order of the writes, visibility
by transaction ids, `GarbageCollect` with both of its branches; its list
comprehensions keep the versions at some positions, in their order (`AtPositions`).
`collecting`, chosen in `Init`, says whether the application ever collects.

### Replication

Dynamo, ReadRepair, HintedHandoff and MultiLeader model one key, because their
operations treat keys independently; the others have several.

**Dynamo** (dynamo.py): put succeeds or fails as a whole (`PutSucceeds`,
`PutFails`); a failed put leaves its value at the replicas that accepted it and
takes the version counter back. **ReadRepair** (read_repair.py): put and get take
the first replicas that are up. **HintedHandoff** (hinted_handoff.py): `owed` is
the newest version a preferred node got or a hint was left for, and falls back
when that hint expires. **LeaderFollower** (replication.py): put and delete
include the propagation to the online followers; `past` is the leader's data
after each entry, `detached` the followers that the retained log did not reach.
**MultiLeader** (multi_leader.py): one `Sync` is the whole of `sync()` in either
topology. **Crdt** (crdts.py): a group of replicas of one type; `knows` is which
updates reached a replica. **VersionedStore** (vector_clock.py): a client may pass
the clocks of any versions it read as context, and a version may reach a node
late, twice or never. **Gossip** (gossip_protocol.py): `GossipRound` is a whole
round, with any choice of a peer for each node.

### Storage

The stores on disk are cut at their file operations, and the process may stop
between them. **WAL** (wal.py): a crash cuts the unsynced tail anywhere, also
inside a record, whose remains read as the end of the file, stop all reading or
raise (`Cut`). **HashIndex**, **HashTable** (the two bitcask.py) and **LSM**
(lsm.py) share `pc` (where in a compaction or a flush the call is), `todo` and
`stored`, the map the callers were told. HashTable may also stop inside a hint
file, LSM inside a table: `unfinished` is the file without a footer, which keeps the
store from opening. **BTree** (btree.py): an operation is the
sequence of the states of the file after each page write, and a stop keeps any
prefix of it. recover() repeats logged page images, which the file already has
unless the operation frees a page: `free_page` writes past the log, and the logged
empty leaf would replace the free-list node. It is the only module with RECURSIVE
operators, and no proof uses it.

**SSTable** (sstable.py), **Partitioning** (range_partitioning.py and
consistent_hashing.py, side by side), **SecondaryIndex**
(secondary_index_partitioning.py) and **Merkle** (merkle_tree.py) are sequential: any
sequence of calls is compared with a reference (the newest entry added, one map, the
holder of each position, the documents, the blocks). Hash functions are arbitrary: any placement of the
virtual nodes, any partitioning of keys and terms; SHA-256 is injective.

### Logs

**PartitionedLog** (partitioned_log.py): a log is a function from the offsets
it holds to the messages, so that what compaction and truncation leave is a set of
offsets and a gap is an offset outside it. `delivered` is what polls of the group
returned, `excused` the messages that were removed or that a start at the latest
offset passed over. **CDC** (cdc.py): the log is a function from sequence numbers to
changes; the consumer may be cut short inside a poll, before its position is saved.
**EventStore** (event_store.py): a projection's state is the sequence of ids its
handlers saw, and catching up is a recursive function over the events behind. **Unbundled** (unbundled_database.py): a derived
system is kept as index and as counts at once. **StreamJoin**
(stream_join_processor.py): events arrive in any order of their timestamps, and
the aggregator receives the results.

**NumberLemmas** holds lemmas on greatest, least and n-th elements of sets of
numbers that the proofs share.

## Runs

| run | instance | shows |
|---|---|---|
| consensus | Raft: 3 nodes, 2 terms, logs up to 2. PBFT: 4 nodes, 1 faulty in any mode, 3 requests, 2 view changes, 2 cuts | one leader per term and matching logs; one request per slot, equal executed logs when nothing was cut short |
| two_phase_commit | 2 participants, 2 transactions on one key | atomicity, locks exactly with in-doubt transactions, refinement of AtomicCommit |
| exclusion | 2 clients, 2 locks, 3 tokens, time to 3; mutex of 3 nodes, 4 calls; election of 4 nodes, 4 failures or recoveries | one live holder, fenced writes; clock condition, nobody overtaken; the highest available node leads |
| isolation | SSI: 3 transactions of 2 operations, 2 keys, both modes. MVCC: 4 transactions, 1 key, 2 values, 1 deleter | serializability, stable snapshots, constraints; first committer wins, new transactions read what was committed |
| total_order_broadcast | 3 nodes, 3 slots, 2 values, any crashes | agreement, total order, no duplication, no proposal for a decided slot; no deadlock |
| total_order_broadcast_live | as above, no crashes, fair | every broadcast is delivered everywhere |
| replication | 3 replicas (4 nodes with hints), 3 or 4 writes, gossip of 3 nodes for 8 rounds | acknowledged puts survive and reads do not go back; quorums, hints, followers, leaders, merges and gossip as below |
| storage | 2 keys, 4 operations, 2 stops for the stores on disk; 6 keys and 9 operations for the B-tree; logs of 5 records; 4 tables; 6 keys of ranges; 3 nodes on a ring of 7; 2 documents; 4 leaves | each structure against the map its callers were told |
| logs | 3 messages in 1 partition or 2 in 2, 2 consumers; 3 changes of 2 keys; 4 events; 3 log entries; 4 arrivals | nothing skipped, derived data as of their position, joins exact |
| raft_commit | 3 nodes, 3 terms, logs up to 1 | violation: a committed entry is missing at a later leader |
| pbft_agreement | 4 nodes, 2 requests, 2 view changes, 1 cut | violation: honest nodes execute different requests under one number |
| mvcc_collect | 3 transactions, 1 key, no deleter | violation: the collector removes a version an active snapshot reads |

### What the properties are about

* consensus. A Raft candidate that meets a leader of its own term becomes a
  follower and forgets its vote; `ElectionSafety` says there is still one leader.
  `LogMatching`: entries of equal index and term have equal prefixes after any
  sequence of leaders. `OneRequestPerSlot` and `RunsAgree`: view changes with a
  faulty node that equivocates, poisons digests or numbers, or is silent.
* two_phase_commit. `Atomicity` at every point of a crash; `LocksInDoubt`: commit,
  which frees locks without looking at their owner, never frees another
  transaction's, and no lock is left behind. `FirstIsAtomic` is the refinement.
* exclusion. `MutualExclusion` across takeover at the tick of expiry and late
  renewals, `FencedOrder` for writes of paused clients, `NoOvertaking` for the requests
  of others and of the node itself, `ClockCondition` for happens_before.
  `HighestLeads` also bounds the time to a leader: `SettleTime` ticks.
* isolation. `Serializable`: a committed writer read what the database held just
  before its commit, predicates included. `WritersExclude`: of two overlapping
  writers of a key one commits at most, though the conflict check looks only at
  versions that the collector left. `CommitsInOrder` relates the version
  list, which is in the order of writes, to the order of commits. `SnapshotStable`
  and `ReadsStable` are action properties on what an open transaction reads.
* total_order_broadcast. `NoDuplication` is about a value that loses its slot,
  is queued again and may have been carried through by another node.
* replication. `AckedSurvives` with hints delivered late and versions reused after
  failed puts; `MonotonicReads` when a read returned the value of a failed put.
  `QuorumStores`: a get returns the last put though other replicas are up; the
  newest version of a node is with it or in a hint until that expires.
  `ReplicasFollow`: followers within the log's reach show the leader's past, vector
  clocks order versions exactly by who knew of which, and siblings are the latest
  versions that reached a node. `MergesConverge`: CRDTs show what reached them, and
  last-write-wins leaders agree on the greatest write after as many syncs as nodes.
  `FailuresDetected`: who stopped is found within `TDead` and forgotten within
  `TCleanup` rounds (and as many as news needs), who did not is never found dead.
* storage. `AckedReplayed` and `LogIntact` for the log; `StoresDurable`: at every file
  operation of a compaction, flush or hint file, and after a stop there (but for
  the cases listed below), the directory holds the map that callers were told;
  `TreeSound`: get, chain of leaves,
  free list and count fit together; `SortedStores` and `LookupsExact` are about
  tables, partitions, arcs and indexes that meet in one key.
* logs. `AtLeastOnce`: every message below a committed offset, or below the offset
  of its partition's owner, was returned by a poll. `DerivedFromLog`,
  `ProjectionsExact`, `DerivedAsOf`: derived data against the log up to their
  position, whatever is compacted, truncated or restarted in between (for the search
  index see `overlooked`). `JoinExact`: each pair once, a miss is in no pair, windows close once.

### Bounds

Three nodes give two different majorities and a partition with a minority side;
four are the least for PBFT. Two terms give a stale leader and its successor; the
commit anomaly needs three. Two conflicting transactions are the smallest case in
which locks of one matter to the other. Three transactions of two operations
contain write skew, the phantom and the read-only anomaly; four transactions let
the collector see one that overlaps two others. Three slots and two values
let a value lose two slots. Three versions let a hint be two versions old. Four
operations with files of one or two records give a compaction of several files,
an overwrite and a delete across it, and a second stop while the first is being
repaired. Six keys with two per page give a tree of three levels. Four tables
reach level 2 and the second tier. A ring of seven with two virtual nodes for each
of three nodes has arcs round its end and nodes next to each other.

### What the runs leave out on purpose

Each of these is a case in which the code loses something; the run excludes it
with a named constant or history variable, and *Findings* describes it.

* `StopPoints` leaves out a stop of hash-index-storage between the hint file of
  the merged file and the renaming of the active one. Its hint files are written as a
  whole: one cut by a stop may make opening raise.
* `hidden`: keys of log-structured-hash-table that were to be in a hint file
  which a stop cut short (bitcask.py:382), until they are written again: recovery reads
  the hint file instead of the segment and does not find them.
* `Puts = {a, b}`: no put of the empty string in hash-index-storage. Its record reads as
  a tombstone to `compact`, which drops it, while `keydir` goes on pointing to the file
  that compact deletes (bitcask.py:235).
* Of the merge tree, `LsmDurable` asks nothing of a scan while a table has no entry
  (`ScanRaises`), because lsm.py:168 then raises an IndexError; of a store that does
  not open because of a table without a footer, it asks what the log and the other
  tables hold.
* Records of the two hash-indexed stores and of the merge tree's log reach the disk as
  a whole. One cut by a power failure would end every later scan of its file.
* `StopInSplit = FALSE`: no stop inside a B-tree operation that allocates or frees
  a page, and so none behind the commit record of a delete whose replay would write an
  empty leaf over a free-list node.
* `damaged`: the log after a crash that left a torn record or an open batch.
* `overlooked`: keys of which `compact` removed a DELETE that the search index had not
  read. The index may keep old tokens of such a key; that its row is right and is found
  under its token is asked of every key.
* `detached`: followers that the retained log no longer reaches; `gapped`: live
  projections that were behind when an event came; `whole`: derived systems that
  were given every record; `orderly`: registers whose callers pass growing
  timestamps.
* `Deleter = {3}`: one deleting transaction of MVCC, late enough that two others
  may have overlapped before it.
* `lateness = 0` for completeness of joins and windows; the other join properties
  hold for both latenesses.

### Fairness

Only TotalOrderBroadcast states fairness: weak fairness of ticks, of handling or
dropping the next message and of ending a round, because
`run_until_delivered` is a loop that ticks every node and routes until no
message is left. Crashes, recoveries and broadcasts are never fair. Elections of
the bully algorithm, syncs of leaders and gossip are checked for a bounded time
instead (`SettleTime`, `quiet`, `TDead`), which is stronger. Raft's
progress depends on random timeouts, which no fairness condition of the code
expresses, and two-phase commit may block.

CHECK_DEADLOCK is off where the bounds end every behaviour (a client that simply
stops calling); TotalOrderBroadcast is checked for deadlock.

## Proofs

| theorem | statement | argument |
|---|---|---|
| RaftProofs!TypeCorrect, TwoPhaseCommitProofs!TypeCorrect, ExclusionProofs!TypeCorrect, IsolationProofs!TypeCorrect, ReplicationProofs!TypeCorrect, TotalOrderBroadcastProofs!TypeCorrect | `Spec => []TypeOK` | induction, one step per action |
| RaftProofs!ElectionSafe | `Spec => []ElectionSafety` | `ElectionInv` |
| RaftProofs!LogsAgree | `Spec => []LogMatching` | `MatchingInv` |
| TwoPhaseCommitProofs!Atomic | `Spec => []Atomicity` | `DecisionFirst` |
| TwoPhaseCommitProofs!LocksOwned | `Spec => []LocksInDoubt` | `DecisionFirst`, `PhaseOne` |
| TwoPhaseCommitProofs!ImplementsAtomicCommit | `Spec => FirstIsAtomic` | the same, one step of AtomicCommit or a stutter per action |
| TotalOrderBroadcastProofs!NodesAgree, OneOrder, ProposalsOpen | `Spec => []Agreement`, `Spec => []TotalOrder`, `Spec => []NoDecidedProposal` | `PaxosInv` |
| TotalOrderBroadcastProofs!NothingTwice | `Spec => []NoDuplication` | `OnceInv`, Agreement |
| ExclusionProofs!Exclusive, Fenced | `Spec => []MutualExclusion`, `Spec => FencedOrder` | `LiveTokenIsCurrent` |
| ExclusionProofs!ClocksRespectCausality, NobodyOvertaken | `ExclusionSpec => []ClockCondition`, `ExclusionSpec => NoOvertaking` | `MutexInv` |
| IsolationProofs!SerializableHistory | `Spec => []Serializable` | `SerialInv` |
| IsolationProofs!SnapshotsStay, ConstraintsStay | `Spec => SnapshotStable`, `Spec => ConstraintsKept` | versions below the clock, `SerialInv` |
| IsolationProofs!WritersAreExclusive | `IsolationSpec => []WritersExclude` | `MvccInv` |
| IsolationProofs!ReadsStay | `IsolationSpec => ReadsStable`, one deleter at most | `MvccInv` |
| IsolationProofs!CommitsAreRead | `IsolationSpec => []CommitsInOrder`, one deleter at most | `MvccInv`, `CommitsInv` |
| ReplicationProofs!AckedPutsSurvive, ReadsAreMonotonic | `Spec => []AckedSurvives`, `Spec => MonotonicReads` | `AckedInv`, `ReadInv` |
| ReplicationProofs!NumberedStores | `ReplicationSpec => []QuorumStores` | `RepairInv`, `HintInv` |
| ReplicationProofs!FollowersFollow | `ReplicationSpec => []ReplicasFollow` | `FollowerInv`, `VersionInv` |
| LogsProofs!DeliveredAtLeastOnce | `LogsSpec => []AtLeastOnce` | `BrokerInv` |
| LogsProofs!DerivedDataAgrees | `LogsSpec => []DerivedFromLog` | `CdcInv` |
| LogsProofs!ProjectionsCurrent | `LogsSpec => []ProjectionsExact` | `EventInv` |
| LogsProofs!StreamsJoined | `LogsSpec => []JoinExact` | `JoinInv` |

They hold for any number of nodes, clients, transactions, keys, values, messages and
events; the bounds are constants of the modules and may be any natural number. The only
assumptions are the named ASSUMEs of the modules, which TLC evaluates on every run:

* sizes are positive, bounds are natural numbers, and `None`, `Absent`, `NoRow` and the
  like are no values, keys or offsets;
* Dynamo's quorums are between 1 and N; replicas, followers, nodes with hints and mutex
  nodes are finitely many and numbered (`RepairAssumption`, `HintAssumption`,
  `FollowerAssumption`, `MutexAssumption`), a write quorum is positive, the leader
  retains at least one log entry, and a hint's lifetime is a number;
* a topic has at least one partition (`LogAssumption`); a projection is live or polling,
  not both (`ProjectionAssumption`); durations and latenesses are integers and a window
  has a positive size (`JoinAssumption`).

* *ElectionInv.* For every election won, the history records its voters: a
  majority, each of which is past that term or still has that vote. A node
  forgets a vote within a term only as a candidate, and then only the vote for
  itself, which no election of the term holds. Two candidates of a term share
  no voter, and a candidate shares none with an election won in its term; two
  majorities would.
* *MatchingInv.* An append_entries message is a slice of the log its sender had when
  the tick began, which another leader's message may cut before the slice is
  delivered. So there are logs `sent`, one per node, of which the messages under way
  are slices; all logs, the present ones and these, match pairwise; every entry's
  term had an election, and no log has more entries of a leader's term than the
  leader. A follower that appends a slice keeps a prefix of its own log or has a
  prefix of the sender's, so that nothing new has to match. LogMatching alone says
  nothing of messages.
* *DecisionFirst.* A participant's outcome follows the coordinator's log entry,
  except for a refusal in phase 1, which the coordinator holds as a "no" vote
  until it has logged its decision. Atomicity alone is not inductive: nothing
  in it says what a coordinator that recovers will send. *PhaseOne*: who has still to
  vote knows nothing of the transaction, who voted "yes" is prepared, and all that a
  committed transaction involves were prepared; the last is what AtomicCommit asks of
  a commit.
* *PaxosInv.* Messages are consumed, acceptors keep their last acceptance only, and a
  recovered node forgets its proposals and uses their numbers again. So there are sets
  `V` of all acceptances and `P` of all proposals that reached phase 2, of which the
  state shows a part. In P a number has one value per slot, which is safe: for every
  lower number some majority accepted that value or will never accept any. A
  promise, under way or counted, covers everything its acceptor accepted below its
  number. Why one value per number although numbers are reused: a number in P was
  promised by a majority; an acceptor promises a number once (`num > promise`), and
  between rounds no promise is under way, so the second user of the number finds too
  few acceptors left (`Spent`). What a node decided is chosen in V, and `ChosenOnce`
  gives agreement; what it delivered is what it decided, slot by slot, and gives
  one order.
* *OnceInv.* There is a set `O` of all <<slot, value, node>> such that the node's tick
  proposed a value it had broadcast for the slot. What is voted on, promised, accepted
  or decided for a slot is in `O` with that slot (`ValuesOwned`). Of the slots a node
  proposed a value for, it knows all but one to be decided for something else, and all
  of them while the value is queued; a queued value is not queued twice (`OneAttempt`).
  A value goes back to the queue only from a slot that it lost, which was its
  last hope. So two slots that deliver a value were proposed by different nodes: by
  agreement neither of them is lost at the node that proposed it. Agreement is needed,
  since whether a slot is lost is what the proposer thinks of it.
* *LiveTokenIsCurrent.* A token that is not expired and held is the one in the
  lock table; `acquire` only replaces expired ones, `renew` only extends the
  current one.
* *SerialInv.* Versions carry the commit timestamp of their writer; none of a
  key that a committed writer read or wrote lies between its start and its
  commit; recorded predicate results differ from the snapshot only on own
  writes. Because no version is newer than the clock, a commit adds nothing below
  the start of an active transaction.
* *MvccInv.* Transactions begin in the order of their ids, and one that is active was
  active at the start of all that began after it (`Overlaps`): so what a transaction
  sees is fixed at its beginning, though it is computed from the present statuses.
  A version's creator and deleter wrote its key, and the deleter saw the creator
  (`VersionsOwned`); committed creators of a key did not overlap (`CreatorsApart`).
  FirstCommitterWins is not inductive, because the conflict check looks for a version
  of the other writer, which a collection may have removed: `WritesKept` says that it
  is listed as long as an overlapping transaction is active, since the collector takes
  a version only if something old replaces it.
* *CommitsInv.* Versions are in the order of the writes. So, of two, the later one has
  the later creator or one that was active when the earlier's began
  (`ListedInOrder`), and a deleter has marked all that it sees (`MarkedAll`).
  A commit without conflict therefore reads the last live version, and the last live
  version is never superseded: the version that would replace it is deleted,
  and its deleter would have deleted both. `ReadsStay` and `CommitsAreRead` assume that
  at most one transaction deletes; with two the second overwrites the first's mark
  (mvcc_database.py:187), and both properties fail.
* *AckedInv.* The counter is the version last acknowledged, at least W replicas
  hold that put or something newer, and a hint of that version carries that
  value. *ReadInv*: at least R replicas hold what the last get returned.
* *RepairInv.* At least as many replicas as the write quorum hold the last put, and
  nobody a newer one. *HintInv.* Hints are with nodes that are not preferred, none is
  newer than what its target is owed, and of two hints the older version was left
  first, so that it expires first and is never all that is left.

* *MutexInv.* A node's timestamps increase up to its clock; the last event of another
  node that an event reaches exists and is earlier; and every clock has passed every
  request in the queue, since a request reaches all nodes inside the call. The clock
  condition is the second part. A new request therefore comes after all that are
  queued, which is why a node that may enter keeps that right (`NoOvertaking`); the
  acknowledgements alone would not give it.
* *FollowerInv.* The retained log has no gaps and ends at the last entry, and it leads
  from each earlier state of the leader to the present one: a key without an entry
  after `l` has the value it had at `l`. A follower that catches up through the log
  gets the leader's data although it applies only entries after its own; one whose
  next entry was trimmed is `detached`, since the code sends no snapshot.
* *VersionInv.* For every version there is a node (its writer) whose entry tells who
  knows of it: whatever has that entry at least as great follows the version. Nobody
  is ahead of a node in its own entry, so that a new version gets a mark nobody has,
  although the merge of two contexts is not the clock of any version.
* *BrokerInv.* A partition holds the messages of its file at their places there, up to
  the last, and only compaction leaves gaps. Every offset that a consumer knows, member
  or not, assigned or not, is accounted for: all messages of the file below it were
  returned, removed or passed over. AtLeastOnce speaks of owners only and is not
  inductive: `commit` writes the offsets of partitions a consumer no longer has. It
  speaks of messages in memory, but a restart brings removed ones back, so that the
  invariant is about the files. `truncate` after gaps moves the base too little, not too
  much (partitioned_log.py:103), and needs no exception.
* *CdcInv.* The last change of a key in the log says what its row is, and a reader is
  right about every key that has no change left for it to read. Compaction removes only
  changes that have a later one. The index finds rows by their present token even
  after compaction; that it lists a key under nothing else holds of keys that are not in
  `overlooked`, because an INSERT whose DELETE was compacted away removes no token.
* *EventInv.* Each projection and snapshot is `Exact`: its state is the ids of the
  events up to its position, in order. A snapshot keeps whether it was taken from a state with a
  gap, because loading it brings the gap back.
* *JoinInv.* An event that left its buffer is too old for every later event and was
  paired, or reported as the type of join asks; the mark of a buffered one says whether
  it was paired. Expiry compares with the watermark of the present event, so that a
  late event finds fewer partners, never wrong ones. Results wait in windows that are
  open (`WindowState`), and a window closes when the watermark has passed its end.

Polling, catching up and requesting are recursive functions (`after[i]` from
`after[i - 1]`). The proofs first show that such a function exists (`Iteration`)
and then count up a set of indices (`CountUp`): both are instances of the least number
principle, because the library's induction theorems take an operator.

A type invariant that is proved for every value of the constants (Raft's, for one) is
not listed again in a run.

The invariants were checked with TLC before they were proved; for PaxosInv, OnceInv
and MatchingInv the sets and logs that the proof only asserts to exist were kept as
history variables.

Only model-checked: liveness (`EventuallyDelivered`), because fairness and ENABLED are
out of the prover's reach; `HighestLeads` and `FailuresDetected`, which bound the time of
an election and of gossip and would need an argument about every round;
`OneRequestPerSlot` and `RunsAgree`; `MergesConverge` and `DerivedAsOf`, whose states are
folds over sets and sequences; and storage, where the state is a sequence of file
operations. The B-tree uses RECURSIVE operators, with which the SMT backend is lost.

## Findings

Three have a violation run; PROJECT.json quotes the line that says otherwise.

1. raft.py:154. A follower acknowledges its whole log, including entries left by
   a deposed leader; the leader counts them as replicated.
2. pbft.py:383. A node that starts a view change reports what is prepared at that
   moment and goes on preparing and committing in its old view. When the VIEW_CHANGEs go
   out while a request is under way, three nodes may execute it in the old view, while
   the new primary drops their commits (line 154) and, since nobody reported the
   request, gives its number to another (line 337).
3. mvcc_database.py:313. The collector mistakes "committed, with a smaller id"
   for "visible to every active transaction".

Observed while modelling, without a run of their own.

Against a comment, docstring or test of the repository:

* total_order_broadcast.py:139, "Retry any in-progress proposals that need
  re-proposing": a proposal whose messages went to crashed nodes is not retried
  (only decided slots are looked at), and blocks delivery from its slot on.
* dynamo.py:102: the version of a failed put is used again for another value;
  `anti_entropy_repair` (dynamo.py:181, "Sync all replicas to highest version for
  each key.") compares versions and leaves the replicas different.
* bitcask.py:301 of hash-index-storage, "This ordering ensures a crash always
  leaves valid data on disk.": after a stop before the renaming, the merged file
  becomes the active one; it has a hint file, so that what is appended to it
  later is not found by the next opening.
* btree.py:308, "Disk-backed B-tree with WAL crash safety.": a page is overwritten
  in place before the pages that point to its new sibling; a stop inside a split
  loses half of a leaf's keys, and the log has no commit record to repair it.
* wal.py:109 and 239: records appended behind a torn record are never read again,
  and single records after a batch without its COMMIT count as part of it.
* replication.py:216 of leader-follower-replication: when no follower is recent
  enough the session reads from the best one and goes back, though line 210 says
  "Read from a follower with monotonic read guarantee."
* multi_leader.py:163: two custom merges may stamp different values with the same
  timestamp and origin; nodes then keep different values.
* partitioned_log.py:103: `truncate` after `compact` adds the number of removed
  messages to the base offset, which after gaps is too low; test_partitioned_log.py:287
  says "After compaction creates offset gaps, read/append/latest_offset still work
  correctly."
* bitcask.py:382 of log-structured-hash-table: a hint file is opened under its own name
  before its entries are written, and recovery prefers it to the segment; after a stop
  in between the segment's live keys are gone. Line 301 has the same comment as above.
* cdc.py:290: the search index does not remove old tokens on INSERT; when the log
  was compacted over a DELETE, a key stays listed under a token of its former row.
* event_store.py:71, "Atomically append multiple events to a stream.": the events
  of a batch are written one by one, and a stop leaves part of the batch.
* unbundled_database.py:434: after reopening there are no events, so that a system
  added then gets no snapshot, though line 432 says "optionally catching up on
  existing data".
* vector_clock.py:123, "concurrent sibling survives": the new clock includes the
  node's, which covers everything the node received, so that this branch is never
  taken and a put with a stale context replaces the siblings.
* crdts.py:85: `set` with an explicit timestamp that is not later changes one replica
  only; "Two rounds of all-pairs sync guarantees convergence" (crdts.py:218) then
  fails.
* consistent_hashing.py:45, "The arc [prev_vnode+1, pos] transfers from old_owner to
  node_id": `get_node` uses bisect_right and routes the key at `pos` itself to the next
  virtual node. `KeysAreRouted` leaves these positions out.
* merkle_tree.py:236, "Find keys that differ between two trees.": a key that only the
  other tree has is not reported when its index is below this tree's number of keys.

Other behaviours a user should know:

* two_phase_commit.py:143: a participant that was unavailable in phase 2 stays in
  doubt, because `recover` looks at unfinished transactions only.
* fencing_tokens.py:138: `release_lock` raises KeyError after the release if the
  client had already dropped its expired token.
* ssi_database.py:298: `abort()` of a committed transaction changes the reported
  status and leaves its versions visible.
* mvcc_database.py:187: a second deleter overwrites the mark of a committed
  deletion, which brings the key back; a write that overlaps a committed delete is
  not a conflict.
* pbft.py:337: without any cut, a new primary whose counter is behind gives a
  request a number that was executed already, and the request is never executed.
* gossip: with four nodes or more, an unlucky choice of peers may declare a live
  node dead, and a node told of its own death stays dead.
* partitioned-log: a commit writes stale offsets of partitions the consumer no
  longer has (messages are then delivered again, not skipped); a closed consumer
  keeps its assignment; the offsets file is rewritten in place.
* event-sourcing-store: a LiveProjection made late, reset, or loaded from a snapshot
  skips the events between its position and the next live one.
* stream-join-processor: with lateness, partners that have already expired are
  missed and reported as misses; misses of outer joins reopen closed windows.
* log-structured-merge-tree: `range_scan` raises on a table without entries, which a
  compaction of tombstones leaves; after a stop between the opening of a table's file and
  its footer (lsm.py:89-108) `load_index` raises, and the store does not open until
  that file is removed, though nothing is lost with it.
* hash-index-storage: after `put(k, "")` and a compaction, `get(k)` raises, because the
  directory points to a deleted file.
* write-ahead-log: a record torn within its first fields, with records behind it, makes
  `_read_record` raise struct.error, which nothing catches: the log does not open.
* b-tree-storage-engine: `min_key` and `max_key` return None when the outermost leaf
  is empty; the page size is overwritten by the next write of the metadata.
* sstable: of entries with equal timestamps the older table's is kept; the ranges of
  one level may overlap, with distinct keys.
* consistent-hashing: a weight small enough to give no virtual nodes makes
  `get_nodes` return fewer nodes than the replication factor.

## Plan

1. Proofs, in this order: `OneRequestPerSlot` of PBFT; convergence of MultiLeader's
   last-write-wins ("the entry is the greatest write seen"); `AckedReplayed` of the log.
   The last first needs its list, now cut with SelectSeq, as a function from positions,
   as the logs have become.
2. LinearizableRegister over TotalOrderBroadcast.
3. KeyRangeMerkleTree and the joins of map-side-join as operators against reference
   definitions.
