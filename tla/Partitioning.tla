----------------------------- MODULE Partitioning -----------------------------
(***************************************************************************)
(* Two ways to say where a key is, by ranges and by a ring of hashes.      *)
(*                                                                         *)
(* range-partitioning/range_partitioning.py: RangePartitionedStore and its *)
(* Partitions.  Keys are integers; 0 is the empty string and Top stands    *)
(* for the end key None.  The sorted lists of a partition are a function   *)
(* on its keys, and _boundaries is the start keys of the partitions: every *)
(* insert and pop of one list is paired with one of the other.             *)
(*                                                                         *)
(* consistent-hashing/consistent_hashing.py: ConsistentHashRing.  The hash *)
(* function is any placement of the nodes' virtual nodes on a small ring,  *)
(* no two in one place; a key is its position.  Whoever stores the keys    *)
(* moves them as the transfers that add_node and remove_node return say,   *)
(* in their order.  The lock makes every call atomic.                      *)
(***************************************************************************)
EXTENDS Integers, Sequences, FiniteSets, SequencesExt, FiniteSetsExt, Functions

CONSTANTS
    PartKey,            \* the keys written
    PartValue,          \* the values
    MaxPartitionSize,
    MinPartitionSize,
    RingNode,           \* physical nodes, integers
    NoNode,             \* the holder of a position while the ring is empty
    VnodeCount,         \* num_vnodes times the weight
    RingSize,           \* RING_SIZE
    ReplicationFactor

VARIABLES
    parts,              \* _partitions
    mapped,             \* history: what the callers stored
    placed,             \* the hash: position of each virtual node
    ring,               \* _ring_positions with _ring_nodes, sorted
    heldBy,             \* history: who holds the keys of a position
    fromHolder          \* history: every transfer so far was from the holder

(***************************************************************************)
(* Ranges: put, delete and merge_small_partitions                          *)
(***************************************************************************)

partVars == <<parts, mapped>>

Top == 1 + CHOOSE k \in PartKey : \A m \in PartKey : m <= k
Size(p) == Cardinality(DOMAIN p.data)
EmptyMap == [k \in {} |-> 0]
With(f, k, v) == [m \in DOMAIN f \cup {k} |-> IF m = k THEN v ELSE f[m]]
Without(f, k) == Restrict(f, DOMAIN f \ {k})

\* _find_partition_index: bisect_right of the boundaries
Index(key) == Cardinality({i \in DOMAIN parts : parts[i].start <= key})

\* Partition.split at the median key
Split(p) ==
    LET keys   == SetToSortSeq(DOMAIN p.data, <)
        median == keys[Len(keys) \div 2 + 1]
    IN  <<[start |-> p.start, end |-> median, data |-> Restrict(p.data, {k \in DOMAIN p.data : k < median})],
          [start |-> median, end |-> p.end, data |-> Restrict(p.data, {k \in DOMAIN p.data : k >= median})]>>

\* put, which splits a partition that has become too large
Put(key, value) ==
    LET i == Index(key)
        p == [parts[i] EXCEPT !.data = With(@, key, value)]
        replaced == IF Size(p) > MaxPartitionSize THEN Split(p) ELSE <<p>>
    IN  /\ parts' = SubSeq(parts, 1, i - 1) \o replaced \o SubSeq(parts, i + 1, Len(parts))
        /\ mapped' = With(mapped, key, value)

Delete(key) ==
    /\ key \in DOMAIN parts[Index(key)].data
    /\ parts' = [parts EXCEPT ![Index(key)].data = Without(@, key)]
    /\ mapped' = Without(mapped, key)

\* merge_small_partitions: from the left, each into the one before it while the
\* two together are small.
Joined(p, q) ==
    [start |-> p.start, end |-> q.end,
     data |-> [k \in DOMAIN p.data \cup DOMAIN q.data |-> IF k \in DOMAIN p.data THEN p.data[k] ELSE q.data[k]]]
JoinNext(done, q) ==
    IF done # <<>> /\ Size(Last(done)) + Size(q) <= MinPartitionSize
    THEN Append(Front(done), Joined(Last(done), q))
    ELSE Append(done, q)
MergeSmallPartitions ==
    /\ parts' = FoldLeft(JoinNext, <<>>, parts)
    /\ UNCHANGED mapped

RangeInit ==
    /\ parts = <<[start |-> 0, end |-> Top, data |-> EmptyMap]>>
    /\ mapped = EmptyMap

RangeNext ==
    \/ \E key \in PartKey : Delete(key) \/ \E value \in PartValue : Put(key, value)
    \/ MergeSmallPartitions

RangeSpec == RangeInit /\ [][RangeNext]_partVars

(***************************************************************************)
(* Ranges: reads                                                           *)
(***************************************************************************)

\* Partition.range_scan
Rows(f, from, to) ==
    LET keys == SetToSortSeq({k \in DOMAIN f : from <= k /\ k < to}, <)
    IN  [i \in DOMAIN keys |-> <<keys[i], f[keys[i]]>>]

\* range_scan: a partition that starts at the end key has nothing to add.
LastIndex_Before(to) == Index(to) - 1
LastIndex(to) ==
    IF to = Top THEN Len(parts)
    ELSE IF Index(to) > 1 /\ parts[Index(to)].start = to THEN Index(to) - 1 ELSE Index(to)
RangeScan(from, to) ==
    FlattenSeq([i \in 1..(LastIndex(to) - Index(from) + 1) |->
                   Rows(parts[Index(from) + i - 1].data, from, to)])

(***************************************************************************)
(* Ranges: the property                                                    *)
(***************************************************************************)

\* After any splits, deletions and merges the partitions cover the keys without
\* gap or overlap, a key is found in the partition it is routed to, and a scan
\* from any key to any key returns the rows of a single sorted map.
RangesRouted ==
    /\ parts[1].start = 0 /\ Last(parts).end = Top
    /\ \A i \in DOMAIN parts : \A k \in DOMAIN parts[i].data : parts[i].start <= k /\ k < parts[i].end
    /\ \A i \in 2..Len(parts) : parts[i-1].end = parts[i].start /\ parts[i-1].start < parts[i].start
    /\ \A k \in PartKey : LET f == parts[Index(k)].data
                          IN  /\ k \in DOMAIN f <=> k \in DOMAIN mapped
                              /\ k \in DOMAIN f => f[k] = mapped[k]
    /\ \A from \in 0..(Top - 1), to \in 0..Top : RangeScan(from, to) = Rows(mapped, from, to)

(***************************************************************************)
(* The ring: add_node and remove_node, one virtual node after the other    *)
(***************************************************************************)

ringVars == <<placed, ring, heldBy, fromHolder>>

Position == 0..(RingSize - 1)
Nodes == {v.node : v \in Range(ring)}

\* bisect_left and bisect_right of the positions, from 0
BisectLeft(r, p) == Cardinality({i \in DOMAIN r : r[i].pos < p})
BisectRight(r, p) == Cardinality({i \in DOMAIN r : r[i].pos <= p})
At(r, i) == r[(i % Len(r)) + 1]

\* The arc that ends at p in r.
ArcTo_OwnStart(r, p) == [start |-> At(r, (BisectLeft(r, p) % Len(r)) - 1).pos, end |-> p]
ArcTo(r, p) == [start |-> (At(r, (BisectLeft(r, p) % Len(r)) - 1).pos + 1) % RingSize, end |-> p]
Successor(r, p) == At(r, BisectLeft(r, p)).node
InArc(a, p) == IF a.start <= a.end THEN p \in a.start..a.end ELSE p >= a.start \/ p <= a.end

Transfer(r, p, from, to) == [arc |-> ArcTo(r, p), from |-> from, to |-> to]

AddVnode(node, s, p) ==
    [ring |-> InsertAt(s.ring, BisectLeft(s.ring, p) + 1, [pos |-> p, node |-> node]),
     transfers |-> IF s.ring # <<>> /\ Successor(s.ring, p) # node
                   THEN Append(s.transfers, Transfer(s.ring, p, Successor(s.ring, p), node))
                   ELSE s.transfers]

RemoveVnode(node, s, p) ==
    LET r == SelectSeq(s.ring, LAMBDA v : v.pos # p)
    IN  [ring |-> r,
         transfers |-> IF r # <<>> THEN Append(s.transfers, Transfer(r, p, node, Successor(r, p)))
                       ELSE s.transfers]

\* The keys of an arc go to the new owner.
Moved(s, t) ==
    [held |-> [p \in Position |-> IF InArc(t.arc, p) THEN t.to ELSE s.held[p]],
     right |-> s.right /\ \A p \in Position : InArc(t.arc, p) => s.held[p] = t.from]
Move(before, transfers) ==
    LET after == FoldLeft(Moved, [held |-> before, right |-> fromHolder], transfers)
    IN  heldBy' = after.held /\ fromHolder' = after.right

AddNode(node) ==
    LET s == FoldLeft(LAMBDA x, p : AddVnode(node, x, p),
                      [ring |-> ring, transfers |-> <<>>], placed[node])
    IN  /\ node \notin Nodes
        /\ ring' = s.ring
        /\ Move(IF ring = <<>> THEN [p \in Position |-> node] ELSE heldBy, s.transfers)
        /\ UNCHANGED placed

RemoveNode(node) ==
    LET own == SetToSortSeq(Range(placed[node]), >)
        s   == FoldLeft(LAMBDA x, p : RemoveVnode(node, x, p),
                        [ring |-> ring, transfers |-> <<>>], own)
    IN  /\ node \in Nodes
        /\ ring' = s.ring
        /\ IF s.ring = <<>>
           THEN heldBy' = [p \in Position |-> NoNode] /\ UNCHANGED fromHolder
           ELSE Move(heldBy, s.transfers)
        /\ UNCHANGED placed

RingInit ==
    /\ placed \in {f \in [RingNode -> [1..VnodeCount -> Position]] :
                      \A x, y \in RingNode \X (1..VnodeCount) : x # y => f[x[1]][x[2]] # f[y[1]][y[2]]}
    /\ ring = <<>>
    /\ heldBy = [p \in Position |-> NoNode]
    /\ fromHolder = TRUE

RingNext == \E node \in RingNode : AddNode(node) \/ RemoveNode(node)

RingSpec == RingInit /\ [][RingNext]_ringVars

(***************************************************************************)
(* The ring: reads                                                         *)
(***************************************************************************)

\* get_node, and get_nodes, which raises where there are fewer nodes than replicas.
TooFewNodes == Cardinality(Nodes) < ReplicationFactor
GetNode(p) == At(ring, BisectRight(ring, p)).node
GetNodes(p) ==
    LET walk == [i \in 1..Len(ring) |-> At(ring, BisectRight(ring, p) + i - 1).node]
        once(s, n) == IF n \in Range(s) \/ Len(s) = ReplicationFactor THEN s ELSE Append(s, n)
    IN  IF TooFewNodes THEN <<>> ELSE FoldLeft(once, <<>>, walk)

(***************************************************************************)
(* The ring: the property                                                  *)
(***************************************************************************)

\* Keys that were moved as the transfers say are where get_node looks for them,
\* except at the very position of a virtual node, and every transfer names the
\* holder as its source.  The preference list, where there are nodes enough for one,
\* has as many nodes as replicas are asked for, the owner first.
KeysAreRouted ==
    ring # <<>> =>
       /\ fromHolder
       /\ \A p \in Position \ {v.pos : v \in Range(ring)} : heldBy[p] = GetNode(p)
       /\ ~TooFewNodes => \A p \in Position :
             LET ns == GetNodes(p)
             IN  /\ ns[1] = GetNode(p) /\ IsInjective(ns)
                 /\ Len(ns) = ReplicationFactor
=============================================================================
