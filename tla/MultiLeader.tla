------------------------------ MODULE MultiLeader ------------------------------
(***************************************************************************)
(* multi-leader-replication/multi_leader.py: ReplicaNode and               *)
(* MultiLeaderCluster, for one key.                                        *)
(*                                                                         *)
(* Any node takes writes, stamps them with its Lamport clock and queues    *)
(* them; sync hands everything queued to the other nodes, or round the     *)
(* ring, and a node queues what is new to it once more.  A value is a set  *)
(* of written values; the merge function given to the custom strategy is   *)
(* their union.  The conflict log, which nothing reads, is left out.       *)
(***************************************************************************)
EXTENDS Integers, Sequences, FiniteSets, SequencesExt, FiniteSetsExt

CONSTANTS
    Leaders,        \* 1..n, in the order of _node_order
    MValue,
    NoEntry,
    MaxMWrites      \* bound: puts and deletes

VARIABLES
    strategy, topology,   \* fixed when the cluster is made
    nodes,                \* ReplicaNode: _clock, _store[key], _pending, _seen[key]
    writes,               \* how many were made
    quiet                 \* syncs since the last write

leaderVars == <<strategy, topology, nodes, writes, quiet>>

Stamp(c) == <<c.ts, c.origin>>

\* (remote_ts, remote_node) > (local_ts, local_origin)
Beats_ByTime(c, e) == c.ts > e.ts
Beats(c, e) == c.ts > e.ts \/ (c.ts = e.ts /\ c.origin > e.origin)

\* The custom strategy's result and its stamp.
Merged(c, e) == [ts |-> Max({c.ts, e.ts}) + 1, origin |-> Max({c.origin, e.origin}),
                 val |-> c.val \cup e.val, tomb |-> FALSE]

\* apply_remote_change
Apply(n, c) ==
    LET e == n.entry
        met == [n EXCEPT !.clock = Max({@, c.ts}) + 1, !.seen = @ \cup {Stamp(c)}]
        passOn == [met EXCEPT !.pending = Append(@, c)]
        merged == Merged(c, e)
    IN  IF Stamp(c) \in n.seen THEN n
        ELSE IF e = NoEntry THEN [passOn EXCEPT !.entry = c]
        ELSE IF strategy = "lww" \/ c.origin = e.origin
        THEN [passOn EXCEPT !.entry = IF Beats(c, e) THEN c ELSE e]
        ELSE [met EXCEPT !.clock = Max({@, merged.ts}), !.entry = merged,
                         !.seen = @ \cup {Stamp(merged)}, !.pending = Append(@, merged)]

\* Who a node's changes go to, in order.
Receivers(n) ==
    IF topology = "ring" THEN <<(n % Cardinality(Leaders)) + 1>>
    ELSE SetToSortSeq(Leaders \ {n}, <)

\* put, and delete with the tombstone flag
LocalWrite(n, v, tomb) ==
    LET c == [ts |-> nodes[n].clock + 1, origin |-> n, val |-> v, tomb |-> tomb]
    IN  /\ writes < MaxMWrites
        /\ nodes' = [nodes EXCEPT ![n] = [clock |-> c.ts, entry |-> c, seen |-> @.seen \cup {Stamp(c)},
                                          pending |-> Append(@.pending, c)]]
        /\ writes' = writes + 1 /\ quiet' = 0
        /\ UNCHANGED <<strategy, topology>>

\* sync: the queues are emptied first, then each change is applied at each receiver.
Deliveries ==
    LET of(n) == FlattenSeq([i \in DOMAIN nodes[n].pending |->
                    [j \in DOMAIN Receivers(n) |->
                        [to |-> Receivers(n)[j], change |-> nodes[n].pending[i]]]])
    IN  FlattenSeq([n \in Leaders |-> of(n)])

Sync ==
    /\ quiet < Cardinality(Leaders)
    /\ nodes' = FoldLeft(LAMBDA ns, d : [ns EXCEPT ![d.to] = Apply(@, d.change)],
                         [n \in Leaders |-> [nodes[n] EXCEPT !.pending = <<>>]], Deliveries)
    /\ quiet' = quiet + 1
    /\ UNCHANGED <<strategy, topology, writes>>

LeadersInit ==
    /\ strategy \in {"lww", "custom"} /\ topology \in {"all_to_all", "ring"}
    /\ nodes = [n \in Leaders |-> [clock |-> 0, entry |-> NoEntry, pending |-> <<>>, seen |-> {}]]
    /\ writes = 0 /\ quiet = 0

LeadersNext ==
    \/ \E n \in Leaders : \/ \E v \in MValue : LocalWrite(n, {v}, FALSE)
                          \/ LocalWrite(n, {}, TRUE)
    \/ Sync

LeadersSpec == LeadersInit /\ [][LeadersNext]_leaderVars

(***************************************************************************)
(* Properties                                                              *)
(***************************************************************************)

\* all_converged
Converged == \A m, n \in Leaders : nodes[m].entry = nodes[n].entry

\* Last write wins: as many syncs after the last write as there are nodes, by
\* either topology, and every node holds the greatest write any node has seen,
\* with nothing left to send.
LastWriteWins ==
    strategy = "lww" /\ quiet = Cardinality(Leaders) =>
        /\ Converged
        /\ \A n \in Leaders : nodes[n].pending = <<>>
        /\ \A n \in Leaders : \A s \in UNION {nodes[m].seen : m \in Leaders} :
              /\ s \in nodes[n].seen
              /\ s = Stamp(nodes[n].entry) \/ Beats(nodes[n].entry, [ts |-> s[1], origin |-> s[2]])
=============================================================================
