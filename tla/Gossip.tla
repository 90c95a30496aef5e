--------------------------------- MODULE Gossip ---------------------------------
(***************************************************************************)
(* gossip-protocol/gossip_protocol.py: GossipNode and GossipCluster.       *)
(*                                                                         *)
(* A round is one call of gossip_round: nodes that leave tell everybody,   *)
(* each active node beats and exchanges its list with some other active    *)
(* node, each looks for silent ones.  Nodes are added in the order of      *)
(* their numbers; the time passed to a round is the number of the round.   *)
(***************************************************************************)
EXTENDS Integers, Sequences, FiniteSets, SequencesExt, FiniteSetsExt

CONSTANTS
    GNode,          \* 1..n
    TSuspect, TDead, TCleanup,
    Unknown,        \* not in a membership list
    MaxRounds       \* bound: rounds

VARIABLES
    members,        \* GossipNode.membership: counter, time of the last update, status
    added,          \* GossipCluster.nodes
    failed,         \* failed_nodes
    leaving, left,  \* _leaving, and not _alive
    round,          \* rounds so far
    silentSince     \* history: the round before which a node last took part

gossipVars == <<members, added, failed, leaving, left, round, silentSince>>

Active == (added \ failed) \ left
NewEntry(t) == [hb |-> 0, ts |-> t, status |-> "alive"]

\* join: the new node takes over the seed's list, and the seed lists it.
Joined(n, seed) ==
    LET own == NewEntry(members[seed][seed].ts)
    IN  [members EXCEPT ![n] = [members[seed] EXCEPT ![n] = own], ![seed][n] = own]

\* add_node joins at the first node that is active.
AddNode(n) ==
    /\ n \notin added /\ \A m \in GNode : m < n => m \in added
    /\ members' = IF Active = {} THEN [members EXCEPT ![n][n] = NewEntry(0)]
                  ELSE Joined(n, Min(Active))
    /\ added' = added \cup {n}
    /\ UNCHANGED <<failed, leaving, left, round, silentSince>>

\* remove_node: the node stops without a word.
RemoveNode(n) ==
    /\ n \in Active /\ Active # {n}
    /\ failed' = failed \cup {n}
    /\ silentSince' = [silentSince EXCEPT ![n] = round]
    /\ UNCHANGED <<members, added, leaving, left, round>>

Leave(n) ==
    /\ n \in Active \ leaving
    /\ members' = [members EXCEPT ![n][n].status = "dead"]
    /\ leaving' = leaving \cup {n}
    /\ UNCHANGED <<added, failed, left, round, silentSince>>

\* receive_gossip, for one entry; a dead node is not added to the list.
Adopts_Any(theirs) == TRUE
Adopts(theirs) == theirs.status # "dead"
EntryAfter(mine, theirs) ==
    IF theirs = Unknown THEN mine
    ELSE IF mine = Unknown
    THEN IF Adopts(theirs) THEN [theirs EXCEPT !.ts = round] ELSE Unknown
    ELSE IF theirs.hb > mine.hb
    THEN [hb |-> theirs.hb, ts |-> round,
          status |-> IF theirs.status # "suspected" /\ mine.status # "dead"
                     THEN theirs.status ELSE mine.status]
    ELSE IF theirs.hb = mine.hb /\ theirs.status = "dead" THEN [mine EXCEPT !.status = "dead"]
    ELSE mine

Received(mine, theirs) == [m \in GNode |-> EntryAfter(mine[m], theirs[m])]

\* The nodes that leave send their list to every node that was active.
Farewell(ms, n) ==
    [p \in GNode |-> IF p \in Active \ {n} THEN Received(ms[p], ms[n]) ELSE ms[p]]

\* A node's turn: heartbeat, unless it takes itself for dead, and the exchange,
\* in which both send what they had before.
Turn(ms, n, peer) ==
    LET beaten == IF ms[n][n].status = "dead" THEN ms[n]
                  ELSE [ms[n] EXCEPT ![n].hb = @ + 1, ![n].ts = round]
    IN  IF peer = n THEN [ms EXCEPT ![n] = beaten]
        ELSE [ms EXCEPT ![n] = Received(beaten, ms[peer]), ![peer] = Received(ms[peer], beaten)]

\* detect_failures, for one entry
Judged(e) ==
    IF e = Unknown THEN e
    ELSE IF e.status = "dead" /\ round - e.ts > TCleanup THEN Unknown
    ELSE IF round - e.ts > TDead THEN [e EXCEPT !.status = "dead"]
    ELSE IF round - e.ts > TSuspect /\ e.status = "alive" THEN [e EXCEPT !.status = "suspected"]
    ELSE e

Sorted(S) == SetToSortSeq(S, <)

\* gossip_round; a node that is alone in the cluster has no peer.
GossipRound(peerOf) ==
    LET staying == Active \ leaving
        told == FoldLeft(Farewell, members, Sorted(leaving \cap Active))
        met == FoldLeft(LAMBDA ms, n : Turn(ms, n, peerOf[n]), told, Sorted(staying))
    IN  /\ round < MaxRounds /\ Active # {}
        /\ members' = [n \in GNode |-> IF n \in staying
                          THEN [m \in GNode |-> IF m = n THEN met[n][m] ELSE Judged(met[n][m])]
                          ELSE met[n]]
        /\ left' = left \cup (leaving \cap Active)
        /\ leaving' = leaving \ Active
        /\ silentSince' = [n \in GNode |-> IF n \in leaving \cap Active THEN round ELSE silentSince[n]]
        /\ round' = round + 1
        /\ UNCHANGED <<added, failed>>

Peers == {f \in [Active \ leaving -> Active \ leaving] :
             \A n \in DOMAIN f : f[n] = n <=> DOMAIN f = {n}}

GossipInit ==
    /\ members = [n \in GNode |-> [m \in GNode |-> Unknown]]
    /\ added = {} /\ failed = {} /\ leaving = {} /\ left = {}
    /\ round = 0 /\ silentSince = [n \in GNode |-> 0]

GossipNext ==
    \/ \E n \in GNode : AddNode(n) \/ RemoveNode(n) \/ Leave(n)
    \/ \E f \in Peers : GossipRound(f)

GossipSpec == GossipInit /\ [][GossipNext]_gossipVars

(***************************************************************************)
(* Properties                                                              *)
(***************************************************************************)

\* Spread: rounds in which news of a node reaches every active node.
Spread == Cardinality(GNode)

\* A node that stopped, with or without a word, is dead in every active list once
\* TDead and Spread rounds are over, and after TCleanup and Spread rounds it is
\* in none, nor comes back from one that removed it later.  An active node that
\* is staying is never dead in its own list nor, with this few nodes, in another's.
FailuresDetected ==
    \A n \in Active \ leaving, m \in added :
        LET e == members[n][m]
        IN  /\ m \notin Active /\ round - silentSince[m] > TDead + Spread =>
                  e = Unknown \/ e.status = "dead"
            /\ m \notin Active /\ round - silentSince[m] > TCleanup + Spread => e = Unknown
            /\ m \in Active \ leaving /\ e # Unknown => e.status # "dead" /\ e.hb <= members[m][m].hb
=============================================================================
