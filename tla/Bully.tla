-------------------------------- MODULE Bully --------------------------------
(***************************************************************************)
(* leader-election/leader_election.py: BullyNode and the                   *)
(* BullyElectionCluster that ticks the nodes and carries their messages.   *)
(*                                                                         *)
(* A tick of the cluster ticks every node, delivers messages and responses *)
(* in the order they were sent until none is left, and resolves a split    *)
(* brain.  Nodes fail and recover between two ticks.  Times are kept as    *)
(* ages, capped where they no longer matter.  Terms are left out: they are *)
(* reported, and nothing in the code depends on them.                      *)
(***************************************************************************)
EXTENDS Integers, Sequences, FiniteSets, SequencesExt, FiniteSetsExt

CONSTANTS
    BullyNode,          \* node ids, a set of integers
    HeartbeatInterval, ElectionTimeout,
    MaxFaults,          \* bound: failures
    SettleTime          \* ticks without a fault after which the cluster must be stable

NoNode == -1
Never == -1

VARIABLES
    bn,                 \* the state of each node
    mail,               \* messages of this tick not delivered yet
    ticking,            \* a tick of the cluster is under way
    faults,             \* failures so far
    calm                \* history: ticks since the last failure or recovery

bullyVars == <<bn, mail, ticking, faults, calm>>

NodeOrder == SetToSortSeq(BullyNode, <)
Mail(type, from, to) == [type |-> type, from |-> from, to |-> to]
ToAll(type, n, ids) ==
    LET order == SelectSeq(NodeOrder, LAMBDA i : i \in ids)
    IN  [i \in DOMAIN order |-> Mail(type, n, order[i])]
Sends(s, msgs) == [s |-> s, msgs |-> msgs]

(***************************************************************************)
(* BullyNode                                                               *)
(***************************************************************************)

DeclareVictory(n, s) ==
    Sends([s EXCEPT !.state = "leader", !.leader = n, !.sentAge = 0],
          ToAll("COORDINATOR", n, BullyNode \ {n}))

StartElection(n, s) ==
    LET higher == {i \in BullyNode : i > n}
        s1 == [s EXCEPT !.state = "candidate", !.leader = NoNode, !.electionAge = 0,
                        !.gotAlive = FALSE]
    IN  IF higher = {} THEN DeclareVictory(n, s1) ELSE Sends(s1, ToAll("ELECTION", n, higher))

OnElection(n, s, from) ==
    LET alive == <<Mail("ALIVE", n, from)>>
        own == StartElection(n, s)
    IN  IF n < from THEN Sends(s, <<>>)
        ELSE IF s.state = "candidate" THEN Sends(s, alive) ELSE Sends(own.s, alive \o own.msgs)

OnAlive(s) ==
    Sends([s EXCEPT !.gotAlive = TRUE, !.state = "follower", !.leader = NoNode,
                    !.electionAge = Never], <<>>)

OnCoordinator_Any(n, s, from) ==
    Sends([s EXCEPT !.state = "follower", !.leader = from, !.heartbeatAge = 0,
                    !.electionAge = Never], <<>>)
OnCoordinator(n, s, from) ==
    IF from < n THEN StartElection(n, s)
    ELSE Sends([s EXCEPT !.state = "follower", !.leader = from, !.heartbeatAge = 0,
                         !.electionAge = Never], <<>>)

OnHeartbeat(n, s, from) ==
    Sends(CASE from = s.leader -> [s EXCEPT !.heartbeatAge = 0]
            [] from # s.leader /\ s.state # "leader" /\ from > n ->
                  [s EXCEPT !.leader = from, !.state = "follower", !.heartbeatAge = 0]
            [] OTHER -> s, <<>>)

\* receive_message
Receives(n, s, m) ==
    CASE ~s.up -> Sends(s, <<>>)
      [] s.up /\ m.type = "ELECTION" -> OnElection(n, s, m.from)
      [] s.up /\ m.type = "ALIVE" -> OnAlive(s)
      [] s.up /\ m.type = "COORDINATOR" -> OnCoordinator(n, s, m.from)
      [] s.up /\ m.type = "HEARTBEAT" -> OnHeartbeat(n, s, m.from)

Older(age, cap) == IF age = Never THEN Never ELSE Min({age + 1, cap})
Aged(s) == [s EXCEPT !.heartbeatAge = Older(@, ElectionTimeout),
                     !.sentAge = Older(@, HeartbeatInterval),
                     !.electionAge = Older(@, ElectionTimeout \div 2)]

\* tick, with the ages at the current time.
Ticked(n, s) ==
    CASE ~s.up -> Sends(s, <<>>)
      [] s.up /\ s.state = "leader" /\ s.sentAge >= HeartbeatInterval ->
            Sends([s EXCEPT !.sentAge = 0], ToAll("HEARTBEAT", n, BullyNode \ {n}))
      [] s.up /\ s.state = "follower" /\ s.heartbeatAge >= ElectionTimeout -> StartElection(n, s)
      [] s.up /\ s.state = "candidate" /\ s.electionAge >= ElectionTimeout \div 2 ->
            IF s.gotAlive
            THEN Sends([s EXCEPT !.state = "follower", !.electionAge = Never, !.heartbeatAge = 0],
                       <<>>)
            ELSE DeclareVictory(n, s)
      [] OTHER -> Sends(s, <<>>)

(***************************************************************************)
(* BullyElectionCluster                                                    *)
(***************************************************************************)

Put(all, m) == [all EXCEPT ![m.to] = Receives(m.to, all[m.to], m).s]
\* A message and the responses to it; what these bring about is dropped.
PutWithResponses(all, m) == FoldLeft(Put, Put(all, m), Receives(m.to, all[m.to], m).msgs)
\* A node starts an election outside the message loop.
ElectsAside(all, n) ==
    LET own == StartElection(n, all[n])
    IN  FoldLeft(PutWithResponses, [all EXCEPT ![n] = own.s], own.msgs)

ClusterTick ==
    LET out == [n \in BullyNode |-> Ticked(n, Aged(bn[n]))]
    IN  /\ ~ticking
        /\ ticking' = TRUE
        /\ bn' = [n \in BullyNode |-> out[n].s]
        /\ mail' = FlattenSeq([i \in DOMAIN NodeOrder |-> out[NodeOrder[i]].msgs])
        /\ UNCHANGED <<faults, calm>>

DeliverMail ==
    /\ mail # <<>>
    /\ bn' = Put(bn, Head(mail))
    /\ mail' = Tail(mail) \o Receives(Head(mail).to, bn[Head(mail).to], Head(mail)).msgs
    /\ UNCHANGED <<ticking, faults, calm>>

LeadersOf(all) == {n \in BullyNode : all[n].up /\ all[n].state = "leader"}

\* _resolve_split_brain: all leaders but the highest start an election.
ResolveSplitBrain(all) ==
    LET leaders == LeadersOf(all)
        lower == SelectSeq(NodeOrder, LAMBDA n : n \in leaders /\ n # Max(leaders))
    IN  IF Cardinality(leaders) <= 1 THEN all ELSE FoldLeft(ElectsAside, all, lower)

TickEnds ==
    /\ ticking /\ mail = <<>>
    /\ bn' = ResolveSplitBrain(bn)
    /\ ticking' = FALSE
    /\ calm' = Min({calm + 1, SettleTime})
    /\ UNCHANGED <<mail, faults>>

FailNode(n) ==
    /\ ~ticking /\ bn[n].up /\ faults < MaxFaults
    /\ bn' = [bn EXCEPT ![n].up = FALSE, ![n].state = "follower", ![n].leader = NoNode,
                        ![n].electionAge = Never]
    /\ faults' = faults + 1
    /\ calm' = 0
    /\ UNCHANGED <<mail, ticking>>

RecoverNode(n) ==
    /\ ~ticking /\ ~bn[n].up
    /\ bn' = ElectsAside([bn EXCEPT ![n].up = TRUE, ![n].heartbeatAge = 0], n)
    /\ calm' = 0
    /\ UNCHANGED <<mail, ticking, faults>>

BullyInit ==
    /\ bn = [n \in BullyNode |->
               [state |-> "follower", leader |-> NoNode, up |-> TRUE, heartbeatAge |-> 0,
                sentAge |-> 0, electionAge |-> Never, gotAlive |-> FALSE]]
    /\ mail = <<>> /\ ticking = FALSE /\ faults = 0 /\ calm = 0

BullyNext ==
    \/ ClusterTick \/ DeliverMail \/ TickEnds
    \/ \E n \in BullyNode : FailNode(n) \/ RecoverNode(n)

BullySpec == BullyInit /\ [][BullyNext]_bullyVars

(***************************************************************************)
(* Properties                                                              *)
(***************************************************************************)

\* When a tick's messages are delivered at most one available node takes itself
\* for the leader: _resolve_split_brain never finds a second one.
OneLeader == mail = <<>> => Cardinality(LeadersOf(bn)) <= 1

Available == {n \in BullyNode : bn[n].up}
\* Within SettleTime ticks of the last failure or recovery the highest available
\* node leads and all available nodes follow it: run_until_leader returns it.
HighestLeads ==
    ~ticking /\ calm = SettleTime /\ Available # {} =>
        /\ bn[Max(Available)].state = "leader"
        /\ \A n \in Available : bn[n].leader = Max(Available)
=============================================================================
