----------------------------- MODULE RaftProofs -----------------------------
(***************************************************************************)
(* Type correctness, election safety and log matching of Raft, for every   *)
(* number of nodes, every set of commands and any terms and logs.          *)
(***************************************************************************)
EXTENDS Raft, NumberLemmas, FiniteSetTheorems, NaturalsInduction,
        SequenceTheorems, TLAPS

(* Nil is not a node, and two majorities of the nodes share one. *)
LEMMA NodeFacts == Nil \notin Node /\ Node \subseteq Nat
BY NAssumption DEF Node, Nil

LEMMA MajoritiesIntersect ==
  ASSUME NEW S \in SUBSET Node, NEW T \in SUBSET Node, Majority(S), Majority(T)
  PROVE  S \cap T # {}
<1>1. IsFiniteSet(Node) /\ Cardinality(Node) = N
  BY NAssumption, FS_Interval DEF Node
<1>2. IsFiniteSet(S) /\ IsFiniteSet(T)
  BY <1>1, FS_Subset
<1>3. Cardinality(S) \in Nat /\ Cardinality(T) \in Nat
  BY <1>2, FS_CardinalityType
<1>4. Cardinality(S) + Cardinality(T) > Cardinality(Node)
  BY <1>1, <1>3, NAssumption DEF Majority
<1> QED
  BY <1>1, <1>4, FS_MajoritiesIntersect

(* The append loop of handle_append_entries leaves a log of entries. *)
LEMMA SplicedType ==
  ASSUME NEW l \in Seq(Entry), NEW prev \in Nat, prev =< Len(l),
         NEW entries \in Seq(Entry)
  PROVE  Spliced(l, prev, entries) \in Seq(Entry)
<1> DEFINE M == Missing(l, prev, entries)
           n == prev + Len(entries)
           s == [i \in 1..n |-> IF \A j \in 1..(i - prev) : j \notin M
                                THEN l[i] ELSE entries[i - prev]]
<1>1. ASSUME NEW i \in 1..n PROVE s[i] \in Entry
  <2>1. CASE \A j \in 1..(i - prev) : j \notin M
    <3>1. i =< Len(l)
      <4>1. CASE i =< prev
        BY <4>1
      <4>2. CASE i > prev
        <5>1. i - prev \in 1..Len(entries) /\ i - prev \in 1..(i - prev)
          BY <4>2
        <5>2. i - prev \notin M
          BY <5>1, <2>1
        <5> QED
          BY <5>1, <5>2 DEF Missing
      <4> QED
        BY <4>1, <4>2
    <3> QED
      BY <2>1, <3>1, ElementOfSeq
  <2>2. CASE ~ \A j \in 1..(i - prev) : j \notin M
    <3>1. i - prev \in 1..Len(entries)
      BY <2>2
    <3> QED
      BY <2>2, <3>1, ElementOfSeq
  <2> QED
    BY <2>1, <2>2
<1>2. s \in Seq(Entry)
  <2>1. n \in Nat /\ s \in [1..n -> Entry]
    BY <1>1
  <2> QED
    BY <2>1, SeqDef
<1> QED
  BY <1>2 DEF Spliced

(* _advance_commit_index never moves the commit index down or out of Nat. *)
LEMMA AdvanceCommitType ==
  ASSUME TypeOK, NEW n \in Node, NEW commit \in Nat, NEW match
  PROVE  AdvanceCommit(n, commit, match) \in Nat
<1> DEFINE R == Replicated(n, commit, match)
           C == {commit} \cup R
<1>1. R \subseteq (commit + 1)..Len(log[n]) /\ Len(log[n]) \in Nat
  BY DEF Replicated, TypeOK
<1>2. IsFiniteSet(C) /\ C \in SUBSET Int /\ C \in SUBSET Nat
  <2>1. IsFiniteSet((commit + 1)..Len(log[n]))
    BY <1>1, FS_Interval
  <2>2. IsFiniteSet(R)
    BY <1>1, <2>1, FS_Subset
  <2>3. IsFiniteSet(R \cup {commit})
    BY <2>2, FS_AddElement
  <2>4. C = R \cup {commit}
    OBVIOUS
  <2>5. R \subseteq Nat
    BY <1>1
  <2> HIDE DEF R
  <2> QED
    BY <2>3, <2>4, <2>5
<1>3. \E c \in C : \A i \in C : i =< c
  BY <1>2, GreatestElement
<1>4. \E c \in C : \A i \in R : i =< c
  BY <1>3
<1> QED
  BY <1>2, <1>4 DEF AdvanceCommit

(* handle_append_entries leaves a log of entries. *)
LEMMA AppendedLogType ==
  ASSUME NEW l \in Seq(Entry), NEW m \in AppendEntries
  PROVE  AppendedLog(l, m) \in Seq(Entry) /\ AckedIndex(l, m) \in Nat
<1>1. m.prevLogIndex \in Nat /\ m.entries \in Seq(Entry) /\ m.prevLogTerm \in Nat
  BY DEF AppendEntries
<1>2. CASE m.prevLogIndex > Len(l)
  BY <1>2 DEF AppendedLog, AckedIndex
<1>3. CASE m.prevLogIndex =< Len(l) /\ TermAt(l, m.prevLogIndex) # m.prevLogTerm
  <2>1. SubSeq(l, 1, m.prevLogIndex - 1) \in Seq(Entry)
    BY <1>1, <1>3, SubSeqProperties
  <2> QED
    BY <1>1, <1>3, <2>1 DEF AppendedLog, AckedIndex
<1>4. CASE m.prevLogIndex =< Len(l) /\ TermAt(l, m.prevLogIndex) = m.prevLogTerm
  <2>1. Spliced(l, m.prevLogIndex, m.entries) \in Seq(Entry)
    BY <1>1, <1>4, SplicedType
  <2> QED
    BY <1>1, <1>4, <2>1 DEF AppendedLog, AckedIndex
<1> QED
  BY <1>1, <1>2, <1>3, <1>4

-----------------------------------------------------------------------------
(* Type correctness.                                                       *)

LEMMA TypeInit == Init => TypeOK
BY NodeFacts, EmptySeq DEF Init, TypeOK, Node, Nil, Message

LEMMA MessageTypes ==
  ASSUME TypeOK, NEW s \in Node, NEW r \in Node
  PROVE  /\ RequestVoteOf(s) \in RequestVote
         /\ nextIndex[s][r] - 1 =< Len(log[s]) => AppendEntriesTo(s, r) \in AppendEntries
<1>1. log[s] \in Seq(Entry) /\ Len(log[s]) \in Nat /\ currentTerm[s] \in Nat
  BY DEF TypeOK
<1>2. ASSUME NEW i \in Nat, i =< Len(log[s]) PROVE TermAt(log[s], i) \in Nat
  <2>1. CASE i = 0
    BY <2>1 DEF TermAt
  <2>2. CASE i # 0
    <3>1. log[s][i] \in Entry
      BY <1>1, <1>2, <2>2, ElementOfSeq
    <3> QED
      BY <2>2, <3>1 DEF TermAt, Entry
  <2> QED
    BY <2>1, <2>2
<1>3. RequestVoteOf(s) \in RequestVote
  BY <1>1, <1>2 DEF RequestVoteOf, RequestVote, LastTerm
<1>4. ASSUME nextIndex[s][r] - 1 =< Len(log[s]) PROVE AppendEntriesTo(s, r) \in AppendEntries
  <2>1. nextIndex[s][r] \in Nat /\ nextIndex[s][r] - 1 \in Nat /\ commitIndex[s] \in Nat
    BY DEF TypeOK
  <2>2. SubSeq(log[s], nextIndex[s][r], Len(log[s])) \in Seq(Entry)
    BY <1>1, <1>4, <2>1, SubSeqProperties
  <2>3. TermAt(log[s], nextIndex[s][r] - 1) \in Nat
    BY <1>2, <1>4, <2>1
  <2> QED
    BY <1>1, <2>1, <2>2, <2>3 DEF AppendEntriesTo, AppendEntries
<1> QED
  BY <1>3, <1>4

LEMMA TypeStep == TypeOK /\ [Next]_vars => TypeOK'
<1> SUFFICES ASSUME TypeOK, [Next]_vars PROVE TypeOK'
  OBVIOUS
<1>1. CASE ClusterTick
  <2>1. PICK fired \in Fired :
          LET ticked == Ticked(fired)
              lead == {n \in ticked : state[n] = "leader"}
              cand == ticked \ lead
          IN /\ state' = [n \in Node |-> IF n \in cand THEN "candidate" ELSE state[n]]
             /\ currentTerm' = [n \in Node |-> IF n \in cand THEN currentTerm[n] + 1
                                                             ELSE currentTerm[n]]
             /\ votedFor' = [n \in Node |-> IF n \in cand THEN n ELSE votedFor[n]]
             /\ votesReceived' = [n \in Node |-> IF n \in cand THEN {n}
                                                               ELSE votesReceived[n]]
             /\ commitIndex' = [n \in Node |->
                  IF n \in lead THEN AdvanceCommit(n, commitIndex[n], matchIndex[n])
                                ELSE commitIndex[n]]
             /\ outbox' = [s \in Node |-> [r \in Node |->
                  IF ticked # fired \/ s \notin ticked \/ r = s THEN NoMsg
                  ELSE IF s \in lead THEN AppendEntriesTo(s, r) ELSE RequestVoteOf(s)]]
    BY <1>1 DEF ClusterTick
  <2>2. UNCHANGED <<log, leaderVars, partitioned, elections>>
    BY <1>1 DEF ClusterTick
  <2>3. \A n \in Node : AdvanceCommit(n, commitIndex[n], matchIndex[n]) \in Nat
    BY AdvanceCommitType DEF TypeOK
  <2>4. commitIndex' \in [Node -> Nat]
    BY <2>1, <2>3 DEF TypeOK
  <2>5. outbox' \in [Node -> [Node -> Message]]
    <3>1. ASSUME NEW s \in Node, NEW r \in Node, Ticked(fired) = fired, s \in fired,
                 r # s, state[s] = "leader"
          PROVE  AppendEntriesTo(s, r) \in Message
      <4>1. ~Raises(s)
        BY <3>1, NodeFacts DEF Ticked
      <4>2. nextIndex[s][r] - 1 =< Len(log[s])
        BY <3>1, <4>1 DEF Raises, Peers, TypeOK
      <4> QED
        BY <4>2, MessageTypes DEF Message
    <3>2. \A s \in Node : RequestVoteOf(s) \in Message
      BY MessageTypes DEF Message
    <3>3. NoMsg \in Message
      BY DEF Message
    <3> QED
      BY <2>1, <3>1, <3>2, <3>3
  <2>6. /\ state' \in [Node -> {"follower", "candidate", "leader"}]
        /\ currentTerm' \in [Node -> Nat]
        /\ votedFor' \in [Node -> Node \cup {Nil}]
        /\ votesReceived' \in [Node -> SUBSET Node]
    BY <2>1 DEF TypeOK
  <2> QED
    BY <2>2, <2>4, <2>5, <2>6 DEF TypeOK, leaderVars
<1>2. ASSUME NEW s \in Node, NEW r \in Node, DropMessage(s, r) PROVE TypeOK'
  BY <1>2 DEF TypeOK, DropMessage, Consume, nodeVars, leaderVars, Message
<1>3. ASSUME NEW s \in Node, NEW r \in Node, DeliverRequestVote(s, r) PROVE TypeOK'
  <2>1. outbox[s][r] \in Message /\ outbox[s][r].type = "request_vote"
    BY <1>3 DEF DeliverRequestVote, TypeOK
  <2>2. outbox[s][r].term \in Nat
    BY <2>1 DEF Message, NoMsg, AppendEntries, RequestVote
  <2>3. Len(log[s]) \in Nat
    BY DEF TypeOK
  <2>4. VoteTerm(s, r) \in Nat /\ VoteBefore(s, r) \in Node \cup {Nil}
    BY <2>2 DEF VoteTerm, VoteBefore, TypeOK
  <2>5. outbox' \in [Node -> [Node -> Message]]
    BY <1>3 DEF DeliverRequestVote, Consume, TypeOK, Message
  <2>6. /\ state' \in [Node -> {"follower", "candidate", "leader"}]
        /\ currentTerm' \in [Node -> Nat]
        /\ votedFor' \in [Node -> Node \cup {Nil}]
    BY <1>3, <2>4 DEF DeliverRequestVote, TypeOK
  <2>7. votesReceived' \in [Node -> SUBSET Node]
    BY <1>3 DEF DeliverRequestVote, TypeOK
  <2>8. nextIndex' \in [Node -> [Node -> Nat \ {0}]]
    <3>1. [p \in Node |-> Len(log[s]) + 1] \in [Node -> Nat \ {0}]
      BY <2>3
    <3>2. nextIndex[s] \in [Node -> Nat \ {0}]
      BY DEF TypeOK
    <3> QED
      BY <1>3, <3>1, <3>2 DEF DeliverRequestVote, TypeOK
  <2>9. matchIndex' \in [Node -> [Node -> Nat]]
    BY <1>3 DEF DeliverRequestVote, TypeOK
  <2>10. elections' \in SUBSET Election
    <3>1. [leader |-> s, term |-> currentTerm[s], votes |-> votesReceived[s] \cup {r}]
            \in Election
      BY DEF TypeOK, Election
    <3> QED
      BY <1>3, <3>1 DEF DeliverRequestVote, TypeOK
  <2>11. UNCHANGED <<log, commitIndex, partitioned>>
    BY <1>3 DEF DeliverRequestVote
  <2> QED
    BY <2>5, <2>6, <2>7, <2>8, <2>9, <2>10, <2>11 DEF TypeOK
<1>4. ASSUME NEW s \in Node, NEW r \in Node, DeliverAppendEntries(s, r) PROVE TypeOK'
  <2> DEFINE m == outbox[s][r]
  <2>1. m \in Message /\ m.type = "append_entries"
    BY <1>4 DEF DeliverAppendEntries, TypeOK
  <2>2. m \in AppendEntries
    BY <2>1 DEF Message, NoMsg, RequestVote
  <2>3. m.term \in Nat /\ m.leaderCommit \in Nat
    BY <2>2 DEF AppendEntries
  <2>4. AppendedLog(log[r], m) \in Seq(Entry) /\ AckedIndex(log[r], m) \in Nat
    BY <2>2, AppendedLogType DEF TypeOK
  <2>5. AppendTerm(s, r) \in Nat /\ AppendedCommit(s, r) \in Nat
    BY <2>3, <2>4 DEF AppendTerm, AppendedCommit, TypeOK
  <2>6. MatchAfter(s, r) \in [Node -> Nat]
    BY <2>4 DEF MatchAfter, TypeOK
  <2>7. \A c \in Nat : AdvanceCommit(s, c, MatchAfter(s, r)) \in Nat
    BY AdvanceCommitType
  <2>8. outbox' \in [Node -> [Node -> Message]]
    BY <1>4 DEF DeliverAppendEntries, Consume, TypeOK, Message
  <2>9. /\ state' \in [Node -> {"follower", "candidate", "leader"}]
        /\ currentTerm' \in [Node -> Nat]
        /\ votedFor' \in [Node -> Node \cup {Nil}]
    BY <1>4, <2>5 DEF DeliverAppendEntries, TypeOK
  <2>10. log' \in [Node -> Seq(Entry)]
    BY <1>4, <2>4 DEF DeliverAppendEntries, TypeOK
  <2>11. nextIndex' \in [Node -> [Node -> Nat \ {0}]]
    <3> DEFINE ni == nextIndex[s][r]
               new == IF AppendAcked(s, r) THEN AckedIndex(log[r], m) + 1
                      ELSE IF AppendRejected(s, r) /\ ni > 1 THEN ni - 1 ELSE ni
    <3>1. new \in Nat \ {0}
      <4>1. ni \in Nat \ {0}
        BY DEF TypeOK
      <4> HIDE DEF ni
      <4> QED
        BY <2>4, <4>1
    <3>2. nextIndex' = [nextIndex EXCEPT ![s][r] = new]
      BY <1>4 DEF DeliverAppendEntries
    <3> HIDE DEF new
    <3> QED
      BY <3>1, <3>2 DEF TypeOK
  <2>12. matchIndex' \in [Node -> [Node -> Nat]]
    BY <1>4, <2>6 DEF DeliverAppendEntries, TypeOK
  <2>13. commitIndex' \in [Node -> Nat]
    BY <1>4, <2>5, <2>7 DEF DeliverAppendEntries, TypeOK
  <2>14. UNCHANGED <<votesReceived, partitioned, elections>>
    BY <1>4 DEF DeliverAppendEntries
  <2> QED
    BY <2>8, <2>9, <2>10, <2>11, <2>12, <2>13, <2>14 DEF TypeOK
<1>5. ASSUME NEW n \in Node, NEW c \in Command, Submit(n, c) PROVE TypeOK'
  <2>1. Append(log[n], [term |-> currentTerm[n], command |-> c]) \in Seq(Entry)
    BY AppendProperties DEF TypeOK, Entry
  <2> QED
    BY <1>5, <2>1 DEF TypeOK, Submit, leaderVars, Message
<1>6. ASSUME NEW n \in Node, PartitionNode(n) \/ HealNode(n) PROVE TypeOK'
  BY <1>6 DEF TypeOK, PartitionNode, HealNode, nodeVars, leaderVars, Message
<1>7. CASE UNCHANGED vars
  BY <1>7 DEF TypeOK, vars
<1> QED
  BY <1>1, <1>2, <1>3, <1>4, <1>5, <1>6, <1>7 DEF Next

\* Every reachable state of the cluster is well typed.
THEOREM TypeCorrect == Spec => []TypeOK
<1>1. Init => TypeOK
  BY TypeInit
<1>2. TypeOK /\ [Next]_vars => TypeOK'
  BY TypeStep
<1> QED
  BY <1>1, <1>2, PTL DEF Spec

-----------------------------------------------------------------------------
(* Election safety.  The invariant speaks of the terms, votes and states of *)
(* the nodes only; the three steps that change them are treated in turn.    *)

electionVars == <<state, currentTerm, votedFor, votesReceived, elections>>

LEMMA ElectionInit == Init => ElectionInv
BY DEF Init, ElectionInv, NoSelfMessage, CandidateVotes, ElectionVotes, ElectionSafety

(* The part of a cluster tick that touches the election state: some nodes   *)
(* that do not lead become candidates of their next term.                   *)
LEMMA TickEffect ==
  ASSUME TypeOK, ClusterTick
  PROVE  /\ elections' = elections
         /\ NoSelfMessage'
         /\ \E cand \in SUBSET Node :
              /\ \A n \in cand : /\ state'[n] = "candidate"
                                 /\ currentTerm'[n] = currentTerm[n] + 1
                                 /\ votedFor'[n] = n
                                 /\ votesReceived'[n] = {n}
              /\ \A n \in Node \ cand : /\ state'[n] = state[n]
                                        /\ currentTerm'[n] = currentTerm[n]
                                        /\ votedFor'[n] = votedFor[n]
                                        /\ votesReceived'[n] = votesReceived[n]
<1>1. PICK fired \in Fired :
        LET ticked == Ticked(fired)
            lead == {n \in ticked : state[n] = "leader"}
            cand == ticked \ lead
        IN /\ state' = [n \in Node |-> IF n \in cand THEN "candidate" ELSE state[n]]
           /\ currentTerm' = [n \in Node |-> IF n \in cand THEN currentTerm[n] + 1
                                                           ELSE currentTerm[n]]
           /\ votedFor' = [n \in Node |-> IF n \in cand THEN n ELSE votedFor[n]]
           /\ votesReceived' = [n \in Node |-> IF n \in cand THEN {n}
                                                             ELSE votesReceived[n]]
           /\ outbox' = [s \in Node |-> [r \in Node |->
                IF ticked # fired \/ s \notin ticked \/ r = s THEN NoMsg
                ELSE IF s \in lead THEN AppendEntriesTo(s, r) ELSE RequestVoteOf(s)]]
  BY DEF ClusterTick
<1> DEFINE cand == Ticked(fired) \ {n \in Ticked(fired) : state[n] = "leader"}
<1>2. cand \in SUBSET Node
  BY DEF Fired, Ticked
<1>3. NoSelfMessage'
  BY <1>1 DEF NoSelfMessage
<1>4. elections' = elections
  BY DEF ClusterTick
<1>5. /\ \A n \in cand : /\ state'[n] = "candidate"
                         /\ currentTerm'[n] = currentTerm[n] + 1
                         /\ votedFor'[n] = n
                         /\ votesReceived'[n] = {n}
      /\ \A n \in Node \ cand : /\ state'[n] = state[n]
                                /\ currentTerm'[n] = currentTerm[n]
                                /\ votedFor'[n] = votedFor[n]
                                /\ votesReceived'[n] = votesReceived[n]
  BY <1>1, <1>2
<1> QED
  BY <1>2, <1>3, <1>4, <1>5

LEMMA ElectionTick ==
  ASSUME TypeOK, ElectionInv, ClusterTick
  PROVE  ElectionInv'
<1>1. elections' = elections /\ NoSelfMessage'
  BY TickEffect
<1>2. PICK cand \in SUBSET Node :
        /\ \A n \in cand : /\ state'[n] = "candidate"
                           /\ currentTerm'[n] = currentTerm[n] + 1
                           /\ votedFor'[n] = n
                           /\ votesReceived'[n] = {n}
        /\ \A n \in Node \ cand : /\ state'[n] = state[n]
                                  /\ currentTerm'[n] = currentTerm[n]
                                  /\ votedFor'[n] = votedFor[n]
                                  /\ votesReceived'[n] = votesReceived[n]
  BY TickEffect
<1>3. \A n \in Node : currentTerm[n] \in Nat /\ votesReceived[n] \subseteq Node
  BY DEF TypeOK
<1>4. \A e \in elections : e.term \in Nat /\ e.votes \subseteq Node
  BY DEF TypeOK, Election
<1>5. CandidateVotes'
  <2> SUFFICES ASSUME NEW c \in Node, state'[c] = "candidate"
               PROVE  /\ votedFor'[c] = c
                      /\ c \in votesReceived'[c]
                      /\ \A v \in votesReceived'[c] :
                           \/ currentTerm'[v] > currentTerm'[c]
                           \/ currentTerm'[v] = currentTerm'[c] /\ votedFor'[v] = c
                      /\ \A d \in Node :
                           (d # c /\ state'[d] = "candidate" /\ currentTerm'[d] = currentTerm'[c])
                              => votesReceived'[c] \cap votesReceived'[d] = {}
    BY DEF CandidateVotes
  <2>1. CASE c \in cand
    <3>1. ASSUME NEW d \in Node, d # c, state'[d] = "candidate",
                 currentTerm'[d] = currentTerm'[c]
          PROVE  c \notin votesReceived'[d]
      BY <1>2, <1>3, <2>1, <3>1 DEF ElectionInv, CandidateVotes
    <3> QED
      BY <1>2, <2>1, <3>1
  <2>2. CASE c \notin cand
    <3>1. state[c] = "candidate" /\ votedFor'[c] = c /\ c \in votesReceived'[c]
      BY <1>2, <2>2 DEF ElectionInv, CandidateVotes
    <3>2. ASSUME NEW v \in votesReceived'[c]
          PROVE  \/ currentTerm'[v] > currentTerm'[c]
                 \/ currentTerm'[v] = currentTerm'[c] /\ votedFor'[v] = c
      BY <1>2, <1>3, <2>2, <3>1 DEF ElectionInv, CandidateVotes
    <3>3. ASSUME NEW d \in Node, d # c, state'[d] = "candidate",
                 currentTerm'[d] = currentTerm'[c]
          PROVE  votesReceived'[c] \cap votesReceived'[d] = {}
      BY <1>2, <1>3, <2>2, <3>1, <3>3 DEF ElectionInv, CandidateVotes
    <3> QED
      BY <3>1, <3>2, <3>3
  <2> QED
    BY <2>1, <2>2
<1>6. ElectionVotes'
  <2> SUFFICES ASSUME NEW e \in elections
               PROVE  /\ \A v \in e.votes :
                           \/ currentTerm'[v] > e.term
                           \/ /\ currentTerm'[v] = e.term
                              /\ votedFor'[v] = e.leader
                              /\ v = e.leader => state'[v] = "leader"
                      /\ \A c \in Node :
                           (state'[c] = "candidate" /\ currentTerm'[c] = e.term)
                              => votesReceived'[c] \cap e.votes = {}
    BY <1>1 DEF ElectionInv, ElectionVotes, Majority
  <2>1. \A v \in e.votes : currentTerm[v] >= e.term
    BY <1>3, <1>4 DEF ElectionInv, ElectionVotes
  <2>2. \A v \in e.votes :
          \/ currentTerm'[v] > e.term
          \/ /\ currentTerm'[v] = e.term
             /\ votedFor'[v] = e.leader
             /\ v = e.leader => state'[v] = "leader"
    BY <1>2, <1>3, <1>4, <2>1 DEF ElectionInv, ElectionVotes
  <2>3. ASSUME NEW c \in Node, state'[c] = "candidate", currentTerm'[c] = e.term
        PROVE  votesReceived'[c] \cap e.votes = {}
    BY <1>2, <1>3, <1>4, <2>1, <2>3 DEF ElectionInv, ElectionVotes
  <2> QED
    BY <2>2, <2>3
<1>7. ElectionSafety'
  BY <1>1 DEF ElectionInv, ElectionSafety
<1> QED
  BY <1>1, <1>5, <1>6, <1>7 DEF ElectionInv

(* A message travels between two different nodes and carries a term.       *)
LEMMA MessageFacts ==
  ASSUME TypeOK, ElectionInv, NEW s \in Node, NEW r \in Node, IsNext(s, r),
         outbox[s][r].type \in {"request_vote", "append_entries"}
  PROVE  s # r /\ outbox[s][r].term \in Nat
<1>1. s # r
  BY DEF IsNext, ElectionInv, NoSelfMessage
<1>2. outbox[s][r] \in Message
  BY DEF TypeOK
<1>3. outbox[s][r].term \in Nat
  BY <1>2 DEF Message, NoMsg, RequestVote, AppendEntries
<1> QED
  BY <1>1, <1>3

(* A vote request and its reply.  A node that grants its vote had not voted *)
(* for another node in that term.                                           *)
LEMMA ElectionVote ==
  ASSUME TypeOK, ElectionInv, NEW s \in Node, NEW r \in Node, DeliverRequestVote(s, r)
  PROVE  ElectionInv'
<1> DEFINE T == VoteTerm(s, r)
           won == [leader |-> s, term |-> currentTerm[s],
                   votes |-> votesReceived[s] \cup {r}]
<1>1. s # r /\ outbox[s][r].term \in Nat
  BY MessageFacts DEF DeliverRequestVote
<1>2. \A n \in Node : currentTerm[n] \in Nat /\ votesReceived[n] \subseteq Node
  BY DEF TypeOK
<1>3. \A e \in elections : e.term \in Nat /\ e.votes \subseteq Node
  BY DEF TypeOK, Election
<1>4. T \in Nat /\ T >= currentTerm[r] /\ (VoteNewer(s, r) <=> T > currentTerm[r])
  BY <1>1, <1>2 DEF VoteTerm, VoteNewer
<1>5. /\ \A n \in Node \ {s, r} : /\ state'[n] = state[n]
                                  /\ currentTerm'[n] = currentTerm[n]
                                  /\ votedFor'[n] = votedFor[n]
      /\ state'[r] = IF T > currentTerm[r] THEN "follower" ELSE state[r]
      /\ currentTerm'[r] = T
      /\ state'[s] = IF T > currentTerm[s] THEN "follower"
                     ELSE IF VoteElects(s, r) THEN "leader" ELSE state[s]
      /\ currentTerm'[s] = IF T > currentTerm[s] THEN T ELSE currentTerm[s]
      /\ votedFor'[s] = IF T > currentTerm[s] THEN Nil ELSE votedFor[s]
  BY <1>1, <1>4 DEF DeliverRequestVote, TypeOK, VoteStepsDown
<1>6. votedFor'[r] = IF VoteGranted(s, r) THEN s
                     ELSE IF T > currentTerm[r] THEN Nil ELSE votedFor[r]
  BY <1>1, <1>4 DEF DeliverRequestVote, TypeOK, VoteBefore
<1>7. /\ \A n \in Node \ {s} : votesReceived'[n] = votesReceived[n]
      /\ votesReceived'[s] = IF VoteCounted(s, r) THEN votesReceived[s] \cup {r}
                                                  ELSE votesReceived[s]
  BY DEF DeliverRequestVote, TypeOK
<1>8. elections' = IF VoteElects(s, r) THEN elections \cup {won} ELSE elections
  BY DEF DeliverRequestVote
<1>9. VoteGranted(s, r) => T > currentTerm[r] \/ votedFor[r] \in {Nil, s}
  BY <1>4 DEF VoteGranted, CanVote, VoteBefore
<1>10. VoteCounted(s, r) => VoteGranted(s, r) /\ state[s] = "candidate" /\ T = currentTerm[s]
  BY DEF VoteCounted
<1>11. VoteElects(s, r) => VoteCounted(s, r) /\ Majority(votesReceived[s] \cup {r})
  BY DEF VoteElects
<1> HIDE DEF T
<1>12. \A n \in Node : currentTerm'[n] >= currentTerm[n] /\ currentTerm'[n] \in Nat
  BY <1>2, <1>4, <1>5
(* A vote for another node is kept while the term stays the same. *)
<1>13. \A n \in Node : currentTerm'[n] = currentTerm[n] =>
         (votedFor'[n] = votedFor[n] \/ votedFor[n] = Nil)
  BY <1>2, <1>4, <1>5, <1>6, <1>9, NodeFacts
<1>14. \A n \in Node : state'[n] = "candidate" =>
         state[n] = "candidate" /\ currentTerm'[n] = currentTerm[n] /\ votedFor[n] = n
  BY <1>2, <1>4, <1>5 DEF ElectionInv, CandidateVotes
<1>15. NoSelfMessage'
  BY DEF DeliverRequestVote, Consume, ElectionInv, NoSelfMessage, TypeOK
(* When the vote is counted, r voted for nobody else in this term. *)
<1>16. ASSUME VoteCounted(s, r), NEW d \in Node, d # s, state[d] = "candidate",
              currentTerm[d] = currentTerm[s]
       PROVE  r \notin votesReceived[d]
  <2> SUFFICES ASSUME r \in votesReceived[d] PROVE FALSE
    OBVIOUS
  <2>1. currentTerm[r] > currentTerm[d] \/ (currentTerm[r] = currentTerm[d] /\ votedFor[r] = d)
    BY <1>16 DEF ElectionInv, CandidateVotes
  <2> QED
    BY <1>2, <1>4, <1>9, <1>10, <1>16, <2>1, NodeFacts
<1>17. ASSUME VoteCounted(s, r), NEW e \in elections, e.term = currentTerm[s]
       PROVE  r \notin e.votes
  <2> SUFFICES ASSUME r \in e.votes PROVE FALSE
    OBVIOUS
  <2>1. /\ e.leader \in e.votes
        /\ currentTerm[r] > e.term \/ (currentTerm[r] = e.term /\ votedFor[r] = e.leader)
    BY DEF ElectionInv, ElectionVotes
  <2>2. e.leader \in Node
    BY <1>3, <2>1
  <2>3. e.leader = s
    BY <1>2, <1>3, <1>4, <1>9, <1>10, <1>17, <2>1, <2>2, NodeFacts
  <2>4. s \in e.votes /\ s \in votesReceived[s] /\ votesReceived[s] \cap e.votes = {}
    BY <1>10, <1>17, <2>1, <2>3 DEF ElectionInv, ElectionVotes, CandidateVotes
  <2> QED
    BY <2>4
<1>18. CandidateVotes'
  <2> SUFFICES ASSUME NEW c \in Node, state'[c] = "candidate"
               PROVE  /\ votedFor'[c] = c
                      /\ c \in votesReceived'[c]
                      /\ \A v \in votesReceived'[c] :
                           \/ currentTerm'[v] > currentTerm'[c]
                           \/ currentTerm'[v] = currentTerm'[c] /\ votedFor'[v] = c
                      /\ \A d \in Node :
                           (d # c /\ state'[d] = "candidate" /\ currentTerm'[d] = currentTerm'[c])
                              => votesReceived'[c] \cap votesReceived'[d] = {}
    BY DEF CandidateVotes
  <2>1. state[c] = "candidate" /\ currentTerm'[c] = currentTerm[c] /\ votedFor'[c] = c
    BY <1>13, <1>14, NodeFacts
  <2>2. c \in votesReceived'[c]
    BY <1>7, <2>1 DEF ElectionInv, CandidateVotes
  <2>3. ASSUME NEW v \in votesReceived'[c]
        PROVE  \/ currentTerm'[v] > currentTerm'[c]
               \/ currentTerm'[v] = currentTerm'[c] /\ votedFor'[v] = c
    <3>1. CASE v \in votesReceived[c]
      <4>1. v \in Node
        BY <1>2, <3>1
      <4>2. \/ currentTerm[v] > currentTerm[c]
            \/ currentTerm[v] = currentTerm[c] /\ votedFor[v] = c
        BY <2>1, <3>1 DEF ElectionInv, CandidateVotes
      <4>3. currentTerm'[v] >= currentTerm[v] /\ currentTerm'[v] \in Nat
        BY <1>12, <4>1
      <4>4. CASE currentTerm[v] > currentTerm[c]
        BY <1>2, <2>1, <4>1, <4>3, <4>4
      <4>5. CASE currentTerm[v] = currentTerm[c] /\ votedFor[v] = c
        <5>1. currentTerm'[v] = currentTerm[v] => votedFor'[v] = c
          BY <1>13, <4>1, <4>5, NodeFacts
        <5> QED
          BY <1>2, <2>1, <4>1, <4>3, <4>5, <5>1
      <4> QED
        BY <4>2, <4>4, <4>5
    <3>2. CASE v \notin votesReceived[c]
      <4>1. c = s /\ VoteCounted(s, r) /\ v = r
        BY <1>7, <2>3, <3>2
      <4>2. VoteGranted(s, r) /\ T = currentTerm[s]
        BY <1>10, <4>1
      <4>3. currentTerm'[r] = T /\ votedFor'[r] = s
        BY <1>5, <1>6, <4>2
      <4> QED
        BY <2>1, <4>1, <4>2, <4>3
    <3> QED
      BY <3>1, <3>2
  <2>4. ASSUME NEW d \in Node, d # c, state'[d] = "candidate",
               currentTerm'[d] = currentTerm'[c]
        PROVE  votesReceived'[c] \cap votesReceived'[d] = {}
    <3>1. state[d] = "candidate" /\ currentTerm[d] = currentTerm[c]
      BY <1>14, <2>1, <2>4
    <3>2. votesReceived[c] \cap votesReceived[d] = {}
      BY <2>1, <2>4, <3>1 DEF ElectionInv, CandidateVotes
    <3>3. CASE c = s /\ VoteCounted(s, r)
      BY <1>7, <1>16, <2>4, <3>1, <3>2, <3>3
    <3>4. CASE d = s /\ VoteCounted(s, r)
      BY <1>7, <1>16, <2>1, <2>4, <3>1, <3>2, <3>4
    <3>5. CASE ~VoteCounted(s, r) \/ (c # s /\ d # s)
      BY <1>7, <3>2, <3>5
    <3> QED
      BY <3>3, <3>4, <3>5
  <2> QED
    BY <2>1, <2>2, <2>3, <2>4
<1>19. ASSUME NEW e \in elections
       PROVE  /\ Majority(e.votes)
              /\ e.leader \in e.votes
              /\ \A v \in e.votes :
                   \/ currentTerm'[v] > e.term
                   \/ /\ currentTerm'[v] = e.term
                      /\ votedFor'[v] = e.leader
                      /\ v = e.leader => state'[v] = "leader"
              /\ \A c \in Node : (state'[c] = "candidate" /\ currentTerm'[c] = e.term)
                                   => votesReceived'[c] \cap e.votes = {}
  <2>1. Majority(e.votes) /\ e.leader \in e.votes /\ e.leader \in Node
    BY <1>3 DEF ElectionInv, ElectionVotes
  <2>2. ASSUME NEW v \in e.votes
        PROVE  \/ currentTerm'[v] > e.term
               \/ /\ currentTerm'[v] = e.term
                  /\ votedFor'[v] = e.leader
                  /\ v = e.leader => state'[v] = "leader"
    <3>1. v \in Node
      BY <1>3
    <3>2. \/ currentTerm[v] > e.term
          \/ /\ currentTerm[v] = e.term
             /\ votedFor[v] = e.leader
             /\ v = e.leader => state[v] = "leader"
      BY DEF ElectionInv, ElectionVotes
    <3>3. currentTerm'[v] = currentTerm[v] => (state[v] = "leader" => state'[v] = "leader")
      BY <1>2, <1>4, <1>5, <3>1
    <3> QED
      BY <1>2, <1>3, <1>12, <1>13, <2>1, <3>1, <3>2, <3>3, NodeFacts
  <2>3. ASSUME NEW c \in Node, state'[c] = "candidate", currentTerm'[c] = e.term
        PROVE  votesReceived'[c] \cap e.votes = {}
    <3>1. state[c] = "candidate" /\ currentTerm[c] = e.term
      BY <1>14, <2>3
    <3>2. votesReceived[c] \cap e.votes = {}
      BY <3>1 DEF ElectionInv, ElectionVotes
    <3> QED
      BY <1>7, <1>17, <3>1, <3>2
  <2> QED
    BY <2>1, <2>2, <2>3
<1>20. ASSUME VoteElects(s, r)
       PROVE  /\ \A v \in won.votes :
                   \/ currentTerm'[v] > won.term
                   \/ /\ currentTerm'[v] = won.term
                      /\ votedFor'[v] = s
                      /\ v = s => state'[v] = "leader"
              /\ s \in won.votes
              /\ \A c \in Node : (state'[c] = "candidate" /\ currentTerm'[c] = won.term)
                                   => votesReceived'[c] \cap won.votes = {}
              /\ \A e \in elections : e.term = won.term => e.leader = s
  <2>1. /\ VoteCounted(s, r)
        /\ state[s] = "candidate" /\ T = currentTerm[s] /\ VoteGranted(s, r)
        /\ s \in votesReceived[s]
    BY <1>10, <1>11, <1>20 DEF ElectionInv, CandidateVotes
  <2>2. state'[s] = "leader" /\ currentTerm'[s] = currentTerm[s] /\ votedFor'[s] = s
    BY <1>2, <1>5, <1>20, <2>1 DEF ElectionInv, CandidateVotes
  <2>3. ASSUME NEW v \in won.votes
        PROVE  \/ currentTerm'[v] > won.term
               \/ /\ currentTerm'[v] = won.term
                  /\ votedFor'[v] = s
                  /\ v = s => state'[v] = "leader"
    <3>1. CASE v = r
      BY <1>1, <1>5, <1>6, <2>1, <3>1
    <3>2. CASE v # r
      <4>1. v \in Node /\ v \in votesReceived[s]
        BY <1>2, <3>2
      <4>2. \/ currentTerm[v] > currentTerm[s]
            \/ currentTerm[v] = currentTerm[s] /\ votedFor[v] = s
        BY <2>1, <4>1 DEF ElectionInv, CandidateVotes
      <4> QED
        BY <1>2, <1>12, <1>13, <2>2, <4>1, <4>2, NodeFacts
    <3> QED
      BY <3>1, <3>2
  <2>4. ASSUME NEW c \in Node, state'[c] = "candidate", currentTerm'[c] = won.term
        PROVE  votesReceived'[c] \cap won.votes = {}
    <3>1. c # s /\ state[c] = "candidate" /\ currentTerm[c] = currentTerm[s]
      BY <1>14, <2>2, <2>4
    <3>2. votesReceived[c] \cap votesReceived[s] = {}
      BY <2>1, <3>1 DEF ElectionInv, CandidateVotes
    <3> QED
      BY <1>7, <1>16, <2>1, <3>1, <3>2
  <2>5. ASSUME NEW e \in elections, e.term = won.term
        PROVE  e.leader = s
    <3>1. votesReceived[s] \cap e.votes = {} /\ Majority(e.votes)
      BY <2>1, <2>5 DEF ElectionInv, ElectionVotes
    <3>2. r \notin e.votes
      BY <1>17, <2>1, <2>5
    <3>3. won.votes \cap e.votes = {}
      BY <3>1, <3>2
    <3>4. won.votes \cap e.votes # {}
      BY <1>2, <1>3, <1>11, <1>20, <3>1, MajoritiesIntersect
    <3> QED
      BY <3>3, <3>4
  <2>6. s \in won.votes
    BY <2>1
  <2> QED
    BY <2>3, <2>4, <2>5, <2>6
<1>21. ElectionVotes'
  <2>1. CASE VoteElects(s, r)
    <3>1. elections' = elections \cup {won} /\ Majority(won.votes)
      BY <1>8, <1>11, <2>1
    <3>2. won.leader = s
      OBVIOUS
    <3> HIDE DEF won
    <3> QED
      BY <1>19, <1>20, <2>1, <3>1, <3>2 DEF ElectionVotes, Majority
  <2>2. CASE ~VoteElects(s, r)
    BY <1>8, <1>19, <2>2 DEF ElectionVotes, Majority
  <2> QED
    BY <2>1, <2>2
<1>22. ElectionSafety'
  <2>1. CASE VoteElects(s, r)
    BY <1>8, <1>20, <2>1 DEF ElectionSafety, ElectionInv
  <2>2. CASE ~VoteElects(s, r)
    BY <1>8, <2>2 DEF ElectionSafety, ElectionInv
  <2> QED
    BY <2>1, <2>2
<1> QED
  BY <1>15, <1>18, <1>21, <1>22 DEF ElectionInv

(* An append and its reply.  The receiver forgets its vote only when its    *)
(* term grows or when it is a candidate, whose vote is its own.             *)
LEMMA ElectionAppend ==
  ASSUME TypeOK, ElectionInv, NEW s \in Node, NEW r \in Node, DeliverAppendEntries(s, r)
  PROVE  ElectionInv'
<1> DEFINE T == AppendTerm(s, r)
<1>1. s # r /\ outbox[s][r].term \in Nat
  BY MessageFacts DEF DeliverAppendEntries
<1>2. \A n \in Node : currentTerm[n] \in Nat /\ votesReceived[n] \subseteq Node
  BY DEF TypeOK
<1>3. \A e \in elections : e.term \in Nat /\ e.votes \subseteq Node
  BY DEF TypeOK, Election
<1>4. T \in Nat /\ T >= currentTerm[r]
      /\ (AppendBecomes(s, r) => T > currentTerm[r] \/ state[r] = "candidate")
      /\ (T > currentTerm[r] => AppendBecomes(s, r))
  BY <1>1, <1>2 DEF AppendTerm, AppendBecomes, AppendStale
<1>5. /\ \A n \in Node \ {s, r} : /\ state'[n] = state[n]
                                  /\ currentTerm'[n] = currentTerm[n]
                                  /\ votedFor'[n] = votedFor[n]
      /\ state'[r] = IF AppendBecomes(s, r) THEN "follower" ELSE state[r]
      /\ currentTerm'[r] = T
      /\ votedFor'[r] = IF AppendBecomes(s, r) THEN Nil ELSE votedFor[r]
      /\ state'[s] = IF T > currentTerm[s] THEN "follower" ELSE state[s]
      /\ currentTerm'[s] = IF T > currentTerm[s] THEN T ELSE currentTerm[s]
      /\ votedFor'[s] = IF T > currentTerm[s] THEN Nil ELSE votedFor[s]
  BY <1>1 DEF DeliverAppendEntries, TypeOK, AppendStepsDown
<1>6. votesReceived' = votesReceived /\ elections' = elections
  BY DEF DeliverAppendEntries
<1>7. NoSelfMessage'
  BY DEF DeliverAppendEntries, Consume, ElectionInv, NoSelfMessage, TypeOK
<1> HIDE DEF T
<1>8. \A n \in Node :
        /\ currentTerm'[n] >= currentTerm[n] /\ currentTerm'[n] \in Nat
        /\ currentTerm'[n] = currentTerm[n] =>
             \/ votedFor'[n] = votedFor[n] /\ state'[n] = state[n]
             \/ state[n] = "candidate" /\ state'[n] = "follower"
        /\ state'[n] = "candidate" => state[n] = "candidate" /\ currentTerm'[n] = currentTerm[n]
  BY <1>2, <1>4, <1>5
<1>9. CandidateVotes'
  <2> SUFFICES ASSUME NEW c \in Node, state'[c] = "candidate"
               PROVE  /\ votedFor'[c] = c
                      /\ c \in votesReceived[c]
                      /\ \A v \in votesReceived[c] :
                           \/ currentTerm'[v] > currentTerm'[c]
                           \/ currentTerm'[v] = currentTerm'[c] /\ votedFor'[v] = c
                      /\ \A d \in Node :
                           (d # c /\ state'[d] = "candidate" /\ currentTerm'[d] = currentTerm'[c])
                              => votesReceived[c] \cap votesReceived[d] = {}
    BY <1>6 DEF CandidateVotes
  <2>1. /\ state[c] = "candidate" /\ currentTerm'[c] = currentTerm[c]
        /\ votedFor'[c] = c /\ c \in votesReceived[c]
    BY <1>8 DEF ElectionInv, CandidateVotes
  <2>2. ASSUME NEW v \in votesReceived[c]
        PROVE  \/ currentTerm'[v] > currentTerm'[c]
               \/ currentTerm'[v] = currentTerm'[c] /\ votedFor'[v] = c
    <3>1. v \in Node
      BY <1>2
    <3>2. \/ currentTerm[v] > currentTerm[c]
          \/ currentTerm[v] = currentTerm[c] /\ votedFor[v] = c
      BY <2>1 DEF ElectionInv, CandidateVotes
    <3>3. state[v] = "candidate" => votedFor[v] = v
      BY <3>1 DEF ElectionInv, CandidateVotes
    <3>4. CASE currentTerm'[v] > currentTerm[v] \/ currentTerm[v] > currentTerm[c]
      BY <1>2, <1>8, <2>1, <3>1, <3>2, <3>4
    <3>5. CASE currentTerm'[v] = currentTerm[v] /\ currentTerm[v] = currentTerm[c]
      <4>1. votedFor[v] = c
        BY <1>2, <3>1, <3>2, <3>5
      <4>2. v # c => votedFor'[v] = c
        BY <1>8, <3>1, <3>3, <3>5, <4>1
      <4> QED
        BY <2>1, <3>5, <4>2
    <3> QED
      BY <1>2, <1>8, <3>1, <3>2, <3>4, <3>5
  <2>3. ASSUME NEW d \in Node, d # c, state'[d] = "candidate",
               currentTerm'[d] = currentTerm'[c]
        PROVE  votesReceived[c] \cap votesReceived[d] = {}
    BY <1>8, <2>1, <2>3 DEF ElectionInv, CandidateVotes
  <2> QED
    BY <2>1, <2>2, <2>3
<1>10. ElectionVotes'
  <2> SUFFICES ASSUME NEW e \in elections
               PROVE  /\ \A v \in e.votes :
                           \/ currentTerm'[v] > e.term
                           \/ /\ currentTerm'[v] = e.term
                              /\ votedFor'[v] = e.leader
                              /\ v = e.leader => state'[v] = "leader"
                      /\ \A c \in Node :
                           (state'[c] = "candidate" /\ currentTerm'[c] = e.term)
                              => votesReceived[c] \cap e.votes = {}
    BY <1>6 DEF ElectionInv, ElectionVotes, Majority
  <2>1. ASSUME NEW v \in e.votes
        PROVE  \/ currentTerm'[v] > e.term
               \/ /\ currentTerm'[v] = e.term
                  /\ votedFor'[v] = e.leader
                  /\ v = e.leader => state'[v] = "leader"
    <3>1. v \in Node
      BY <1>3
    <3>2. \/ currentTerm[v] > e.term
          \/ /\ currentTerm[v] = e.term
             /\ votedFor[v] = e.leader
             /\ v = e.leader => state[v] = "leader"
      BY DEF ElectionInv, ElectionVotes
    <3>3. state[v] = "candidate" => votedFor[v] = v
      BY <3>1 DEF ElectionInv, CandidateVotes
    <3>4. CASE currentTerm'[v] > e.term
      BY <3>4
    <3>5. CASE ~(currentTerm'[v] > e.term)
      <4>1. currentTerm'[v] = currentTerm[v] /\ currentTerm[v] = e.term
        BY <1>2, <1>3, <1>8, <3>1, <3>2, <3>5
      <4>2. votedFor[v] = e.leader /\ (v = e.leader => state[v] = "leader")
        BY <1>2, <1>3, <3>1, <3>2, <4>1
      <4>3. state[v] # "candidate"
        BY <3>3, <4>2
      <4> QED
        BY <1>8, <3>1, <4>1, <4>2, <4>3
    <3> QED
      BY <3>4, <3>5
  <2>2. ASSUME NEW c \in Node, state'[c] = "candidate", currentTerm'[c] = e.term
        PROVE  votesReceived[c] \cap e.votes = {}
    BY <1>8, <2>2 DEF ElectionInv, ElectionVotes
  <2> QED
    BY <2>1, <2>2
<1>11. ElectionSafety'
  BY <1>6 DEF ElectionInv, ElectionSafety
<1> QED
  BY <1>7, <1>9, <1>10, <1>11 DEF ElectionInv

(* Every other step leaves the election state alone. *)
LEMMA ElectionOther ==
  ASSUME TypeOK, ElectionInv, UNCHANGED electionVars, NoSelfMessage'
  PROVE  ElectionInv'
BY DEF ElectionInv, electionVars, CandidateVotes, ElectionVotes, ElectionSafety, Majority

LEMMA ElectionStep == TypeOK /\ ElectionInv /\ [Next]_vars => ElectionInv'
<1> SUFFICES ASSUME TypeOK, ElectionInv, [Next]_vars PROVE ElectionInv'
  OBVIOUS
<1>1. CASE ClusterTick
  BY <1>1, ElectionTick
<1>2. ASSUME NEW s \in Node, NEW r \in Node, DropMessage(s, r) PROVE ElectionInv'
  <2>1. UNCHANGED electionVars
    BY <1>2 DEF DropMessage, nodeVars, electionVars
  <2>2. NoSelfMessage'
    BY <1>2 DEF DropMessage, Consume, ElectionInv, NoSelfMessage, TypeOK
  <2> QED
    BY <2>1, <2>2, ElectionOther
<1>3. ASSUME NEW s \in Node, NEW r \in Node, DeliverRequestVote(s, r) PROVE ElectionInv'
  BY <1>3, ElectionVote
<1>4. ASSUME NEW s \in Node, NEW r \in Node, DeliverAppendEntries(s, r) PROVE ElectionInv'
  BY <1>4, ElectionAppend
<1>5. ASSUME NEW n \in Node, NEW c \in Command, Submit(n, c) PROVE ElectionInv'
  <2>1. UNCHANGED <<electionVars, outbox>>
    BY <1>5 DEF Submit, electionVars
  <2> QED
    BY <2>1, ElectionOther DEF ElectionInv, NoSelfMessage
<1>6. ASSUME NEW n \in Node, PartitionNode(n) \/ HealNode(n) PROVE ElectionInv'
  <2>1. UNCHANGED <<electionVars, outbox>>
    BY <1>6 DEF PartitionNode, HealNode, nodeVars, electionVars
  <2> QED
    BY <2>1, ElectionOther DEF ElectionInv, NoSelfMessage
<1>7. CASE UNCHANGED vars
  <2>1. UNCHANGED <<electionVars, outbox>>
    BY <1>7 DEF vars, electionVars
  <2> QED
    BY <2>1, ElectionOther DEF ElectionInv, NoSelfMessage
<1> QED
  BY <1>1, <1>2, <1>3, <1>4, <1>5, <1>6, <1>7 DEF Next

\* No two nodes ever win the election of the same term, in a cluster of any
\* size, whatever messages a partition drops.
THEOREM ElectionSafe == Spec => []ElectionSafety
<1>1. Init => ElectionInv
  BY ElectionInit
<1>2. TypeOK /\ TypeOK' /\ ElectionInv /\ [Next]_vars => ElectionInv'
  BY ElectionStep
<1>3. ElectionInv => ElectionSafety
  BY DEF ElectionInv
<1> QED
  BY <1>1, <1>2, <1>3, TypeCorrect, PTL DEF Spec

-----------------------------------------------------------------------------
(* Log matching.  An append_entries message is a slice of the log its      *)
(* sender had when the tick began; that log may since have been cut by a   *)
(* message of another leader.  The invariant therefore speaks of the logs  *)
(* of the nodes together with those earlier ones, called sent.             *)

Logs(sent) == {log[n] : n \in Node} \cup {sent[n] : n \in Node}

(* Two logs that agree on the term of an index agree up to it. *)
Match(x, y) ==
  \A i \in 1..Len(x) : (i =< Len(y) /\ x[i].term = y[i].term)
                          => \A j \in 1..i : x[j] = y[j]

(* x is a prefix of y *)
Begins(x, y) == Len(x) =< Len(y) /\ \A j \in 1..Len(x) : x[j] = y[j]

IsSlice(m, l) ==
  /\ m.prevLogIndex =< Len(l)
  /\ m.prevLogTerm = TermAt(l, m.prevLogIndex)
  /\ m.entries = SubSeq(l, m.prevLogIndex + 1, Len(l))

Elected(n, term) == \E e \in elections : e.leader = n /\ e.term = term

SlicesSent(sent) ==
  \A s, r \in Node : outbox[s][r].type = "append_entries" =>
    IsSlice(outbox[s][r], sent[s]) /\ Elected(s, outbox[s][r].term)
LogsMatch(sent) == \A x, y \in Logs(sent) : Match(x, y)
TermsElected(sent) ==
  \A x \in Logs(sent) : \A i \in 1..Len(x) : \E e \in elections : e.term = x[i].term
(* No log holds more entries of a leader's term than the leader's own. *)
LeaderHasMost(sent) ==
  \A n \in Node : state[n] = "leader" =>
    /\ Elected(n, currentTerm[n])
    /\ \A x \in Logs(sent) : \A i \in 1..Len(x) :
         x[i].term = currentTerm[n] => i =< Len(log[n])
LogInv(sent) == /\ SlicesSent(sent) /\ LogsMatch(sent)
                /\ TermsElected(sent) /\ LeaderHasMost(sent)

MatchingInv == \E sent \in [Node -> Seq(Entry)] : LogInv(sent)

LEMMA LogsType ==
  ASSUME TypeOK, NEW sent \in [Node -> Seq(Entry)]
  PROVE  \A x \in Logs(sent) : /\ x \in Seq(Entry) /\ Len(x) \in Nat
                              /\ \A i \in 1..Len(x) : x[i] \in Entry /\ x[i].term \in Nat
<1>1. \A x \in Logs(sent) : x \in Seq(Entry)
  BY DEF Logs, TypeOK
<1>2. \A x \in Logs(sent) : \A i \in 1..Len(x) : x[i] \in Entry
  BY <1>1, ElementOfSeq
<1>3. \A x \in Logs(sent) : Len(x) \in Nat
  BY <1>1, LenProperties
<1>4. \A e \in Entry : e.term \in Nat
  BY DEF Entry
<1> QED
  BY <1>1, <1>2, <1>3, <1>4

(* handle_append_entries on a slice of the log f leaves a prefix of the log *)
(* it found, or f itself: the append loop keeps l only where it equals f.   *)
LEMMA AppendedLogIsPrefix ==
  ASSUME NEW l \in Seq(Entry), NEW f \in Seq(Entry), Match(l, f),
         NEW m \in AppendEntries, IsSlice(m, f)
  PROVE  Begins(AppendedLog(l, m), l) \/ Begins(AppendedLog(l, m), f)
<1> DEFINE prev == m.prevLogIndex
<1>0. prev \in Nat /\ Len(l) \in Nat /\ Len(f) \in Nat /\ prev =< Len(f)
  BY DEF AppendEntries, IsSlice
<1>1. CASE prev > Len(l)
  BY <1>0, <1>1 DEF AppendedLog, Begins
<1>2. CASE prev =< Len(l) /\ TermAt(l, prev) # m.prevLogTerm
  <2>1. AppendedLog(l, m) = SubSeq(l, 1, prev - 1)
    BY <1>0, <1>2 DEF AppendedLog
  <2>2. prev # 0
    BY <1>2 DEF TermAt, IsSlice
  <2>3. \A i \in 1..(prev - 1) : l[i] \in Entry
    BY <1>0, <1>2, ElementOfSeq
  <2>4. /\ Len(SubSeq(l, 1, prev - 1)) = prev - 1
        /\ \A i \in 1..(prev - 1) : SubSeq(l, 1, prev - 1)[i] = l[i]
    BY <1>0, <2>2, <2>3, SubSeqProperties
  <2> QED
    BY <1>0, <1>2, <2>1, <2>4 DEF Begins
<1>3. CASE prev =< Len(l) /\ TermAt(l, prev) = m.prevLogTerm
  <2> DEFINE M == Missing(l, prev, m.entries)
             g == [i \in 1..(prev + Len(m.entries)) |->
                     IF \A j \in 1..(i - prev) : j \notin M
                     THEN l[i] ELSE m.entries[i - prev]]
  <2>1. AppendedLog(l, m) = IF M = {} THEN l ELSE g
    BY <1>0, <1>3 DEF AppendedLog, Spliced
  <2>2. \A i \in (prev + 1)..Len(f) : f[i] \in Entry
    BY <1>0, ElementOfSeq
  <2>3. /\ Len(m.entries) = Len(f) - prev
        /\ \A i \in 1..(Len(f) - prev) : m.entries[i] = f[prev + i]
    <3>1. m.entries = SubSeq(f, prev + 1, Len(f))
      BY DEF IsSlice
    <3> QED
      BY <1>0, <2>2, <3>1, SubSeqProperties
  <2>4. ASSUME NEW i \in 1..Len(f), \A j \in 1..(i - prev) : j \notin M
        PROVE  l[i] = f[i]
    <3>1. CASE i =< prev
      <4>1. prev \in 1..Len(l) /\ l[prev].term = f[prev].term
        BY <1>0, <1>3, <3>1 DEF TermAt, IsSlice
      <4> QED
        BY <1>0, <3>1, <4>1 DEF Match
    <3>2. CASE i > prev
      <4>1. i - prev \in 1..Len(m.entries) /\ i - prev \notin M
        BY <1>0, <2>3, <2>4, <3>2
      <4>2. i \in 1..Len(l) /\ l[i].term = m.entries[i - prev].term
        BY <1>0, <3>2, <4>1 DEF Missing
      <4>3. m.entries[i - prev] = f[prev + (i - prev)] /\ prev + (i - prev) = i
        BY <1>0, <2>3, <4>1
      <4>4. l[i].term = f[i].term
        BY <4>2, <4>3
      <4> QED
        BY <1>0, <4>2, <4>4 DEF Match
    <3> QED
      BY <1>0, <3>1, <3>2
  <2>5. ASSUME NEW i \in 1..Len(f) PROVE g[i] = f[i]
    <3>1. CASE \A j \in 1..(i - prev) : j \notin M
      BY <1>0, <2>3, <2>4, <3>1
    <3>2. CASE ~ \A j \in 1..(i - prev) : j \notin M
      <4>1. i - prev \in 1..(Len(f) - prev) /\ prev + (i - prev) = i
        BY <1>0, <3>2
      <4>2. m.entries[i - prev] = f[i]
        BY <2>3, <4>1
      <4>3. i \in 1..(prev + Len(m.entries))
        BY <1>0, <2>3
      <4>4. g[i] = m.entries[i - prev]
        BY <3>2, <4>3
      <4> QED
        BY <4>2, <4>4
    <3> QED
      BY <3>1, <3>2
  <2>6. g \in Seq(Entry) /\ Len(g) = Len(f)
    <3>1. g = [i \in 1..Len(f) |-> g[i]] /\ Len(f) \in Nat
      BY <1>0, <2>3
    <3>2. \A i \in 1..Len(f) : g[i] \in Entry
      BY <2>5, ElementOfSeq
    <3> HIDE DEF g
    <3> QED
      BY <3>1, <3>2
  <2> HIDE DEF g, M
  <2> QED
    BY <1>0, <2>1, <2>5, <2>6 DEF Begins
<1> QED
  BY <1>0, <1>1, <1>2, <1>3

(* The logs of the next state are prefixes of logs of this one, the leaders *)
(* of the next state led already and keep their logs.                       *)
LEMMA LogsShrink ==
  ASSUME TypeOK, TypeOK', NEW sent \in [Node -> Seq(Entry)], LogInv(sent),
         NEW next \in [Node -> Seq(Entry)],
         \A n \in Node : \E y \in Logs(sent) : Begins(log'[n], y),
         \A n \in Node : \E y \in Logs(sent) : Begins(next[n], y),
         elections \subseteq elections',
         \A n \in Node : state'[n] = "leader" =>
           /\ log'[n] = log[n]
           /\ \E e \in elections' : e.leader = n /\ e.term = currentTerm'[n]
           /\ \A x \in Logs(sent) : \A i \in 1..Len(x) :
                x[i].term = currentTerm'[n] => i =< Len(log[n])
  PROVE  LogsMatch(next)' /\ TermsElected(next)' /\ LeaderHasMost(next)'
<1>1. ASSUME NEW x \in Logs(next)' PROVE \E y \in Logs(sent) : Begins(x, y)
  <2>1. \E n \in Node : x = log'[n] \/ x = next[n]
    BY DEF Logs, Node
  <2> QED
    BY ONLY <2>1, \A n \in Node : \E y \in Logs(sent) : Begins(log'[n], y),
                  \A n \in Node : \E y \in Logs(sent) : Begins(next[n], y)
<1>2. \A x \in Logs(next)' : Len(x) \in Nat
  BY LenProperties DEF Logs, TypeOK
<1>3. \A y \in Logs(sent) : Len(y) \in Nat
  BY LogsType
<1>4. LogsMatch(next)'
  <2> SUFFICES ASSUME NEW x \in Logs(next)', NEW y \in Logs(next)',
                      NEW i \in 1..Len(x), i =< Len(y), x[i].term = y[i].term,
                      NEW j \in 1..i
               PROVE  x[j] = y[j]
    BY DEF LogsMatch, Match
  <2>1. PICK a \in Logs(sent) : Begins(x, a)
    BY <1>1
  <2>2. PICK b \in Logs(sent) : Begins(y, b)
    BY <1>1
  <2>3. Len(x) \in Nat /\ Len(y) \in Nat /\ Len(a) \in Nat /\ Len(b) \in Nat
    BY <1>2, <1>3
  <2>0. i \in 1..Len(x) /\ j \in 1..Len(x) /\ i \in 1..Len(y) /\ j \in 1..Len(y)
    BY <2>3
  <2>4. i \in 1..Len(a) /\ i =< Len(b) /\ a[i] = x[i] /\ b[i] = y[i]
        /\ a[j] = x[j] /\ b[j] = y[j]
    BY <2>0, <2>1, <2>2, <2>3 DEF Begins
  <2>5. Match(a, b)
    BY DEF LogInv, LogsMatch
  <2>6. a[j] = b[j]
    BY <2>4, <2>5 DEF Match
  <2> QED
    BY <2>4, <2>6
<1>5. TermsElected(next)'
  <2> SUFFICES ASSUME NEW x \in Logs(next)', NEW i \in 1..Len(x)
               PROVE  \E e \in elections' : e.term = x[i].term
    BY DEF TermsElected
  <2>1. PICK a \in Logs(sent) : Begins(x, a)
    BY <1>1
  <2>2. i \in 1..Len(a) /\ a[i] = x[i]
    BY <1>2, <1>3, <2>1 DEF Begins
  <2> QED
    BY <2>2 DEF LogInv, TermsElected
<1>6. LeaderHasMost(next)'
  <2> SUFFICES ASSUME NEW n \in Node, state'[n] = "leader", NEW x \in Logs(next)',
                      NEW i \in 1..Len(x), x[i].term = currentTerm'[n]
               PROVE  i =< Len(log'[n])
    BY DEF LeaderHasMost, Elected
  <2>1. PICK a \in Logs(sent) : Begins(x, a)
    BY <1>1
  <2>2. i \in 1..Len(a) /\ a[i] = x[i]
    BY <1>2, <1>3, <2>1 DEF Begins
  <2> QED
    BY <2>2
<1> QED
  BY <1>4, <1>5, <1>6

(* Messages that stay in the outbox stay slices. *)
LEMMA SlicesStay ==
  ASSUME NEW sent, SlicesSent(sent), elections \subseteq elections',
         \A s, r \in Node : outbox'[s][r] \in {outbox[s][r], NoMsg}
  PROVE  SlicesSent(sent)'
<1> SUFFICES ASSUME NEW s \in Node, NEW r \in Node,
                    outbox'[s][r].type = "append_entries"
             PROVE  /\ IsSlice(outbox'[s][r], sent[s])
                    /\ \E e \in elections' : e.leader = s /\ e.term = outbox'[s][r].term
  BY DEF SlicesSent, IsSlice, Elected, TermAt
<1>1. outbox'[s][r] = outbox[s][r]
  BY DEF NoMsg
<1> QED
  BY <1>1 DEF SlicesSent, Elected

(* A step that changes no log, makes no leader and keeps the terms of the   *)
(* leaders.                                                                 *)
LEMMA LogsQuiet ==
  ASSUME TypeOK, TypeOK', NEW sent \in [Node -> Seq(Entry)], LogInv(sent),
         UNCHANGED log, elections \subseteq elections', SlicesSent(sent)',
         \A n \in Node : state'[n] = "leader" =>
           state[n] = "leader" /\ currentTerm'[n] = currentTerm[n]
  PROVE  MatchingInv'
<1>1. \A y \in Logs(sent) : Begins(y, y)
  BY LogsType DEF Begins
<1>2. \A n \in Node : log'[n] \in Logs(sent) /\ sent[n] \in Logs(sent)
  BY DEF Logs
<1>3. ASSUME NEW n \in Node, state'[n] = "leader"
      PROVE  /\ log'[n] = log[n]
             /\ \E e \in elections' : e.leader = n /\ e.term = currentTerm'[n]
             /\ \A x \in Logs(sent) : \A i \in 1..Len(x) :
                  x[i].term = currentTerm'[n] => i =< Len(log[n])
  BY <1>3 DEF LogInv, LeaderHasMost, Elected
<1>4. LogsMatch(sent)' /\ TermsElected(sent)' /\ LeaderHasMost(sent)'
  BY <1>1, <1>2, <1>3, LogsShrink
<1> QED
  BY <1>4 DEF MatchingInv, LogInv

LEMMA MatchingInit == Init => MatchingInv
<1> SUFFICES ASSUME Init PROVE MatchingInv
  OBVIOUS
<1>1. PICK sent : sent = [n \in Node |-> << >>]
  OBVIOUS
<1>2. sent \in [Node -> Seq(Entry)] /\ \A x \in Logs(sent) : x = << >> /\ Len(x) = 0
  BY <1>1, EmptySeq DEF Init, Logs
<1>3. LogInv(sent)
  <2>1. \A x \in Logs(sent) : 1..Len(x) = {}
    BY <1>2
  <2>2. SlicesSent(sent)
    BY DEF SlicesSent, Init, NoMsg
  <2>3. LogsMatch(sent) /\ TermsElected(sent)
    BY <2>1 DEF LogsMatch, Match, TermsElected
  <2>4. LeaderHasMost(sent)
    BY DEF Init, LeaderHasMost
  <2> QED
    BY <2>2, <2>3, <2>4 DEF LogInv
<1> QED
  BY <1>2, <1>3 DEF MatchingInv

(* A tick: the messages of a leader are slices of its log of this moment. *)
LEMMA MatchingTick ==
  ASSUME TypeOK, TypeOK', NEW sent \in [Node -> Seq(Entry)], LogInv(sent), ClusterTick
  PROVE  MatchingInv'
<1>1. PICK next : next = log
  OBVIOUS
<1>2. next \in [Node -> Seq(Entry)] /\ log' = log /\ elections' = elections
  BY <1>1 DEF TypeOK, ClusterTick
<1>3. PICK fired \in Fired :
        LET ticked == Ticked(fired)
            lead == {n \in ticked : state[n] = "leader"}
            cand == ticked \ lead
        IN /\ state' = [n \in Node |-> IF n \in cand THEN "candidate" ELSE state[n]]
           /\ currentTerm' = [n \in Node |-> IF n \in cand THEN currentTerm[n] + 1
                                                           ELSE currentTerm[n]]
           /\ outbox' = [s \in Node |-> [r \in Node |->
                IF ticked # fired \/ s \notin ticked \/ r = s THEN NoMsg
                ELSE IF s \in lead THEN AppendEntriesTo(s, r) ELSE RequestVoteOf(s)]]
  BY DEF ClusterTick
<1>4. ASSUME NEW n \in Node, state'[n] = "leader"
      PROVE  state[n] = "leader" /\ currentTerm'[n] = currentTerm[n]
  BY <1>3, <1>4
<1>5. SlicesSent(next)'
  <2> SUFFICES ASSUME NEW s \in Node, NEW r \in Node,
                      outbox'[s][r].type = "append_entries"
               PROVE  /\ IsSlice(outbox'[s][r], log[s])
                      /\ \E e \in elections : e.leader = s /\ e.term = outbox'[s][r].term
    BY <1>1, <1>2 DEF SlicesSent, IsSlice, Elected, TermAt
  <2>1. /\ Ticked(fired) = fired /\ s \in fired /\ r # s /\ state[s] = "leader"
        /\ outbox'[s][r] = AppendEntriesTo(s, r)
    BY <1>3 DEF NoMsg, RequestVoteOf
  <2>2. ~Raises(s)
    BY <2>1, NodeFacts DEF Ticked
  <2>3. nextIndex[s][r] \in Nat /\ nextIndex[s][r] - 1 =< Len(log[s])
        /\ nextIndex[s][r] - 1 \in Nat
    <3>1. nextIndex[s][r] \in Nat \ {0} /\ Len(log[s]) \in Nat
      BY LenProperties DEF TypeOK
    <3>2. ~(nextIndex[s][r] - 1 > Len(log[s]))
      BY <2>1, <2>2 DEF Raises, Peers
    <3> QED
      BY <3>1, <3>2
  <2>4. IsSlice(AppendEntriesTo(s, r), log[s])
    <3>1. nextIndex[s][r] - 1 + 1 = nextIndex[s][r]
      BY <2>3
    <3> QED
      BY <2>3, <3>1 DEF IsSlice, AppendEntriesTo
  <2>5. Elected(s, currentTerm[s])
    BY <2>1 DEF LogInv, LeaderHasMost
  <2> QED
    BY <2>1, <2>4, <2>5 DEF Elected, AppendEntriesTo
<1>6. \A y \in Logs(sent) : Begins(y, y)
  BY LogsType DEF Begins
<1>7. \A n \in Node : log'[n] \in Logs(sent) /\ next[n] \in Logs(sent)
  BY <1>1, <1>2 DEF Logs
<1>8. ASSUME NEW n \in Node, state'[n] = "leader"
      PROVE  /\ log'[n] = log[n]
             /\ \E e \in elections' : e.leader = n /\ e.term = currentTerm'[n]
             /\ \A x \in Logs(sent) : \A i \in 1..Len(x) :
                  x[i].term = currentTerm'[n] => i =< Len(log[n])
  BY <1>2, <1>4, <1>8 DEF LogInv, LeaderHasMost, Elected
<1>9. LogsMatch(next)' /\ TermsElected(next)' /\ LeaderHasMost(next)'
  BY <1>2, <1>6, <1>7, <1>8, LogsShrink
<1> QED
  BY <1>2, <1>5, <1>9 DEF MatchingInv, LogInv

(* A vote: when it elects the candidate, its term never had a leader, so no *)
(* log holds an entry of that term.                                         *)
LEMMA MatchingVote ==
  ASSUME TypeOK, TypeOK', ElectionInv, ElectionInv',
         NEW sent \in [Node -> Seq(Entry)], LogInv(sent),
         NEW s \in Node, NEW r \in Node, DeliverRequestVote(s, r)
  PROVE  MatchingInv'
<1> DEFINE won == [leader |-> s, term |-> currentTerm[s], votes |-> votesReceived[s] \cup {r}]
<1>1. s # r /\ outbox[s][r].term \in Nat
  BY MessageFacts DEF DeliverRequestVote
<1>2. log' = log /\ elections \subseteq elections'
      /\ (VoteElects(s, r) => won \in elections')
  BY DEF DeliverRequestVote
<1>3. SlicesSent(sent)'
  <2>1. \A p, q \in Node : outbox'[p][q] \in {outbox[p][q], NoMsg}
    BY DEF DeliverRequestVote, Consume, TypeOK
  <2> QED
    BY <1>2, <2>1, SlicesStay DEF LogInv
<1>4. /\ \A n \in Node \ {s, r} : state'[n] = state[n] /\ currentTerm'[n] = currentTerm[n]
      /\ state'[r] = IF VoteNewer(s, r) THEN "follower" ELSE state[r]
      /\ currentTerm'[r] = VoteTerm(s, r)
      /\ state'[s] = IF VoteStepsDown(s, r) THEN "follower"
                     ELSE IF VoteElects(s, r) THEN "leader" ELSE state[s]
      /\ currentTerm'[s] = IF VoteStepsDown(s, r) THEN VoteTerm(s, r) ELSE currentTerm[s]
  <2>1. DOMAIN state = Node /\ DOMAIN currentTerm = Node
    BY DEF TypeOK
  <2>2. /\ state' = [state EXCEPT
             ![r] = IF VoteNewer(s, r) THEN "follower" ELSE @,
             ![s] = IF VoteStepsDown(s, r) THEN "follower"
                    ELSE IF VoteElects(s, r) THEN "leader" ELSE @]
        /\ currentTerm' = [currentTerm EXCEPT
             ![r] = VoteTerm(s, r),
             ![s] = IF VoteStepsDown(s, r) THEN VoteTerm(s, r) ELSE @]
    BY DEF DeliverRequestVote
  <2> QED
    BY <1>1, <2>1, <2>2
<1>5. ASSUME NEW n \in Node, state'[n] = "leader", ~(n = s /\ VoteElects(s, r))
      PROVE  state[n] = "leader" /\ currentTerm'[n] = currentTerm[n]
  BY <1>1, <1>4, <1>5 DEF VoteTerm
<1>6. CASE ~VoteElects(s, r)
  BY <1>2, <1>3, <1>5, <1>6, LogsQuiet
<1>7. CASE VoteElects(s, r)
  <2>1. state[s] = "candidate" /\ VoteTerm(s, r) = currentTerm[s] /\ currentTerm[s] \in Nat
    BY <1>7 DEF VoteElects, VoteCounted, TypeOK
  <2>2. currentTerm'[s] = currentTerm[s]
    BY <1>4, <2>1
  <2>3. ASSUME NEW e \in elections, e.term = currentTerm[s] PROVE FALSE
    <3>1. e.leader = s
      BY <1>2, <1>7, <2>3 DEF ElectionInv, ElectionSafety
    <3>2. \/ currentTerm[s] > e.term
          \/ state[s] = "leader"
      BY <3>1 DEF ElectionInv, ElectionVotes
    <3> QED
      BY <2>1, <2>3, <3>2
  <2>4. \A x \in Logs(sent) : \A i \in 1..Len(x) : x[i].term # currentTerm[s]
    BY <2>3 DEF LogInv, TermsElected
  <2>5. ASSUME NEW n \in Node, state'[n] = "leader"
        PROVE  /\ log'[n] = log[n]
               /\ \E e \in elections' : e.leader = n /\ e.term = currentTerm'[n]
               /\ \A x \in Logs(sent) : \A i \in 1..Len(x) :
                    x[i].term = currentTerm'[n] => i =< Len(log[n])
    <3>1. CASE n = s
      BY <1>2, <1>7, <2>2, <2>4, <3>1
    <3>2. CASE n # s
      BY <1>2, <1>5, <2>5, <3>2 DEF LogInv, LeaderHasMost, Elected
    <3> QED
      BY <3>1, <3>2
  <2>6. \A y \in Logs(sent) : Begins(y, y)
    BY LogsType DEF Begins
  <2>7. \A n \in Node : log'[n] \in Logs(sent) /\ sent[n] \in Logs(sent)
    BY <1>2 DEF Logs
  <2>8. /\ \A n \in Node : \E y \in Logs(sent) : Begins(log'[n], y)
        /\ \A n \in Node : \E y \in Logs(sent) : Begins(sent[n], y)
    BY <2>6, <2>7
  <2>9. elections \subseteq elections'
    BY <1>2
  <2>10. LogsMatch(sent)' /\ TermsElected(sent)' /\ LeaderHasMost(sent)'
    BY <2>5, <2>8, <2>9, LogsShrink
  <2> QED
    BY <1>3, <2>10 DEF MatchingInv, LogInv
<1> QED
  BY <1>6, <1>7

(* An append: a leader never takes entries from another node, since two     *)
(* leaders of one term would both have been elected.                        *)
LEMMA MatchingAppend ==
  ASSUME TypeOK, TypeOK', ElectionInv,
         NEW sent \in [Node -> Seq(Entry)], LogInv(sent),
         NEW s \in Node, NEW r \in Node, DeliverAppendEntries(s, r)
  PROVE  MatchingInv'
<1> DEFINE m == outbox[s][r]
<1>1. s # r /\ m.term \in Nat /\ m \in AppendEntries
  <2>1. m \in Message /\ m.type = "append_entries"
    BY DEF DeliverAppendEntries, TypeOK
  <2>2. m \in AppendEntries
    BY <2>1 DEF Message, NoMsg, RequestVote
  <2> QED
    BY <2>2, MessageFacts DEF DeliverAppendEntries
<1>2. IsSlice(m, sent[s]) /\ Elected(s, m.term)
  BY DEF DeliverAppendEntries, LogInv, SlicesSent
<1>3. elections' = elections
  BY DEF DeliverAppendEntries
<1>4. SlicesSent(sent)'
  <2>1. \A p, q \in Node : outbox'[p][q] \in {outbox[p][q], NoMsg}
    BY DEF DeliverAppendEntries, Consume, TypeOK
  <2> QED
    BY <1>3, <2>1, SlicesStay DEF LogInv
<1>5. /\ \A n \in Node \ {s, r} : state'[n] = state[n] /\ currentTerm'[n] = currentTerm[n]
      /\ state'[r] = IF AppendBecomes(s, r) THEN "follower" ELSE state[r]
      /\ currentTerm'[r] = AppendTerm(s, r)
      /\ state'[s] = IF AppendStepsDown(s, r) THEN "follower" ELSE state[s]
      /\ currentTerm'[s] = IF AppendStepsDown(s, r) THEN AppendTerm(s, r) ELSE currentTerm[s]
  <2>1. /\ state' = [state EXCEPT
              ![r] = IF AppendBecomes(s, r) THEN "follower" ELSE @,
              ![s] = IF AppendStepsDown(s, r) THEN "follower" ELSE @]
        /\ currentTerm' = [currentTerm EXCEPT
              ![r] = AppendTerm(s, r),
              ![s] = IF AppendStepsDown(s, r) THEN AppendTerm(s, r) ELSE @]
    BY DEF DeliverAppendEntries
  <2>2. DOMAIN state = Node /\ DOMAIN currentTerm = Node
    BY DEF TypeOK
  <2>3. s # r
    BY <1>1
  <2> QED
    BY ONLY <2>1, <2>2, <2>3, s \in Node, r \in Node
<1>6. \A n \in Node : log'[n] = IF n = r /\ ~AppendStale(s, r)
                               THEN AppendedLog(log[r], m) ELSE log[n]
  <2>1. log' = [log EXCEPT ![r] = IF AppendStale(s, r) THEN @ ELSE AppendedLog(@, m)]
    BY DEF DeliverAppendEntries
  <2>2. DOMAIN log = Node
    BY DEF TypeOK
  <2> QED
    BY ONLY <2>1, <2>2, r \in Node
<1>7. currentTerm[r] \in Nat /\ log[r] \in Seq(Entry) /\ sent[s] \in Seq(Entry)
  BY DEF TypeOK
<1>8. \A y \in Logs(sent) : Begins(y, y)
  BY LogsType DEF Begins
<1>9. \A n \in Node : log[n] \in Logs(sent) /\ sent[n] \in Logs(sent)
  BY DEF Logs
<1>10. \A n \in Node : \E y \in Logs(sent) : Begins(log'[n], y)
  <2>1. Match(log[r], sent[s])
    BY <1>9 DEF LogInv, LogsMatch
  <2>2. Begins(AppendedLog(log[r], m), log[r]) \/ Begins(AppendedLog(log[r], m), sent[s])
    BY <1>1, <1>2, <1>7, <2>1, AppendedLogIsPrefix
  <2> QED
    BY <1>6, <1>8, <1>9, <2>2
<1>11. ASSUME NEW n \in Node, state'[n] = "leader"
       PROVE  state[n] = "leader" /\ currentTerm'[n] = currentTerm[n] /\ log'[n] = log[n]
  <2>1. CASE n # r
    BY <1>1, <1>5, <1>6, <1>11, <2>1
  <2>2. CASE n = r
    <3>1. state[r] = "leader" /\ ~AppendBecomes(s, r)
      BY <1>5, <1>11, <2>2
    <3>2. AppendStale(s, r)
      <4> SUFFICES ASSUME ~AppendStale(s, r) PROVE FALSE
        OBVIOUS
      <4>1. m.term = currentTerm[r]
        BY <1>1, <1>7, <3>1 DEF AppendStale, AppendBecomes
      <4>2. Elected(r, m.term)
        BY <3>1, <4>1 DEF LogInv, LeaderHasMost
      <4> QED
        BY <1>1, <1>2, <4>2 DEF Elected, ElectionInv, ElectionSafety
    <3> QED
      BY <1>5, <1>6, <2>2, <3>1, <3>2 DEF AppendTerm
  <2> QED
    BY <2>1, <2>2
<1>12. ASSUME NEW n \in Node, state'[n] = "leader"
       PROVE  /\ log'[n] = log[n]
              /\ \E e \in elections' : e.leader = n /\ e.term = currentTerm'[n]
              /\ \A x \in Logs(sent) : \A i \in 1..Len(x) :
                   x[i].term = currentTerm'[n] => i =< Len(log[n])
  BY <1>3, <1>11, <1>12 DEF LogInv, LeaderHasMost, Elected
<1>13. LogsMatch(sent)' /\ TermsElected(sent)' /\ LeaderHasMost(sent)'
  BY <1>3, <1>8, <1>9, <1>10, <1>12, LogsShrink
<1> QED
  BY <1>4, <1>13 DEF MatchingInv, LogInv

(* A command: the leader appends an entry of its term where no other log    *)
(* has one.                                                                 *)
LEMMA MatchingSubmit ==
  ASSUME TypeOK, TypeOK', ElectionInv,
         NEW sent \in [Node -> Seq(Entry)], LogInv(sent),
         NEW n \in Node, NEW c \in Command, Submit(n, c)
  PROVE  MatchingInv'
<1> DEFINE T == currentTerm[n]
           e == [term |-> T, command |-> c]
           L == Len(log[n])
<1>1. state[n] = "leader" /\ T \in Nat /\ log[n] \in Seq(Entry) /\ L \in Nat /\ e \in Entry
  BY LenProperties DEF Submit, IsTheLeader, TypeOK, Entry
<1>2. UNCHANGED <<state, currentTerm, outbox, elections>>
  BY DEF Submit
<1>3. SlicesSent(sent)'
  BY <1>2 DEF LogInv, SlicesSent, Elected, IsSlice, TermAt
<1>4. /\ \A p \in Node \ {n} : log'[p] = log[p]
      /\ Len(log'[n]) = L + 1 /\ log'[n][L + 1] = e
      /\ \A i \in 1..L : log'[n][i] = log[n][i]
  <2>1. log'[n] = Append(log[n], e) /\ \A p \in Node \ {n} : log'[p] = log[p]
    BY DEF Submit, TypeOK
  <2> QED
    BY <1>1, <2>1, AppendProperties
<1>5. e.term = T
  OBVIOUS
<1> HIDE DEF e
<1>6. \A y \in Logs(sent) : Len(y) \in Nat
  BY LogsType
<1>7. log[n] \in Logs(sent)
  BY DEF Logs
<1>8. \A x \in Logs(sent)' : x \in Logs(sent) \/ x = log'[n]
  BY <1>4 DEF Logs
<1>9. \A x \in Logs(sent) : \A i \in 1..Len(x) : x[i].term = T => i =< L
  BY <1>1 DEF LogInv, LeaderHasMost
<1>10. \A x \in Logs(sent) : Match(x, log[n]) /\ Match(log[n], x)
  BY <1>7 DEF LogInv, LogsMatch
<1>11. ASSUME NEW x \in Logs(sent) PROVE Match(x, log'[n]) /\ Match(log'[n], x)
  <2>1. ASSUME NEW i \in 1..Len(x), i =< L + 1, x[i].term = log'[n][i].term
        PROVE  i \in 1..L /\ x[i].term = log[n][i].term
    <3>1. i # L + 1
      BY <1>1, <1>4, <1>5, <1>9, <2>1
    <3>2. i \in 1..L
      BY <1>1, <1>6, <2>1, <3>1
    <3> QED
      BY <1>4, <2>1, <3>2
  <2>2. Match(x, log'[n])
    <3> SUFFICES ASSUME NEW i \in 1..Len(x), i =< L + 1, x[i].term = log'[n][i].term,
                        NEW j \in 1..i
                 PROVE  x[j] = log'[n][j]
      BY <1>4 DEF Match
    <3>1. i \in 1..L /\ x[i].term = log[n][i].term
      BY <2>1
    <3>2. x[j] = log[n][j] /\ j \in 1..L
      BY <1>1, <1>10, <3>1 DEF Match
    <3> QED
      BY <1>4, <3>2
  <2>3. Match(log'[n], x)
    <3> SUFFICES ASSUME NEW i \in 1..(L + 1), i =< Len(x), log'[n][i].term = x[i].term,
                        NEW j \in 1..i
                 PROVE  log'[n][j] = x[j]
      BY <1>4 DEF Match
    <3>1. i \in 1..L /\ x[i].term = log[n][i].term
      BY <1>1, <1>6, <2>1
    <3>2. x[j] = log[n][j] /\ j \in 1..L
      BY <1>1, <1>6, <1>10, <3>1 DEF Match
    <3> QED
      BY <1>4, <3>2
  <2> QED
    BY <2>2, <2>3
<1>12. LogsMatch(sent)'
  <2>1. \A x, y \in Logs(sent) : Match(x, y)
    BY DEF LogInv, LogsMatch
  <2>2. Match(log'[n], log'[n])
    BY DEF Match
  <2>3. \A x, y \in Logs(sent)' : Match(x, y)
    BY <1>8, <1>11, <2>1, <2>2
  <2> QED
    BY <2>3 DEF LogsMatch, Match
<1>13. ASSUME NEW x \in Logs(sent)', NEW i \in 1..Len(x)
       PROVE  \/ \E y \in Logs(sent) : i \in 1..Len(y) /\ y[i] = x[i]
              \/ i = L + 1 /\ x[i] = e
  <2>1. CASE x \in Logs(sent)
    BY <2>1
  <2>2. CASE x = log'[n]
    <3>1. i \in 1..(L + 1) /\ L \in Nat
      BY <1>1, <1>4, <2>2
    <3>2. CASE i = L + 1
      BY <1>4, <2>2, <3>2
    <3>3. CASE i # L + 1
      <4>1. i \in 1..L
        BY <3>1, <3>3
      <4>2. log[n][i] = x[i]
        BY <1>4, <2>2, <4>1
      <4> QED
        BY <1>7, <4>1, <4>2
    <3> QED
      BY <3>2, <3>3
  <2> QED
    BY <1>8, <2>1, <2>2
<1>14. TermsElected(sent)'
  <2> SUFFICES ASSUME NEW x \in Logs(sent)', NEW i \in 1..Len(x)
               PROVE  \E d \in elections : d.term = x[i].term
    BY <1>2 DEF TermsElected
  <2>1. \E d \in elections : d.term = T
    BY <1>1 DEF LogInv, LeaderHasMost, Elected
  <2> QED
    BY <1>5, <1>13, <2>1 DEF LogInv, TermsElected
<1>15. LeaderHasMost(sent)'
  <2> SUFFICES ASSUME NEW p \in Node, state[p] = "leader"
               PROVE  /\ Elected(p, currentTerm[p])
                      /\ \A x \in Logs(sent)' : \A i \in 1..Len(x) :
                           x[i].term = currentTerm[p] => i =< Len(log'[p])
    BY <1>2 DEF LeaderHasMost, Elected
  <2>1. Elected(p, currentTerm[p])
    BY DEF LogInv, LeaderHasMost
  <2>2. Len(log[p]) \in Nat /\ (p # n => log'[p] = log[p])
    BY <1>4, <1>6 DEF Logs
  <2>3. ASSUME NEW x \in Logs(sent)', NEW i \in 1..Len(x), x[i].term = currentTerm[p]
        PROVE  i =< Len(log'[p])
    <3>1. ASSUME NEW y \in Logs(sent), i \in 1..Len(y), y[i] = x[i] PROVE i =< Len(log'[p])
      <4>1. i =< Len(log[p])
        BY <2>3, <3>1 DEF LogInv, LeaderHasMost
      <4> QED
        BY <1>1, <1>4, <2>2, <4>1
    <3>2. ASSUME i = L + 1, x[i] = e PROVE i =< Len(log'[p])
      <4>1. currentTerm[p] = T
        BY <1>5, <2>3, <3>2
      <4>2. Elected(n, T)
        BY <1>1 DEF LogInv, LeaderHasMost
      <4>3. p = n
        BY <2>1, <4>1, <4>2 DEF Elected, ElectionInv, ElectionSafety
      <4> QED
        BY <1>1, <1>4, <3>2, <4>3
    <3> QED
      BY <1>13, <3>1, <3>2
  <2> QED
    BY <2>1, <2>3
<1> QED
  BY <1>3, <1>12, <1>14, <1>15 DEF MatchingInv, LogInv

LEMMA MatchingStep ==
  TypeOK /\ TypeOK' /\ ElectionInv /\ ElectionInv' /\ MatchingInv /\ [Next]_vars => MatchingInv'
<1> SUFFICES ASSUME TypeOK, TypeOK', ElectionInv, ElectionInv', MatchingInv, [Next]_vars
             PROVE  MatchingInv'
  OBVIOUS
<1>0. PICK sent \in [Node -> Seq(Entry)] : LogInv(sent)
  BY DEF MatchingInv
<1>1. CASE ClusterTick
  BY <1>0, <1>1, MatchingTick
<1>2. ASSUME NEW s \in Node, NEW r \in Node, DropMessage(s, r) PROVE MatchingInv'
  <2>1. UNCHANGED <<log, elections, state, currentTerm>>
    BY <1>2 DEF DropMessage, nodeVars
  <2>2. \A p, q \in Node : outbox'[p][q] \in {outbox[p][q], NoMsg}
    BY <1>2 DEF DropMessage, Consume, TypeOK
  <2>3. SlicesSent(sent)'
    BY <1>0, <2>1, <2>2, SlicesStay DEF LogInv
  <2> QED
    BY <1>0, <2>1, <2>3, LogsQuiet
<1>3. ASSUME NEW s \in Node, NEW r \in Node, DeliverRequestVote(s, r) PROVE MatchingInv'
  BY <1>0, <1>3, MatchingVote
<1>4. ASSUME NEW s \in Node, NEW r \in Node, DeliverAppendEntries(s, r) PROVE MatchingInv'
  BY <1>0, <1>4, MatchingAppend
<1>5. ASSUME NEW n \in Node, NEW c \in Command, Submit(n, c) PROVE MatchingInv'
  BY <1>0, <1>5, MatchingSubmit
<1>6. CASE UNCHANGED <<log, elections, state, currentTerm, outbox>>
  <2>1. SlicesSent(sent)'
    BY <1>0, <1>6, SlicesStay DEF LogInv
  <2> QED
    BY <1>0, <1>6, <2>1, LogsQuiet
<1>7. ASSUME NEW n \in Node, PartitionNode(n) \/ HealNode(n) PROVE MatchingInv'
  BY <1>6, <1>7 DEF PartitionNode, HealNode, nodeVars
<1>8. CASE UNCHANGED vars
  BY <1>6, <1>8 DEF vars
<1> QED
  BY <1>1, <1>2, <1>3, <1>4, <1>5, <1>7, <1>8 DEF Next

\* Two logs that hold an entry of the same term at an index agree up to it, in
\* a cluster of any size, with commands, terms and partitions without bound.
THEOREM LogsAgree == Spec => []LogMatching
<1>1. Init => ElectionInv /\ MatchingInv
  BY ElectionInit, MatchingInit
<1>2. TypeOK /\ TypeOK' /\ ElectionInv /\ [Next]_vars => ElectionInv'
  BY ElectionStep
<1>3. TypeOK /\ TypeOK' /\ ElectionInv /\ ElectionInv' /\ MatchingInv /\ [Next]_vars
        => MatchingInv'
  BY MatchingStep
<1>4. TypeOK /\ MatchingInv => LogMatching
  <2> SUFFICES ASSUME TypeOK, MatchingInv, NEW m \in Node, NEW n \in Node,
                      NEW i \in 1..Len(log[m]), i =< Len(log[n]),
                      log[m][i].term = log[n][i].term
               PROVE  SubSeq(log[m], 1, i) = SubSeq(log[n], 1, i)
    BY DEF LogMatching
  <2>1. PICK sent \in [Node -> Seq(Entry)] : LogInv(sent)
    BY DEF MatchingInv
  <2>2. \A j \in 1..i : log[m][j] = log[n][j]
    <3>1. log[m] \in Logs(sent) /\ log[n] \in Logs(sent)
      BY DEF Logs
    <3>2. Match(log[m], log[n])
      BY <2>1, <3>1 DEF LogInv, LogsMatch
    <3> QED
      BY <3>2 DEF Match
  <2>3. \A j \in 1..i : log[m][j] \in Entry /\ log[n][j] \in Entry
    <3>1. log[m] \in Seq(Entry) /\ log[n] \in Seq(Entry)
      BY DEF TypeOK
    <3>2. \A j \in 1..i : j \in 1..Len(log[m]) /\ j \in 1..Len(log[n])
      BY <3>1, LenProperties
    <3> QED
      BY <3>1, <3>2, ElementOfSeq
  <2>4. /\ SubSeq(log[m], 1, i) \in Seq(Entry) /\ SubSeq(log[n], 1, i) \in Seq(Entry)
        /\ Len(SubSeq(log[m], 1, i)) = i /\ Len(SubSeq(log[n], 1, i)) = i
        /\ \A j \in 1..i : /\ SubSeq(log[m], 1, i)[j] = log[m][j]
                           /\ SubSeq(log[n], 1, i)[j] = log[n][j]
    <3>1. i \in Nat \ {0}
      <4>1. log[m] \in Seq(Entry)
        BY DEF TypeOK
      <4> QED
        BY <4>1, LenProperties
    <3>2. ASSUME NEW x, \A j \in 1..i : x[j] \in Entry
          PROVE  /\ SubSeq(x, 1, i) \in Seq(Entry) /\ Len(SubSeq(x, 1, i)) = i
                 /\ \A j \in 1..i : SubSeq(x, 1, i)[j] = x[j]
      <4>1. /\ SubSeq(x, 1, i) \in Seq(Entry)
            /\ Len(SubSeq(x, 1, i)) = IF 1 =< i THEN i - 1 + 1 ELSE 0
            /\ \A j \in 1..(i - 1 + 1) : SubSeq(x, 1, i)[j] = x[1 + j - 1]
        BY <3>1, <3>2, SubSeqProperties
      <4> QED
        BY <3>1, <4>1
    <3> QED
      BY <2>3, <3>2
  <2> QED
    BY <2>2, <2>4, SeqEqual
<1> QED
  BY <1>1, <1>2, <1>3, <1>4, TypeCorrect, PTL DEF Spec
=============================================================================
