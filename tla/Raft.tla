-------------------------------- MODULE Raft --------------------------------
(***************************************************************************)
(* raft-consensus/raft.py: RaftNode and the RaftCluster that drives it.    *)
(*                                                                         *)
(* RaftCluster.tick first ticks every reachable node and collects what     *)
(* they send, then delivers the messages one by one in the order of the    *)
(* senders and, for one sender, of its peers; the reply to a message is    *)
(* handed back to its sender in the same call.  Submit, partition and heal *)
(* happen between two ticks.  The timers are abstracted: any subset of the *)
(* reachable nodes may have its timer fire in a tick.                      *)
(*                                                                         *)
(* An operator Foo_Bar that precedes Foo is Foo with a plausible fault; it *)
(* is used only to show that the properties notice the fault.              *)
(***************************************************************************)
EXTENDS Integers, Sequences, FiniteSets

CONSTANTS N,          \* number of nodes; a node is its position in node_ids
          Command,    \* commands clients submit
          MaxTerm,    \* bound: no election is started beyond this term
          MaxLen      \* bound: no command is submitted to a longer log

ASSUME NAssumption == N \in Nat \ {0}
ASSUME BoundAssumption == MaxTerm \in Nat /\ MaxLen \in Nat

Node == 1..N
Nil == 0              \* voted_for is None
NoMsg == [type |-> "none"]

VARIABLES
  state,              \* _state
  currentTerm,        \* _current_term
  votedFor,           \* _voted_for
  log,                \* _log without the sentinel: entry i is log[n][i]
  commitIndex,        \* _commit_index
  nextIndex,          \* _next_index
  matchIndex,         \* _match_index
  votesReceived,      \* _votes_received
  partitioned,        \* RaftCluster._partitioned
  outbox,             \* outbox[s][r]: message of this tick not yet delivered
  elections           \* history: every election won, with its voters

nodeVars == <<state, currentTerm, votedFor, log, commitIndex, votesReceived>>
leaderVars == <<nextIndex, matchIndex>>
vars == <<state, currentTerm, votedFor, log, commitIndex, nextIndex,
          matchIndex, votesReceived, partitioned, outbox, elections>>

Entry == [term : Nat, command : Command]
Election == [leader : Node, term : Nat, votes : SUBSET Node]
RequestVote == [type : {"request_vote"}, term : Nat,
                lastLogIndex : Nat, lastLogTerm : Nat]
AppendEntries == [type : {"append_entries"}, term : Nat, prevLogIndex : Nat,
                  prevLogTerm : Nat, entries : Seq(Entry), leaderCommit : Nat]
Message == {NoMsg} \cup RequestVote \cup AppendEntries

-----------------------------------------------------------------------------
(* Helpers on one log.  Index 0 is the sentinel entry of term 0.           *)

Peers(n) == Node \ {n}

Majority(S) == Cardinality(S) > N \div 2

TermAt(l, i) == IF i = 0 THEN 0 ELSE l[i].term

LastTerm(l) == TermAt(l, Len(l))

\* _is_log_up_to_date of a node whose log is l
IsLogUpToDate(l, lastTerm, lastIndex) ==
  IF lastTerm # LastTerm(l) THEN lastTerm > LastTerm(l) ELSE lastIndex >= Len(l)

\* can_vote of handle_request_vote
CanVote_Always(voted, candidate) == TRUE
CanVote(voted, candidate) == voted \in {Nil, candidate}

\* The entries of a message that the receiver lacks or holds with another term
Missing_KeepsConflicts(l, prev, entries) ==
  {i \in 1..Len(entries) : prev + i > Len(l)}
Missing(l, prev, entries) ==
  {i \in 1..Len(entries) : \/ prev + i > Len(l)
                           \/ l[prev + i].term # entries[i].term}

\* The append loop: from the first missing entry on, the message's entries
Spliced(l, prev, entries) ==
  IF Missing(l, prev, entries) = {} THEN l
  ELSE [i \in 1..(prev + Len(entries)) |->
          IF \A j \in 1..(i - prev) : j \notin Missing(l, prev, entries)
          THEN l[i] ELSE entries[i - prev]]

\* Indexes above `commit` that _advance_commit_index counts as replicated
Replicated(n, commit, match) ==
  {i \in (commit + 1)..Len(log[n]) :
     /\ log[n][i].term = currentTerm[n]
     /\ Majority({n} \cup {p \in Peers(n) : match[p] >= i})}

\* _advance_commit_index: the loop keeps the last index that qualifies
AdvanceCommit(n, commit, match) ==
  CHOOSE c \in {commit} \cup Replicated(n, commit, match) :
    \A i \in Replicated(n, commit, match) : i =< c

-----------------------------------------------------------------------------
Init ==
  /\ state = [n \in Node |-> "follower"]
  /\ currentTerm = [n \in Node |-> 0]
  /\ votedFor = [n \in Node |-> Nil]
  /\ log = [n \in Node |-> << >>]
  /\ commitIndex = [n \in Node |-> 0]
  /\ nextIndex = [n \in Node |-> [p \in Node |-> 1]]
  /\ matchIndex = [n \in Node |-> [p \in Node |-> 0]]
  /\ votesReceived = [n \in Node |-> {}]
  /\ partitioned = {}
  /\ outbox = [s \in Node |-> [r \in Node |-> NoMsg]]
  /\ elections = {}

\* No tick is under way: every message was delivered
Quiet == \A s, r \in Node : outbox[s][r] = NoMsg

-----------------------------------------------------------------------------
(* RaftCluster.tick, first half: RaftNode.tick on every reachable node.    *)

\* _make_append_entries(peer)
AppendEntriesTo(n, p) ==
  [type |-> "append_entries", term |-> currentTerm[n],
   prevLogIndex |-> nextIndex[n][p] - 1,
   prevLogTerm |-> TermAt(log[n], nextIndex[n][p] - 1),
   entries |-> SubSeq(log[n], nextIndex[n][p], Len(log[n])),
   leaderCommit |-> commitIndex[n]]

RequestVoteOf(n) ==
  [type |-> "request_vote", term |-> currentTerm[n] + 1,
   lastLogIndex |-> Len(log[n]), lastLogTerm |-> LastTerm(log[n])]

\* _make_append_entries raises IndexError: prev_index is past the log's end
Raises(n) == /\ state[n] = "leader"
             /\ \E p \in Peers(n) : nextIndex[n][p] - 1 > Len(log[n])

\* Nodes whose tick completes when the timers of `fired` fire: an exception
\* ends the loop over the nodes
Ticked(fired) == {n \in fired : \A b \in fired : Raises(b) => n < b}

Fired == {fired \in SUBSET (Node \ partitioned) :
            \A n \in fired : state[n] # "leader" => currentTerm[n] < MaxTerm}

ClusterTick ==
  /\ Quiet
  /\ \E fired \in Fired :
       LET ticked == Ticked(fired)
           lead == {n \in ticked : state[n] = "leader"}
           cand == ticked \ lead                      \* _become_candidate
       IN /\ state' = [n \in Node |-> IF n \in cand THEN "candidate" ELSE state[n]]
          /\ currentTerm' = [n \in Node |-> IF n \in cand THEN currentTerm[n] + 1
                                                          ELSE currentTerm[n]]
          /\ votedFor' = [n \in Node |-> IF n \in cand THEN n ELSE votedFor[n]]
          /\ votesReceived' = [n \in Node |-> IF n \in cand THEN {n}
                                                            ELSE votesReceived[n]]
          /\ commitIndex' = [n \in Node |->
               IF n \in lead THEN AdvanceCommit(n, commitIndex[n], matchIndex[n])
                             ELSE commitIndex[n]]
          /\ outbox' = [s \in Node |-> [r \in Node |->
               IF ticked # fired \/ s \notin ticked \/ r = s THEN NoMsg
               ELSE IF s \in lead THEN AppendEntriesTo(s, r) ELSE RequestVoteOf(s)]]
  /\ UNCHANGED <<log, leaderVars, partitioned, elections>>

-----------------------------------------------------------------------------
(* RaftCluster.tick, second half: deliver one message and its reply.       *)

\* (s, r) carries the next message of the tick
IsNext(s, r) ==
  /\ outbox[s][r] # NoMsg
  /\ \A t, q \in Node : outbox[t][q] # NoMsg => s < t \/ (s = t /\ r =< q)

Consume(s, r) == outbox' = [outbox EXCEPT ![s][r] = NoMsg]

\* Neither end is partitioned, so the message and its reply get through
Reachable(s, r) == s \notin partitioned /\ r \notin partitioned

DropMessage(s, r) ==
  /\ IsNext(s, r)
  /\ ~Reachable(s, r)
  /\ Consume(s, r)
  /\ UNCHANGED <<nodeVars, leaderVars, partitioned, elections>>

(* handle_request_vote of r on the message of s ... *)
VoteNewer(s, r) == outbox[s][r].term > currentTerm[r]    \* _become_follower

VoteTerm(s, r) == IF VoteNewer(s, r) THEN outbox[s][r].term ELSE currentTerm[r]

VoteBefore(s, r) == IF VoteNewer(s, r) THEN Nil ELSE votedFor[r]

VoteGranted(s, r) ==
  /\ outbox[s][r].term = VoteTerm(s, r)
  /\ CanVote(VoteBefore(s, r), s)
  /\ IsLogUpToDate(log[r], outbox[s][r].lastLogTerm, outbox[s][r].lastLogIndex)

(* ... and handle_vote_response of s on the reply. *)
VoteStepsDown(s, r) == VoteTerm(s, r) > currentTerm[s]   \* _become_follower

VoteCounted(s, r) ==
  /\ VoteGranted(s, r)
  /\ state[s] = "candidate"
  /\ VoteTerm(s, r) = currentTerm[s]

VoteElects(s, r) == VoteCounted(s, r) /\ Majority(votesReceived[s] \cup {r})

DeliverRequestVote(s, r) ==
  /\ IsNext(s, r)
  /\ Reachable(s, r)
  /\ outbox[s][r].type = "request_vote"
  /\ state' = [state EXCEPT
       ![r] = IF VoteNewer(s, r) THEN "follower" ELSE @,
       ![s] = IF VoteStepsDown(s, r) THEN "follower"
              ELSE IF VoteElects(s, r) THEN "leader" ELSE @]
  /\ currentTerm' = [currentTerm EXCEPT
       ![r] = VoteTerm(s, r),
       ![s] = IF VoteStepsDown(s, r) THEN VoteTerm(s, r) ELSE @]
  /\ votedFor' = [votedFor EXCEPT
       ![r] = IF VoteGranted(s, r) THEN s ELSE VoteBefore(s, r),
       ![s] = IF VoteStepsDown(s, r) THEN Nil ELSE @]
  /\ votesReceived' = [votesReceived EXCEPT
       ![s] = IF VoteCounted(s, r) THEN @ \cup {r} ELSE @]
  /\ nextIndex' = [nextIndex EXCEPT                      \* _become_leader
       ![s] = IF VoteElects(s, r) THEN [p \in Node |-> Len(log[s]) + 1] ELSE @]
  /\ matchIndex' = [matchIndex EXCEPT
       ![s] = IF VoteElects(s, r) THEN [p \in Node |-> 0] ELSE @]
  /\ elections' = elections \cup
       {e \in {[leader |-> s, term |-> currentTerm[s],
                votes |-> votesReceived[s] \cup {r}]} : VoteElects(s, r)}
  /\ Consume(s, r)
  /\ UNCHANGED <<log, commitIndex, partitioned>>

\* handle_append_entries of r: the log it leaves behind, given the message
AppendedLog(l, m) ==
  IF m.prevLogIndex > Len(l) THEN l
  ELSE IF TermAt(l, m.prevLogIndex) # m.prevLogTerm
       THEN SubSeq(l, 1, m.prevLogIndex - 1)
       ELSE Spliced(l, m.prevLogIndex, m.entries)

AppendSucceeds(l, m) ==
  m.prevLogIndex =< Len(l) /\ TermAt(l, m.prevLogIndex) = m.prevLogTerm

\* The match_index a successful reply carries: the length of the whole log
AckedIndex(l, m) == Len(AppendedLog(l, m))

(* handle_append_entries of r on the message of s ... *)
AppendStale(s, r) == outbox[s][r].term < currentTerm[r]

AppendBecomes(s, r) ==                                   \* _become_follower
  \/ outbox[s][r].term > currentTerm[r]
  \/ outbox[s][r].term = currentTerm[r] /\ state[r] = "candidate"

AppendTerm(s, r) == IF AppendStale(s, r) THEN currentTerm[r] ELSE outbox[s][r].term

AppendSuccess(s, r) == ~AppendStale(s, r) /\ AppendSucceeds(log[r], outbox[s][r])

AppendedCommit(s, r) ==
  LET commit == outbox[s][r].leaderCommit
      last == Len(AppendedLog(log[r], outbox[s][r]))
  IN  IF AppendSuccess(s, r) /\ commit > commitIndex[r]
      THEN IF commit < last THEN commit ELSE last
      ELSE commitIndex[r]

(* ... and handle_append_response of s on the reply. *)
AppendStepsDown(s, r) == AppendTerm(s, r) > currentTerm[s]

AppendAcked(s, r) ==
  ~AppendStepsDown(s, r) /\ state[s] = "leader" /\ AppendSuccess(s, r)

AppendRejected(s, r) ==
  ~AppendStepsDown(s, r) /\ state[s] = "leader" /\ ~AppendSuccess(s, r)

MatchAfter(s, r) == [matchIndex[s] EXCEPT ![r] = AckedIndex(log[r], outbox[s][r])]

DeliverAppendEntries(s, r) ==
  /\ IsNext(s, r)
  /\ Reachable(s, r)
  /\ outbox[s][r].type = "append_entries"
  /\ state' = [state EXCEPT
       ![r] = IF AppendBecomes(s, r) THEN "follower" ELSE @,
       ![s] = IF AppendStepsDown(s, r) THEN "follower" ELSE @]
  /\ currentTerm' = [currentTerm EXCEPT
       ![r] = AppendTerm(s, r),
       ![s] = IF AppendStepsDown(s, r) THEN AppendTerm(s, r) ELSE @]
  /\ votedFor' = [votedFor EXCEPT
       ![r] = IF AppendBecomes(s, r) THEN Nil ELSE @,
       ![s] = IF AppendStepsDown(s, r) THEN Nil ELSE @]
  /\ log' = [log EXCEPT
       ![r] = IF AppendStale(s, r) THEN @ ELSE AppendedLog(@, outbox[s][r])]
  /\ commitIndex' = [commitIndex EXCEPT
       ![r] = AppendedCommit(s, r),
       ![s] = IF AppendAcked(s, r) THEN AdvanceCommit(s, @, MatchAfter(s, r)) ELSE @]
  /\ matchIndex' = [matchIndex EXCEPT
       ![s] = IF AppendAcked(s, r) THEN MatchAfter(s, r) ELSE @]
  /\ nextIndex' = [nextIndex EXCEPT
       ![s][r] = IF AppendAcked(s, r) THEN AckedIndex(log[r], outbox[s][r]) + 1
                 ELSE IF AppendRejected(s, r) /\ @ > 1 THEN @ - 1 ELSE @]
  /\ Consume(s, r)
  /\ UNCHANGED <<votesReceived, partitioned, elections>>

-----------------------------------------------------------------------------
(* RaftCluster operations between two ticks.                               *)

\* get_leader: the only reachable node that believes it leads
IsTheLeader(n) == {m \in Node \ partitioned : state[m] = "leader"} = {n}

\* submit, and client_request of the leader
Submit(n, c) ==
  /\ Quiet
  /\ IsTheLeader(n)
  /\ Len(log[n]) < MaxLen
  /\ log' = [log EXCEPT ![n] = Append(@, [term |-> currentTerm[n], command |-> c])]
  /\ UNCHANGED <<state, currentTerm, votedFor, commitIndex, votesReceived,
                 leaderVars, partitioned, outbox, elections>>

PartitionNode(n) ==
  /\ Quiet
  /\ n \notin partitioned
  /\ partitioned' = partitioned \cup {n}
  /\ UNCHANGED <<nodeVars, leaderVars, outbox, elections>>

HealNode(n) ==
  /\ Quiet
  /\ n \in partitioned
  /\ partitioned' = partitioned \ {n}
  /\ UNCHANGED <<nodeVars, leaderVars, outbox, elections>>

Next ==
  \/ ClusterTick
  \/ \E s, r \in Node : DropMessage(s, r)
  \/ \E s, r \in Node : DeliverRequestVote(s, r)
  \/ \E s, r \in Node : DeliverAppendEntries(s, r)
  \/ \E n \in Node, c \in Command : Submit(n, c)
  \/ \E n \in Node : PartitionNode(n)
  \/ \E n \in Node : HealNode(n)

Spec == Init /\ [][Next]_vars

-----------------------------------------------------------------------------
(* Properties.                                                             *)

\* Every variable of every node has the type the code gives it.
TypeOK ==
  /\ state \in [Node -> {"follower", "candidate", "leader"}]
  /\ currentTerm \in [Node -> Nat]
  /\ votedFor \in [Node -> Node \cup {Nil}]
  /\ log \in [Node -> Seq(Entry)]
  /\ commitIndex \in [Node -> Nat]
  /\ nextIndex \in [Node -> [Node -> Nat \ {0}]]
  /\ matchIndex \in [Node -> [Node -> Nat]]
  /\ votesReceived \in [Node -> SUBSET Node]
  /\ partitioned \in SUBSET Node
  /\ outbox \in [Node -> [Node -> Message]]
  /\ elections \in SUBSET Election

\* At most one node ever wins the election of a term, although a candidate
\* that meets a leader of its own term forgets the vote it cast for itself
\* (_become_follower in handle_append_entries).
ElectionSafety ==
  \A e, f \in elections : e.term = f.term => e.leader = f.leader

\* Two logs that hold an entry of the same term at an index agree up to it:
\* handle_append_entries only splices after a matching previous entry.
LogMatching ==
  \A m, n \in Node : \A i \in 1..Len(log[m]) :
    (i =< Len(log[n]) /\ log[m][i].term = log[n][i].term)
      => SubSeq(log[m], 1, i) = SubSeq(log[n], 1, i)

\* The inductive invariant behind ElectionSafety.  Candidates of one term
\* have disjoint sets of voters, and a won election's voters have moved to a
\* later term or still hold that vote; so no voter of a won election can be
\* reset by handle_append_entries, which resets only candidates.
CandidateVotes ==
  \A c \in Node : state[c] = "candidate" =>
    /\ votedFor[c] = c
    /\ c \in votesReceived[c]
    /\ \A v \in votesReceived[c] :
         \/ currentTerm[v] > currentTerm[c]
         \/ currentTerm[v] = currentTerm[c] /\ votedFor[v] = c
    /\ \A d \in Node :
         (d # c /\ state[d] = "candidate" /\ currentTerm[d] = currentTerm[c])
            => votesReceived[c] \cap votesReceived[d] = {}
ElectionVotes ==
  \A e \in elections :
    /\ Majority(e.votes)
    /\ e.leader \in e.votes
    /\ \A v \in e.votes :
         \/ currentTerm[v] > e.term
         \/ /\ currentTerm[v] = e.term
            /\ votedFor[v] = e.leader
            /\ v = e.leader => state[v] = "leader"
    /\ \A c \in Node : (state[c] = "candidate" /\ currentTerm[c] = e.term)
                         => votesReceived[c] \cap e.votes = {}
NoSelfMessage == \A n \in Node : outbox[n][n] = NoMsg
ElectionInv == NoSelfMessage /\ CandidateVotes /\ ElectionVotes /\ ElectionSafety

\* test_raft.py: "New leader's log contains all previously committed entries".
\* A leader holds every entry that a node of the same or a lower term
\* reports as committed.
LeaderCompleteness ==
  \A l, m \in Node :
    (state[l] = "leader" /\ currentTerm[m] =< currentTerm[l]) =>
      \A i \in 1..commitIndex[m] :
        i =< Len(log[m]) => i =< Len(log[l]) /\ log[l][i] = log[m][i]
=============================================================================
