----------------------------- MODULE MCReplication -----------------------------
(***************************************************************************)
(* The replicated stores and the membership protocol: leaderless quorums   *)
(* (Dynamo), quorums with read repair only, hinted handoff, a leader with  *)
(* followers, several leaders, CRDTs, vector-clocked versions, gossip.     *)
(* They share nothing: a behaviour runs one of them, and the variables of  *)
(* the others keep their values.                                           *)
(***************************************************************************)
EXTENDS Dynamo

CONSTANTS
    Follower, LKey, LValue, NoValue, Modes, Retention, MaxLsn,      \* LeaderFollower
    Leaders, MValue, NoEntry, MaxMWrites,                           \* MultiLeader
    Repl, RRQuorums, Absent, MaxRRPuts,                             \* ReadRepair
    HNode, Preferred, HWriteQuorum, HintTtl, MaxHVersion, MaxHTime, \* HintedHandoff
    Rep, Elem, MaxUpdates, MaxStamp,                                \* Crdt
    VNode, VKey, MaxVersions,                                       \* VersionedStore
    GNode, TSuspect, TDead, TCleanup, Unknown, MaxRounds            \* Gossip

\* ReadRepairStore wants R + W > N, so a store that writes nowhere is never read;
\* replicas and nodes are kept in the order of their numbers.
ASSUME RepairAssumption ==
    /\ Repl \subseteq Int /\ IsFiniteSet(Repl)
    /\ \A q \in RRQuorums : q[1] \in Nat /\ q[2] \in Nat \ {0}
    /\ Absent \notin [val : Nat, ver : Nat]
\* The followers are in the order of registration; _log_retention is 10000.
ASSUME FollowerAssumption ==
    /\ Follower \subseteq Int /\ IsFiniteSet(Follower)
    /\ Retention \in Nat \ {0} /\ MaxLsn \in Nat
ASSUME HintAssumption ==
    /\ HNode \subseteq Int /\ IsFiniteSet(HNode) /\ Preferred \subseteq HNode
    /\ HintTtl \in Nat

VARIABLES
    cluster,                                                        \* the one in use
    nextLsn, rlog, ldata, registered, online, applied, fdata, lastSeen, past, detached,
    strategy, topology, nodes, writes, quiet,                       \* MultiLeader
    quorums, copies, avail, puts,                                   \* ReadRepair
    sloppy, version, stored, hhHints, hhUp, now, owed,              \* HintedHandoff
    kind, reps, updates, knows, synced, orderly,                    \* Crdt
    vclock, siblings, versions, reached,                            \* VersionedStore
    members, added, failed, leaving, left, round, silentSince       \* Gossip

LF == INSTANCE LeaderFollower
ML == INSTANCE MultiLeader
RR == INSTANCE ReadRepair
HH == INSTANCE HintedHandoff WITH hints <- hhHints, up <- hhUp
CR == INSTANCE Crdt
VS == INSTANCE VersionedStore
GO == INSTANCE Gossip

followerVars == <<nextLsn, rlog, ldata, registered, online, applied, fdata, lastSeen, past, detached>>
leaderVars == <<strategy, topology, nodes, writes, quiet>>
repairVars == <<quorums, copies, avail, puts>>
hintVars == <<sloppy, version, stored, hhHints, hhUp, now, owed>>
mergeVars == <<kind, reps, updates, knows, synced, orderly>>
versionVars == <<vclock, siblings, versions, reached>>
gossipVars == <<members, added, failed, leaving, left, round, silentSince>>
replicationVars == <<cluster, vars, followerVars, leaderVars, repairVars, hintVars, mergeVars, versionVars, gossipVars>>

\* The pairs of three replicas' quorums that overlap and do so by one.
MCQuorums == {<<2, 2>>, <<1, 3>>, <<3, 1>>}

Clusters == {"dynamo", "followers", "leaders", "read repair", "hints", "crdts", "versions", "gossip"}

\* The variables of the cluster in use; the others have one value.  Where a read
\* session was last matters only to its next read, and what a leader had after
\* entries that a promotion undid matters to no follower it reaches.
InUse ==
    CASE cluster = "dynamo" -> vars
      [] cluster = "followers" ->
           <<nextLsn, rlog, ldata, registered, online, applied, fdata, detached,
             [l \in 0..(nextLsn - 1) |-> past[l]]>>
      [] cluster = "leaders" -> leaderVars
      [] cluster = "read repair" -> repairVars
      [] cluster = "hints" -> hintVars
      [] cluster = "crdts" -> mergeVars
      [] cluster = "versions" -> versionVars
      [] cluster = "gossip" -> gossipVars
ReplicationView == <<cluster, InUse>>

ReplicationInit ==
    /\ cluster \in Clusters
    /\ Init /\ LF!FollowerInit /\ ML!LeadersInit /\ RR!RepairInit /\ HH!HintInit
    /\ CR!CrdtInit /\ VS!VersionInit /\ GO!GossipInit
    /\ cluster # "leaders" => strategy = "lww" /\ topology = "ring"
    /\ cluster # "read repair" => quorums = <<2, 2>>
    /\ cluster # "hints" => ~sloppy
    /\ cluster # "crdts" => kind = "counter"

ReplicationNext ==
    /\ UNCHANGED cluster
    /\ \/ /\ cluster = "dynamo" /\ Next
          /\ UNCHANGED <<followerVars, leaderVars, repairVars, hintVars, mergeVars, versionVars, gossipVars>>
       \/ /\ cluster = "followers" /\ LF!FollowerNext
          /\ UNCHANGED <<vars, leaderVars, repairVars, hintVars, mergeVars, versionVars, gossipVars>>
       \/ /\ cluster = "leaders" /\ ML!LeadersNext
          /\ UNCHANGED <<vars, followerVars, repairVars, hintVars, mergeVars, versionVars, gossipVars>>
       \/ /\ cluster = "read repair" /\ RR!RepairNext
          /\ UNCHANGED <<vars, followerVars, leaderVars, hintVars, mergeVars, versionVars, gossipVars>>
       \/ /\ cluster = "hints" /\ HH!HintNext
          /\ UNCHANGED <<vars, followerVars, leaderVars, repairVars, mergeVars, versionVars, gossipVars>>
       \/ /\ cluster = "crdts" /\ CR!CrdtNext
          /\ UNCHANGED <<vars, followerVars, leaderVars, repairVars, hintVars, versionVars, gossipVars>>
       \/ /\ cluster = "versions" /\ VS!VersionNext
          /\ UNCHANGED <<vars, followerVars, leaderVars, repairVars, hintVars, mergeVars, gossipVars>>
       \/ /\ cluster = "gossip" /\ GO!GossipNext
          /\ UNCHANGED <<vars, followerVars, leaderVars, repairVars, hintVars, mergeVars, versionVars>>

ReplicationSpec == ReplicationInit /\ [][ReplicationNext]_replicationVars

(***************************************************************************)
(* Properties                                                              *)
(***************************************************************************)

\* The two stores that put a version at every write: read-repair returns the last
\* put from any R replicas that happen to be up, hinted-handoff has the newest
\* version of a preferred node in its store or in a hint for it until it expires.
QuorumStores ==
    /\ cluster = "read repair" => RR!ReadsLastPut
    /\ cluster = "hints" => HH!HintsCover

\* The two whose replicas follow what others wrote: a follower the leader's log
\* reaches shows the leader's past as of its last entry; vector clocks tell which
\* version was written knowing of which, and a versioned store keeps exactly the
\* versions no other that reached it follows, in whatever order they came.
ReplicasFollow ==
    /\ cluster = "followers" => LF!FollowersShowPast
    /\ cluster = "versions" => VS!ClocksAreCausal /\ VS!SiblingsAreLatest

\* The two that merge concurrent updates: a CRDT replica shows what the updates
\* that reached it amount to, whatever the order and the repetitions, and
\* last-write-wins leaders hold the greatest write when as many syncs as there are
\* nodes have passed.
MergesConverge ==
    /\ cluster = "crdts" => CR!CrdtConverge
    /\ cluster = "leaders" => ML!LastWriteWins

\* gossip-protocol: who stopped is found dead, is forgotten and does not come
\* back; who did not stop is not found dead.
FailuresDetected == cluster = "gossip" => GO!FailuresDetected
=============================================================================
